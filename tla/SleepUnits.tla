----------------------------- MODULE SleepUnits -----------------------------
(***************************************************************************)
(* systemd's sleep services with both hardware workarounds installed: the  *)
(* Wi-Fi guard is a unit that staged sleep requires and outlives it by its *)
(* restoration, the touch guard runs within the service, and systemd-sleep *)
(* runs the hook around every time the machine goes down.  One service at  *)
(* a time asks the machine to sleep; nothing orders an ordinary one after  *)
(* the guard.  Operators named Mutant... are wrong versions of the         *)
(* definition that follows them.                                           *)
(***************************************************************************)
EXTENDS MwifiexHook, IptsdGuard

CONSTANT Overlap   \* an ordinary sleep may begin while the guard restores

ASSUME OverlapAssumption == Overlap \in BOOLEAN

VARIABLES
  sleep,   \* the service: none, ordinary or staged
  phase,   \* of the service
  guard    \* hibermachy-mwifiex.service

unitVars == <<sleep, phase, guard>>
vars == <<wifiVars, calm, touchVars, unitVars>>

Phases == {"off", "required", "holding", "pre", "asleep", "post", "releasing"}

TypeOK ==
  /\ WifiTypeOK /\ TouchTypeOK
  /\ sleep \in {"none", "ordinary", "staged"}
  /\ phase \in Phases
  /\ guard \in {"inactive", "starting", "active", "stopping"}

Init ==
  /\ module \in BOOLEAN
  /\ marker = FALSE /\ held = FALSE
  /\ pc = [script \in Scripts |-> "off"]
  /\ attempt = [script \in Scripts |-> 1]
  /\ calm = FALSE
  /\ mask \in {"none", "administrator"}
  /\ masked = (mask # "none")
  /\ recorded = "none"
  /\ daemon \in BOOLEAN
  /\ touch = "off" /\ stranded = FALSE
  /\ sleep = "none" /\ phase = "off" /\ guard = "inactive"

hookStays == UNCHANGED <<module, records, attempt, calm>>
wifiStays == hookStays /\ UNCHANGED pc
touchStays == UNCHANGED touchVars

-----------------------------------------------------------------------------
(***************************************************************************)
(* An ordinary sleep: what the hook says does not keep it from sleeping.   *)
(***************************************************************************)

Suspend ==
  /\ sleep = "none"
  /\ Overlap \/ guard = "inactive"
  /\ sleep' = "ordinary" /\ phase' = "pre"
  /\ Go("hook", FirstStep("pre", FALSE))
  /\ hookStays /\ touchStays /\ UNCHANGED guard

Returned(script) == pc[script] \in {"ok", "failed"}

FallsAsleep ==
  /\ phase = "pre"
  /\ Returned("hook")
  /\ phase' = "asleep"
  /\ Go("hook", "off")
  /\ hookStays /\ touchStays /\ UNCHANGED <<sleep, guard>>

WakesUp ==
  /\ phase = "asleep"
  /\ phase' = "post"
  /\ Go("hook", FirstStep("post", sleep = "staged"))
  /\ hookStays /\ touchStays /\ UNCHANGED <<sleep, guard>>

\* A staged sleep goes down again, or is over.
HookDone ==
  /\ phase = "post"
  /\ Returned("hook")
  /\ IF sleep = "ordinary"
       THEN sleep' = "none" /\ phase' = "off" /\ Go("hook", "off") /\ touchStays
       ELSE /\ UNCHANGED sleep
            /\ \/ ~calm /\ phase' = "pre" /\ Go("hook", FirstStep("pre", TRUE)) /\ touchStays
               \/ /\ phase' = "releasing" /\ Go("hook", "off")
                  /\ touch' = "unmask" /\ UNCHANGED touchState
  /\ hookStays /\ UNCHANGED guard

-----------------------------------------------------------------------------
(***************************************************************************)
(* A staged sleep.                                                         *)
(***************************************************************************)

StageSleep ==
  /\ sleep = "none"
  /\ sleep' = "staged" /\ phase' = "required"
  /\ wifiStays /\ touchStays /\ UNCHANGED guard

\* Requires= and After=.
GuardStarts ==
  /\ phase = "required" /\ guard = "inactive"
  /\ guard' = "starting"
  /\ Go("guard", "hold")
  /\ hookStays /\ touchStays /\ UNCHANGED <<sleep, phase>>

GuardHolds ==
  /\ guard = "starting" /\ pc["guard"] = "ok"
  /\ guard' = "active"
  /\ phase' = "holding"
  /\ Go("guard", "off")
  /\ touch' = "mask" /\ UNCHANGED touchState
  /\ hookStays /\ UNCHANGED sleep

\* ExecStopPost runs; the sleep that required the guard is off.
GuardFails ==
  /\ guard = "starting" /\ pc["guard"] = "failed"
  /\ guard' = "stopping"
  /\ Go("guard", "find")
  /\ sleep' = "none" /\ phase' = "off"
  /\ hookStays /\ touchStays

MutantTouchHeld ==
  /\ phase = "holding" /\ touch \in {"ok", "failed"}
  /\ IF touch = "ok"
       THEN phase' = "pre" /\ Go("hook", FirstStep("pre", TRUE)) /\ touch' = "off"
       ELSE phase' = "releasing" /\ UNCHANGED <<pc, touch>>
  /\ hookStays /\ UNCHANGED <<sleep, guard, touchState>>

\* ExecStartPre; ExecStopPost follows its failure too.
TouchHeld ==
  /\ phase = "holding" /\ touch \in {"ok", "failed"}
  /\ IF touch = "ok"
       THEN phase' = "pre" /\ Go("hook", FirstStep("pre", TRUE)) /\ touch' = "off"
       ELSE phase' = "releasing" /\ UNCHANGED pc /\ touch' = "unmask"
  /\ hookStays /\ UNCHANGED <<sleep, guard, touchState>>

MutantServiceEnds ==
  /\ phase = "releasing" /\ touch \in {"ok", "failed"}
  /\ sleep' = "none" /\ phase' = "off"
  /\ touch' = "off" /\ recorded' = "none" /\ UNCHANGED <<mask, masked, daemon, stranded>>
  /\ IF touch = "ok" THEN guard' = "stopping" /\ Go("guard", "find") ELSE UNCHANGED <<guard, pc>>
  /\ hookStays

\* RuntimeDirectory= goes with the service, and StopWhenUnneeded= stops the
\* guard.
ServiceEnds ==
  /\ phase = "releasing" /\ touch \in {"ok", "failed"}
  /\ sleep' = "none" /\ phase' = "off"
  /\ touch' = "off" /\ recorded' = "none" /\ UNCHANGED <<mask, masked, daemon, stranded>>
  /\ guard' = "stopping" /\ Go("guard", "find")
  /\ hookStays

GuardStops ==
  /\ guard = "stopping" /\ Returned("guard")
  /\ guard' = "inactive"
  /\ Go("guard", "off")
  /\ hookStays /\ touchStays /\ UNCHANGED <<sleep, phase>>

-----------------------------------------------------------------------------
(***************************************************************************)
(* Around the services.                                                    *)
(***************************************************************************)

WifiScript(script) ==
  /\ ScriptStep(script) \/ Killed(script)
  /\ touchStays /\ UNCHANGED unitVars

TouchScript == TouchStep /\ wifiStays /\ UNCHANGED unitVars

\* Not while the machine is down.
DaemonStarts == phase # "asleep" /\ Udev /\ wifiStays /\ UNCHANGED unitVars

\* The mask may be replaced while a staged sleep is under way, but not while
\* the touch guard runs.
Administrator ==
  /\ ~calm
  /\ touch = "off" /\ phase # "asleep"
  /\ \/ mask' = "administrator" /\ masked' = TRUE
     \/ sleep = "none" /\ mask' = "none" /\ masked' = FALSE
  /\ UNCHANGED <<recorded, daemon, touch, stranded>>
  /\ wifiStays /\ UNCHANGED unitVars

\* /run is empty then, and the driver is loaded if the device is there.
ColdBoot ==
  /\ ~calm
  /\ module' \in BOOLEAN
  /\ marker' = FALSE /\ held' = FALSE
  /\ pc' = [script \in Scripts |-> "off"]
  /\ attempt' = [script \in Scripts |-> 1]
  /\ mask' = "none" /\ masked' = FALSE /\ recorded' = "none"
  /\ daemon' \in BOOLEAN
  /\ touch' = "off" /\ stranded' = FALSE
  /\ sleep' = "none" /\ phase' = "off" /\ guard' = "inactive"
  /\ UNCHANGED calm

Calm ==
  /\ ~calm
  /\ calm' = TRUE
  /\ UNCHANGED <<wifiVars, touchVars, unitVars>>

Sleeping == Suspend \/ FallsAsleep \/ WakesUp \/ HookDone \/ StageSleep
Guarding == GuardStarts \/ GuardHolds \/ GuardFails \/ TouchHeld \/ ServiceEnds \/ GuardStops

Next ==
  \/ Sleeping \/ Guarding
  \/ \E script \in Scripts : WifiScript(script)
  \/ TouchScript \/ DaemonStarts
  \/ Administrator \/ ColdBoot \/ Calm

\* Scripts run on, and systemd runs what follows; nobody need wake the
\* machine.
Fairness ==
  /\ WF_vars(FallsAsleep) /\ WF_vars(HookDone)
  /\ WF_vars(Guarding)
  /\ \A script \in Scripts : WF_vars(WifiScript(script))
  /\ WF_vars(TouchScript)

Spec == Init /\ [][Next]_vars
FairSpec == Spec /\ Fairness

-----------------------------------------------------------------------------
\* What the hook takes away it answers for: through failures, kills and any
\* sequence of sleeps of which no ordinary one begins while the guard restores,
\* the driver is loaded or its restoration is on record exactly if that was so
\* before, until the machine boots (sleep-hook's marker, touched before the
\* driver is removed and removed after it is loaded).
DriverAccountedFor ==
  [][ColdBoot \/ ((module \/ marker)' <=> (module \/ marker))]_vars

\* What the workarounds take away for a staged sleep stays away: the driver
\* from the sleep's start to its end, however often the machine goes down and
\* wakes; the touch daemon whenever the machine is down, although udev starts it
\* at every chance (sleep-hook, pre and post; hibermachy-iptsd-guard, hold).
\* An administrator may mask the unit himself meanwhile, but not unmask it.
KeptAway ==
  /\ guard = "active" => ~module
  /\ sleep = "staged" /\ phase = "asleep" => ~daemon

DriverBack == guard = "inactive" /\ ~marker /\ ~held

\* A staged sleep after which nothing fails any more leaves no record: with
\* DriverAccountedFor, the driver is as it was found, whatever became of the
\* touch guard after the sleep or, before it, instead of the sleep, and of
\* earlier restorations (the guard unit's ExecStopPost).
WifiReturns ==
  /\ calm /\ sleep = "staged" /\ phase = "post" ~> DriverBack
  /\ calm /\ sleep = "staged" /\ phase = "holding" ~> DriverBack \/ phase = "asleep"

\* No staged sleep goes on under a mask of the touch guard's that is not on
\* record, and once it is over, the mask is gone, whichever commands of hold and
\* restore failed, or had their effect and failed, and whoever replaced it: with
\* two exceptions.  A mask whose record was not written (line 57), or a restore
\* that was killed before it removed the mask (21), leaves it; it then keeps the
\* daemon off and every later staged sleep from starting, until the machine
\* boots or an administrator removes it (hibermachy-iptsd-guard).
MaskGoesWithService ==
  /\ sleep = "staged" /\ phase \in {"pre", "asleep", "post"} /\ mask = "guard" => recorded = "guard"
  /\ sleep # "staged" /\ mask = "guard" => stranded
=============================================================================
