-------------------------- MODULE SleepUnits_proofs --------------------------
(***************************************************************************)
(* What is proved of the hardware workarounds around systemd's sleep       *)
(* services: types, what stays away during a staged sleep, which masks of  *)
(* the touch guard's may outlive it, and that the Wi-Fi driver is never    *)
(* lost from the record.                                                   *)
(***************************************************************************)
EXTENDS SleepUnits, TLAPS

(***************************************************************************)
(* Who runs when.  Everything else rests on it.                            *)
(***************************************************************************)

\* The service, the guard unit and the touch script keep step.
PhaseInv ==
  /\ sleep = "none" <=> phase = "off"
  /\ sleep = "ordinary" => phase \in {"pre", "asleep", "post"}
  /\ guard = "active" <=> phase \in {"holding", "releasing"}
                            \/ (sleep = "staged" /\ phase \in {"pre", "asleep", "post"})
  /\ guard = "starting" => phase = "required"
  /\ phase = "holding" => touch \in {"mask", "record", "reload", "stop", "ok", "failed"}
  /\ phase = "releasing" => touch \in {"unmask", "unblock", "start", "ok", "failed"}
  /\ phase \notin {"holding", "releasing"} => touch = "off"

\* Which steps the two runs of the Wi-Fi script can be at: the hook runs only
\* around the machine's sleep, and has nothing to do in a staged one.
ScriptInv ==
  /\ guard \in {"inactive", "active"} => pc["guard"] = "off"
  /\ guard = "starting" => pc["guard"] \in {"hold", "mark", "unload", "ok", "failed"}
  /\ guard = "stopping" => pc["guard"] \in Steps \cup {"ok", "failed"}
  /\ phase \notin {"pre", "post"} => pc["hook"] = "off"
  /\ guard = "active" => pc["hook"] \in {"off", "ok"}

\* The guard has said that it holds, and the driver is away.
HeldInv ==
  /\ guard = "active" => held /\ ~module
  /\ guard = "starting" /\ pc["guard"] \in {"mark", "unload", "ok"} => held
  /\ guard = "starting" /\ pc["guard"] = "ok" => ~module

\* The daemon is gone and cannot come back.
DaemonInv ==
  /\ phase = "holding" /\ touch \in {"record", "reload"} => mask # "none"
  /\ phase = "holding" /\ touch \in {"stop", "ok"} => masked
  /\ phase = "holding" /\ touch = "ok" => ~daemon
  /\ sleep = "staged" /\ phase \in {"pre", "asleep", "post"} => masked /\ ~daemon

\* A mask of the guard's is on record until it is taken back, unless it was
\* stranded; and hold goes on only with a record of it.
MaskInv ==
  /\ sleep # "staged" \/ phase = "required" => recorded = "none"
  /\ mask = "guard" /\ ~stranded =>
       /\ (phase = "holding" /\ touch # "mask") \/ (phase = "releasing" /\ touch = "unmask")
            \/ (sleep = "staged" /\ phase \in {"pre", "asleep", "post"})
       /\ recorded = "guard" \/ (phase = "holding" /\ touch = "record")
  /\ mask = "guard" /\ phase = "holding" /\ touch \in {"reload", "stop", "ok"} => recorded = "guard"
  /\ mask = "guard" /\ sleep = "staged" /\ phase \in {"pre", "asleep", "post"} => recorded = "guard"

\* One run of the script at a time, and nothing is taken away that is not on
\* record.
AloneInv ==
  /\ sleep = "ordinary" => guard = "inactive"
  /\ \A script \in Scripts :
       /\ pc[script] \in {"unload", "try", "load"} => marker
       /\ pc[script] = "clear" => module

-----------------------------------------------------------------------------
(***************************************************************************)
(* Types.                                                                  *)
(***************************************************************************)

\* What a script that is killed has asked of the driver may still happen.
LEMMA KilledEffect ==
  ASSUME NEW script \in Scripts, Killed(script)
  PROVE  \/ module' = module
         \/ pc[script] \in {"unload", "try"} /\ module' = FALSE
         \/ pc[script] = "load" /\ module' = TRUE
<1>1. CASE pc[script] \in {"unload", "try"}
  BY <1>1, Zenon DEF Killed
<1>2. CASE pc[script] = "load"
  <2>1. pc[script] \notin {"unload", "try"}
    BY <1>2
  <2> QED
    BY <1>2, <2>1, Zenon DEF Killed
<1>3. CASE pc[script] \notin {"unload", "try", "load"}
  <2>1. pc[script] \notin {"unload", "try"} /\ pc[script] # "load"
    BY <1>3
  <2> QED
    BY <2>1, Zenon DEF Killed
<1> QED
  BY <1>1, <1>2, <1>3

\* A step of the Wi-Fi script leaves its variables well typed.
LEMMA ScriptTypeOK ==
  ASSUME WifiTypeOK, NEW script \in Scripts, ScriptStep(script) \/ Killed(script)
  PROVE  WifiTypeOK'
<1> USE DEF WifiTypeOK, At, Go, Fail, records, Steps
<1>1. CASE Mark(script) \/ Unload(script) \/ Clear(script)
  BY <1>1 DEF Mark, Unload, Clear, Restored
<1>2. CASE Find(script)
  <2>1. attempt' \in [Scripts -> 1..3]
    BY <1>2 DEF Find
  <2> QED
    BY <1>2, <2>1 DEF Find, Restored
<1>3. ASSUME Again(script)
      PROVE  pc' \in [Scripts -> Steps \cup {"off", "ok", "failed"}] /\ attempt' \in [Scripts -> 1..3]
  BY <1>3 DEF Again
<1>4. CASE Try(script)
  BY <1>3, <1>4 DEF Try
<1>5. CASE Load(script)
  BY <1>3, <1>5 DEF Load
<1>6. CASE script = "guard" /\ (Hold \/ Release)
  BY <1>6 DEF Hold, Release
<1>7. CASE Killed(script)
  <2>1. module' \in BOOLEAN
    BY <1>7, KilledEffect
  <2>2. pc' \in [Scripts -> Steps \cup {"off", "ok", "failed"}]
    <3>1. Fail(script)
      BY <1>7, Zenon DEF Killed
    <3> QED
      BY <3>1
  <2>3. UNCHANGED <<marker, held, attempt, calm>>
    BY <1>7, Zenon DEF Killed
  <2> QED
    BY <2>1, <2>2, <2>3
<1> QED
  BY <1>1, <1>2, <1>4, <1>5, <1>6, <1>7 DEF ScriptStep

\* So does one of the touch script.
LEMMA TouchTypes ==
  ASSUME TouchTypeOK, TouchStep
  PROVE  TouchTypeOK'
BY DEF TouchTypeOK, Owners, TouchStep, Mask, Record, Reload, Stop, Unmask, Unblock, Start

\* The first step of the hook, or none.
LEMMA FirstStepType ==
  /\ \A staged \in BOOLEAN : FirstStep("pre", staged) \in {"mark", "ok"}
  /\ \A staged \in BOOLEAN : FirstStep("post", staged) \in {"find", "ok"}
  /\ \A when \in {"pre", "post"} : held => FirstStep(when, TRUE) = "ok"
BY DEF FirstStep

\* A run of the script goes on, and the other stays where it is.
LEMMA GoesOn ==
  ASSUME WifiTypeOK,
         NEW script \in Scripts, NEW step \in Steps \cup {"off", "ok", "failed"},
         Go(script, step)
  PROVE  /\ pc' \in [Scripts -> Steps \cup {"off", "ok", "failed"}]
         /\ pc'[script] = step
         /\ \A other \in Scripts \ {script} : pc'[other] = pc[other]
BY DEF WifiTypeOK, Go

\* What a service asks of its scripts: the hook goes to a step, or the guard
\* does, or neither.
ServiceStep ==
  /\ hookStays
  /\ pc' \in [Scripts -> Steps \cup {"off", "ok", "failed"}]
  /\ \/ pc' = pc
     \/ pc'["guard"] = pc["guard"] /\ pc'["hook"] \in {"mark", "find", "ok", "off"}
     \/ pc'["hook"] = pc["hook"] /\ pc'["guard"] \in {"hold", "find", "off"}

\* The services that sleep start and end the hook.
LEMMA SleepingScripts ==
  ASSUME TypeOK, Sleeping
  PROVE  ServiceStep
<1> USE DEF ServiceStep, Scripts, Steps
<1>1. WifiTypeOK /\ "hook" \in Scripts /\ (sleep = "staged") \in BOOLEAN
  BY DEF TypeOK
<1>2. ASSUME NEW step \in {"mark", "find", "ok", "off"}, Go("hook", step), hookStays
      PROVE  ServiceStep
  BY <1>1, <1>2, GoesOn
<1>3. CASE Suspend \/ WakesUp
  <2>1. \A staged \in BOOLEAN : FirstStep("pre", staged) \in {"mark", "ok"}
                                /\ FirstStep("post", staged) \in {"find", "ok"}
    BY FirstStepType
  <2>2. CASE Suspend
    <3>1. Go("hook", FirstStep("pre", FALSE)) /\ hookStays
      BY <2>2 DEF Suspend
    <3> QED
      BY <1>2, <2>1, <3>1
  <2>3. CASE WakesUp
    <3>1. Go("hook", FirstStep("post", sleep = "staged")) /\ hookStays
      BY <2>3 DEF WakesUp
    <3> QED
      BY <1>1, <1>2, <2>1, <3>1
  <2> QED
    BY <1>3, <2>2, <2>3
<1>4. CASE FallsAsleep
  BY <1>2, <1>4 DEF FallsAsleep
<1>5. CASE HookDone
  BY <1>2, <1>5, FirstStepType DEF HookDone
<1>6. CASE StageSleep
  BY <1>1, <1>6 DEF StageSleep, wifiStays, WifiTypeOK
<1> QED
  BY <1>3, <1>4, <1>5, <1>6 DEF Sleeping

\* The guard unit starts and ends its script, and lets the hook begin.
LEMMA GuardingScripts ==
  ASSUME TypeOK, Guarding
  PROVE  ServiceStep
<1> USE DEF ServiceStep, Scripts, Steps
<1>1. WifiTypeOK /\ "hook" \in Scripts /\ "guard" \in Scripts
  BY DEF TypeOK
<1>2. ASSUME NEW step \in {"hold", "find", "off"}, Go("guard", step), hookStays
      PROVE  ServiceStep
  BY <1>1, <1>2, GoesOn
<1>3. CASE GuardStarts \/ GuardHolds \/ GuardFails
  BY <1>2, <1>3 DEF GuardStarts, GuardHolds, GuardFails
<1>4. CASE TouchHeld
  <2>1. CASE touch = "ok"
    <3>1. Go("hook", FirstStep("pre", TRUE)) /\ hookStays
      BY <1>4, <2>1 DEF TouchHeld
    <3>2. FirstStep("pre", TRUE) \in {"mark", "ok"}
      BY FirstStepType
    <3> QED
      BY <1>1, <3>1, <3>2, GoesOn
  <2>2. CASE touch # "ok"
    BY <1>1, <1>4, <2>2 DEF TouchHeld, WifiTypeOK
  <2> QED
    BY <2>1, <2>2
<1>5. CASE ServiceEnds \/ GuardStops
  BY <1>2, <1>5 DEF ServiceEnds, GuardStops
<1> QED
  BY <1>3, <1>4, <1>5 DEF Guarding

\* A well-typed state keeps its types when only the services move.
LEMMA ServiceTypeOK ==
  ASSUME TypeOK, ServiceStep, TouchTypeOK', phase' \in Phases,
         sleep' \in {"none", "ordinary", "staged"},
         guard' \in {"inactive", "starting", "active", "stopping"}
  PROVE  TypeOK'
BY DEF TypeOK, WifiTypeOK, ServiceStep, hookStays, records

\* Before the first sleep nothing runs.
LEMMA InitTypeOK == Init => TypeOK
<1> SUFFICES ASSUME Init PROVE TypeOK
  OBVIOUS
<1>1. /\ pc \in [Scripts -> Steps \cup {"off", "ok", "failed"}]
      /\ attempt \in [Scripts -> 1..3]
  BY DEF Init
<1> QED
  BY <1>1 DEF Init, TypeOK, WifiTypeOK, TouchTypeOK, Owners, Phases

\* TypeOK is inductive.
LEMMA NextTypeOK ==
  ASSUME TypeOK, [Next]_vars
  PROVE  TypeOK'
<1> USE DEF TypeOK
<1>1. CASE Sleeping
  <2>1. TouchTypeOK'
    BY <1>1
    DEF Sleeping, Suspend, FallsAsleep, WakesUp, HookDone, StageSleep, touchStays, touchVars,
        touchState, TouchTypeOK
  <2>2. /\ phase' \in Phases /\ sleep' \in {"none", "ordinary", "staged"}
        /\ guard' = guard
    BY <1>1
    DEF Sleeping, Suspend, FallsAsleep, WakesUp, HookDone, StageSleep, Phases
  <2> QED
    BY <1>1, <2>1, <2>2, SleepingScripts, ServiceTypeOK
<1>2. CASE Guarding
  <2>1. TouchTypeOK'
    BY <1>2
    DEF Guarding, GuardStarts, GuardHolds, GuardFails, TouchHeld, ServiceEnds, GuardStops,
        touchStays, touchVars, touchState, TouchTypeOK, Owners
  <2>2. /\ phase' \in Phases /\ sleep' \in {"none", "ordinary", "staged"}
        /\ guard' \in {"inactive", "starting", "active", "stopping"}
    BY <1>2
    DEF Guarding, GuardStarts, GuardHolds, GuardFails, TouchHeld, ServiceEnds, GuardStops, Phases
  <2> QED
    BY <1>2, <2>1, <2>2, GuardingScripts, ServiceTypeOK
<1>3. ASSUME NEW script \in Scripts, WifiScript(script)
      PROVE  TypeOK'
  BY <1>3, ScriptTypeOK DEF WifiScript, touchStays, touchVars, touchState, unitVars, TouchTypeOK
<1>4. CASE TouchScript
  BY <1>4, TouchTypes DEF TouchScript, wifiStays, hookStays, records, unitVars, WifiTypeOK
<1>5. CASE DaemonStarts
  BY <1>5
  DEF DaemonStarts, Udev, wifiStays, hookStays, records, unitVars, WifiTypeOK, TouchTypeOK
<1>6. CASE Administrator
  BY <1>6
  DEF Administrator, wifiStays, hookStays, records, unitVars, WifiTypeOK, TouchTypeOK, Owners
<1>7. CASE ColdBoot
  <2>1. /\ pc' \in [Scripts -> Steps \cup {"off", "ok", "failed"}]
        /\ attempt' \in [Scripts -> 1..3]
    BY <1>7 DEF ColdBoot
  <2>2. WifiTypeOK'
    BY <1>7, <2>1 DEF ColdBoot, WifiTypeOK
  <2>3. TouchTypeOK'
    BY <1>7 DEF ColdBoot, TouchTypeOK, Owners
  <2> QED
    BY <1>7, <2>2, <2>3 DEF ColdBoot, Phases
<1>8. CASE Calm
  BY <1>8 DEF Calm, wifiVars, touchVars, touchState, unitVars, records, WifiTypeOK, TouchTypeOK
<1>9. CASE UNCHANGED vars
  BY <1>9 DEF vars, wifiVars, touchVars, touchState, unitVars, records, WifiTypeOK, TouchTypeOK
<1> QED
  BY <1>1, <1>2, <1>3, <1>4, <1>5, <1>6, <1>7, <1>8, <1>9 DEF Next

\* Whatever systemd starts and whatever fails, the types are right.
THEOREM UnitsTypeCorrect == Spec => []TypeOK
<1>1. Init => TypeOK
  BY InitTypeOK
<1>2. TypeOK /\ [Next]_vars => TypeOK'
  BY NextTypeOK
<1> QED
  BY <1>1, <1>2, PTL DEF Spec

-----------------------------------------------------------------------------
(***************************************************************************)
(* Who runs when.                                                          *)
(***************************************************************************)

\* PhaseInv is inductive.
LEMMA NextPhaseInv ==
  ASSUME TypeOK, PhaseInv, [Next]_vars
  PROVE  PhaseInv'
<1> USE DEF PhaseInv, TypeOK
<1>1. CASE UNCHANGED <<unitVars, touch>>
  BY <1>1 DEF unitVars
<1>2. CASE Sleeping
  <2>1. CASE Suspend \/ FallsAsleep \/ WakesUp \/ StageSleep
    BY <2>1 DEF Suspend, FallsAsleep, WakesUp, StageSleep, touchStays, touchVars, touchState
  <2>2. CASE HookDone
    BY <2>2 DEF HookDone, touchStays, touchVars, touchState
  <2> QED
    BY <1>2, <2>1, <2>2 DEF Sleeping
<1>3. CASE Guarding
  BY <1>3
  DEF Guarding, GuardStarts, GuardHolds, GuardFails, TouchHeld, ServiceEnds, GuardStops, touchStays,
      touchVars, touchState
<1>4. CASE TouchScript
  BY <1>4
  DEF TouchScript, TouchStep, Mask, Record, Reload, Stop, Unmask, Unblock, Start, unitVars
<1>5. CASE ColdBoot
  BY <1>5 DEF ColdBoot
<1> QED
  BY <1>1, <1>2, <1>3, <1>4, <1>5
  DEF Next, WifiScript, DaemonStarts, Udev, Administrator, Calm, vars, touchStays, touchVars,
      touchState

\* A step of a running script leads to another, or to its end.
LEMMA ScriptSteps ==
  ASSUME WifiTypeOK, NEW script \in Scripts, ScriptStep(script) \/ Killed(script)
  PROVE  /\ \A other \in Scripts \ {script} : pc'[other] = pc[other]
         /\ pc[script] \in Steps
         /\ pc'[script] \in Steps \cup {"ok", "failed"}
         /\ pc[script] = "hold" => pc'[script] \in {"mark", "failed"}
         /\ pc[script] = "mark" => pc'[script] \in {"unload", "ok", "failed"}
         /\ pc[script] = "unload" => pc'[script] \in {"ok", "failed"}
<1> USE DEF WifiTypeOK, Steps, At, Go, Fail
<1>1. CASE Mark(script) \/ Unload(script) \/ Clear(script) \/ Find(script)
  BY <1>1 DEF Mark, Unload, Clear, Find, Restored
<1>2. ASSUME Again(script)
      PROVE  pc' = [pc EXCEPT ![script] = "failed"] \/ pc' = [pc EXCEPT ![script] = "try"]
  BY <1>2 DEF Again
<1>3. CASE Try(script)
  BY <1>2, <1>3 DEF Try
<1>4. CASE Load(script)
  BY <1>2, <1>4 DEF Load
<1>5. CASE script = "guard" /\ (Hold \/ Release)
  BY <1>5 DEF Hold, Release
<1>6. CASE Killed(script)
  <2>1. Fail(script) /\ pc[script] \in Steps
    BY <1>6, Zenon DEF Killed
  <2> QED
    BY <2>1
<1> QED
  BY <1>1, <1>3, <1>4, <1>5, <1>6 DEF ScriptStep

\* ScriptInv is inductive.
LEMMA NextScriptInv ==
  ASSUME TypeOK, PhaseInv, ScriptInv, HeldInv, [Next]_vars
  PROVE  ScriptInv'
<1> USE DEF ScriptInv
<1>1. WifiTypeOK
  BY DEF TypeOK
<1>2. CASE UNCHANGED <<unitVars, pc>>
  BY <1>2 DEF unitVars
<1>3. CASE Sleeping
  <2>1. CASE Suspend
    <3>1. pc'["guard"] = pc["guard"]
      BY <1>1, <2>1, GoesOn, FirstStepType DEF Suspend, Scripts, Steps
    <3> QED
      BY <2>1, <3>1 DEF Suspend, PhaseInv
  <2>2. CASE FallsAsleep
    BY <1>1, <2>2, GoesOn DEF FallsAsleep, PhaseInv, Scripts
  <2>3. CASE WakesUp
    <3> DEFINE step == FirstStep("post", sleep = "staged")
    <3>1. step \in {"find", "ok"} /\ (sleep = "staged" /\ held => step = "ok")
      BY DEF FirstStep
    <3>2. pc'["guard"] = pc["guard"] /\ pc'["hook"] = step
      <4>1. Go("hook", step)
        BY <2>3 DEF WakesUp
      <4> HIDE DEF step
      <4> QED
        BY <1>1, <3>1, <4>1, GoesOn DEF Scripts, Steps
    <3> QED
      BY <2>3, <3>1, <3>2 DEF WakesUp, PhaseInv, HeldInv
  <2>4. CASE HookDone
    <3>1. CASE phase' = "pre"
      <4>1. Go("hook", FirstStep("pre", TRUE)) /\ sleep = "staged"
        BY <2>4, <3>1 DEF HookDone, PhaseInv, TypeOK
      <4>2. held /\ FirstStep("pre", TRUE) = "ok"
        BY <2>4, <4>1 DEF HookDone, PhaseInv, HeldInv, FirstStep
      <4>3. pc'["guard"] = pc["guard"] /\ pc'["hook"] = "ok"
        BY <1>1, <4>1, <4>2, GoesOn DEF Scripts, Steps
      <4> QED
        BY <2>4, <3>1, <4>3 DEF HookDone
    <3>2. CASE phase' # "pre"
      <4>1. Go("hook", "off")
        BY <2>4, <3>2 DEF HookDone
      <4>2. pc'["guard"] = pc["guard"] /\ pc'["hook"] = "off"
        BY <1>1, <4>1, GoesOn DEF Scripts, Steps
      <4> QED
        BY <2>4, <4>2 DEF HookDone
    <3> QED
      BY <3>1, <3>2
  <2>5. CASE StageSleep
    BY <2>5 DEF StageSleep, wifiStays, PhaseInv
  <2> QED
    BY <1>3, <2>1, <2>2, <2>3, <2>4, <2>5 DEF Sleeping
<1>4. CASE Guarding
  <2>1. ASSUME NEW step \in {"hold", "find", "off"}, Go("guard", step)
        PROVE  pc'["guard"] = step /\ pc'["hook"] = pc["hook"]
    BY <1>1, <2>1, GoesOn DEF Scripts, Steps
  <2>2. CASE GuardStarts \/ GuardHolds \/ GuardFails \/ ServiceEnds \/ GuardStops
    BY <2>1, <2>2
    DEF GuardStarts, GuardHolds, GuardFails, ServiceEnds, GuardStops, PhaseInv, Steps
  <2>3. CASE TouchHeld
    <3>1. CASE touch = "ok"
      <4>1. held /\ FirstStep("pre", TRUE) = "ok"
        BY <2>3 DEF TouchHeld, PhaseInv, HeldInv, FirstStep
      <4>2. pc'["guard"] = pc["guard"] /\ pc'["hook"] = "ok"
        BY <1>1, <2>3, <3>1, <4>1, GoesOn DEF TouchHeld, Scripts, Steps
      <4> QED
        BY <2>3, <3>1, <4>2 DEF TouchHeld
    <3>2. CASE touch # "ok"
      BY <2>3, <3>2 DEF TouchHeld
    <3> QED
      BY <3>1, <3>2
  <2> QED
    BY <1>4, <2>2, <2>3 DEF Guarding
<1>5. ASSUME NEW script \in Scripts, WifiScript(script)
      PROVE  ScriptInv'
  <2>1. UNCHANGED unitVars
    BY <1>5 DEF WifiScript
  <2>2. /\ \A other \in Scripts \ {script} : pc'[other] = pc[other]
        /\ pc[script] \in Steps
        /\ pc'[script] \in Steps \cup {"ok", "failed"}
        /\ pc[script] = "hold" => pc'[script] \in {"mark", "failed"}
        /\ pc[script] = "mark" => pc'[script] \in {"unload", "ok", "failed"}
        /\ pc[script] = "unload" => pc'[script] \in {"ok", "failed"}
    BY <1>1, <1>5, ScriptSteps DEF WifiScript
  <2> QED
    BY <2>1, <2>2 DEF unitVars, Scripts, Steps
<1>6. CASE ColdBoot
  BY <1>6 DEF ColdBoot, Scripts
<1> QED
  BY <1>2, <1>3, <1>4, <1>5, <1>6
  DEF Next, TouchScript, DaemonStarts, Administrator, Calm, vars, wifiStays, wifiVars

-----------------------------------------------------------------------------
(***************************************************************************)
(* What stays away.                                                        *)
(***************************************************************************)

\* What a step of the script needs, and does, to the driver and its records.
LEMMA ScriptEffects ==
  ASSUME WifiTypeOK, NEW script \in Scripts, ScriptStep(script) \/ Killed(script)
  PROVE  /\ pc[script] \in {"hold", "mark", "find", "clear", "release"} => module' = module
         /\ pc[script] \in {"unload", "try"} => (module' => module)
         /\ pc[script] = "load" => (module => module')
         /\ pc[script] = "unload" /\ pc'[script] = "ok" => ~module'
         /\ pc[script] = "load" /\ pc'[script] = "clear" => module'
         /\ pc[script] # "release" => (held => held')
         /\ pc[script] = "hold" /\ pc'[script] = "mark" => held'
         /\ pc[script] \notin {"mark", "clear"} => marker' = marker
         /\ pc[script] = "mark" =>
               /\ marker => marker'
               /\ marker' => module \/ marker
               /\ pc'[script] = "ok" => ~module
               /\ pc'[script] = "unload" => marker'
         /\ pc[script] = "clear" => (marker' => marker)
         /\ pc[script] = "find" /\ pc'[script] = "try" => marker
         /\ pc'[script] = "try" => pc[script] \in {"find", "try", "load"}
         /\ pc'[script] = "load" => pc[script] = "try"
         /\ pc'[script] = "clear" => pc[script] = "load"
         /\ pc'[script] = "unload" => pc[script] = "mark"
<1> USE DEF WifiTypeOK, Steps, At, Go, Fail, records
<1>1. CASE Mark(script) \/ Unload(script)
  BY <1>1 DEF Mark, Unload
<1>2. CASE Clear(script) \/ Find(script)
  BY <1>2 DEF Clear, Find, Restored
<1>3. ASSUME Again(script)
      PROVE  pc' = [pc EXCEPT ![script] = "failed"] \/ pc' = [pc EXCEPT ![script] = "try"]
  BY <1>3 DEF Again
<1>4. CASE Try(script)
  BY <1>3, <1>4 DEF Try
<1>5. CASE Load(script)
  BY <1>3, <1>5 DEF Load
<1>6. CASE script = "guard" /\ (Hold \/ Release)
  BY <1>6 DEF Hold, Release
<1>7. CASE Killed(script)
  <2>1. Fail(script) /\ pc[script] \in Steps /\ UNCHANGED <<marker, held>>
    BY <1>7, Zenon DEF Killed, records
  <2>2. pc'[script] = "failed"
    BY <2>1
  <2> QED
    BY <1>7, <2>1, <2>2, KilledEffect
<1> QED
  BY <1>1, <1>2, <1>4, <1>5, <1>6, <1>7 DEF ScriptStep

\* HeldInv is inductive: while the guard holds, or starts to, no script lets
\* go of the driver or brings it back.
LEMMA NextHeldInv ==
  ASSUME TypeOK, PhaseInv, ScriptInv, HeldInv, [Next]_vars
  PROVE  HeldInv'
<1> USE DEF HeldInv
<1>1. WifiTypeOK
  BY DEF TypeOK
<1>2. CASE UNCHANGED <<held, module, guard>> /\ (guard # "starting" \/ pc' = pc)
  BY <1>2
<1>3. CASE Sleeping
  <2>1. UNCHANGED <<held, module, guard>>
    BY <1>3
    DEF Sleeping, Suspend, FallsAsleep, WakesUp, HookDone, StageSleep, wifiStays, hookStays, records
  <2>2. guard = "starting" => pc' = pc
    BY <1>3
    DEF Sleeping, Suspend, FallsAsleep, WakesUp, HookDone, StageSleep, wifiStays, PhaseInv
  <2> QED
    BY <1>2, <2>1, <2>2
<1>4. CASE Guarding
  <2>1. UNCHANGED <<held, module>>
    BY <1>4
    DEF Guarding, GuardStarts, GuardHolds, GuardFails, TouchHeld, ServiceEnds, GuardStops,
        hookStays, records
  <2>2. CASE GuardStarts
    <3>1. pc'["guard"] = "hold"
      BY <1>1, <2>2, GoesOn DEF GuardStarts, Scripts, Steps
    <3> QED
      BY <2>2, <3>1 DEF GuardStarts
  <2>3. CASE GuardHolds
    BY <2>1, <2>3 DEF GuardHolds
  <2>4. CASE GuardFails \/ ServiceEnds \/ GuardStops
    BY <2>4 DEF GuardFails, ServiceEnds, GuardStops
  <2>5. CASE TouchHeld
    BY <2>1, <2>5 DEF TouchHeld, PhaseInv
  <2> QED
    BY <1>4, <2>2, <2>3, <2>4, <2>5 DEF Guarding
<1>5. ASSUME NEW script \in Scripts, WifiScript(script)
      PROVE  HeldInv'
  <2>1. UNCHANGED unitVars /\ (ScriptStep(script) \/ Killed(script))
    BY <1>5 DEF WifiScript
  <2>2. pc[script] \in Steps
    BY <1>1, <2>1, ScriptSteps
  <2>3. guard # "active"
    BY <2>2 DEF ScriptInv, Scripts, Steps
  <2>4. CASE guard = "starting"
    <3>1. script = "guard"
      BY <2>2, <2>4 DEF ScriptInv, PhaseInv, Scripts, Steps
    <3>2. pc["guard"] \in {"hold", "mark", "unload"}
      BY <2>2, <2>4, <3>1 DEF ScriptInv, Steps
    <3>3. /\ pc["guard"] = "hold" => pc'["guard"] \in {"mark", "failed"}
          /\ pc'["guard"] = "mark" => held'
          /\ held => held'
          /\ pc["guard"] = "mark" /\ pc'["guard"] = "ok" => ~module'
          /\ pc["guard"] = "unload" /\ pc'["guard"] = "ok" => ~module'
          /\ pc["guard"] = "mark" => pc'["guard"] \in {"unload", "ok", "failed"}
          /\ pc["guard"] = "unload" => pc'["guard"] \in {"ok", "failed"}
      BY <1>1, <2>1, <3>1, <3>2, ScriptSteps, ScriptEffects
    <3> QED
      BY <2>1, <2>4, <3>2, <3>3 DEF unitVars
  <2>5. CASE guard # "starting"
    BY <2>1, <2>3, <2>5 DEF unitVars
  <2> QED
    BY <2>4, <2>5
<1>6. CASE ColdBoot
  BY <1>6 DEF ColdBoot
<1> QED
  BY <1>2, <1>3, <1>4, <1>5, <1>6
  DEF Next, TouchScript, DaemonStarts, Administrator, Calm, vars, wifiStays, hookStays, wifiVars,
      unitVars, records

\* DaemonInv is inductive: udev finds the unit masked, and only the end of the
\* service takes the mask away.
LEMMA NextDaemonInv ==
  ASSUME TypeOK, PhaseInv, DaemonInv, [Next]_vars
  PROVE  DaemonInv'
<1> USE DEF DaemonInv
<1>1. CASE UNCHANGED <<unitVars, touchVars>>
  BY <1>1 DEF unitVars, touchVars, touchState
<1>2. CASE Sleeping
  BY <1>2
  DEF Sleeping, Suspend, FallsAsleep, WakesUp, HookDone, StageSleep, touchStays, touchVars,
      touchState, PhaseInv
<1>3. CASE Guarding
  <2>1. CASE GuardStarts \/ GuardFails \/ ServiceEnds \/ GuardStops
    BY <2>1 DEF GuardStarts, GuardFails, ServiceEnds, GuardStops, touchStays, touchVars, touchState, PhaseInv
  <2>2. CASE GuardHolds
    BY <2>2 DEF GuardHolds
  <2>3. CASE TouchHeld
    BY <2>3 DEF TouchHeld, touchState
  <2> QED
    BY <1>3, <2>1, <2>2, <2>3 DEF Guarding
<1>4. CASE TouchScript
  <2>1. UNCHANGED unitVars /\ phase \in {"holding", "releasing"}
    BY <1>4
    DEF TouchScript, TouchStep, Mask, Record, Reload, Stop, Unmask, Unblock, Start, PhaseInv, TypeOK
  <2>2. CASE Mask \/ Record
    BY <2>1, <2>2 DEF Mask, Record, unitVars
  <2>3. CASE Reload
    <3>1. masked' = (mask # "none") \/ touch' = "failed"
      BY <2>3 DEF Reload
    <3>2. phase = "holding" => mask # "none"
      BY <2>3 DEF Reload
    <3> QED
      BY <2>1, <2>3, <3>1, <3>2 DEF Reload, unitVars
  <2>4. CASE Stop
    BY <2>1, <2>4 DEF Stop, unitVars, TypeOK, TouchTypeOK
  <2>5. CASE Unmask \/ Unblock \/ Start
    BY <2>1, <2>5 DEF Unmask, Unblock, Start, unitVars, PhaseInv
  <2> QED
    BY <1>4, <2>2, <2>3, <2>4, <2>5 DEF TouchScript, TouchStep
<1>5. CASE DaemonStarts
  BY <1>5 DEF DaemonStarts, Udev, unitVars
<1>6. CASE Administrator
  BY <1>6 DEF Administrator, unitVars, PhaseInv
<1>7. CASE ColdBoot
  BY <1>7 DEF ColdBoot
<1> QED
  BY <1>1, <1>2, <1>3, <1>4, <1>5, <1>6, <1>7
  DEF Next, WifiScript, Calm, vars, touchStays, touchVars, touchState, unitVars

\* The invariant of what is away, for any configuration of the two scripts.
AwayInv == TypeOK /\ PhaseInv /\ ScriptInv /\ HeldInv /\ DaemonInv

LEMMA InitAwayInv == Init => AwayInv
<1> SUFFICES ASSUME Init PROVE AwayInv
  OBVIOUS
<1>1. pc["guard"] = "off" /\ pc["hook"] = "off"
  BY DEF Init, Scripts
<1> QED
  BY <1>1, InitTypeOK DEF Init, AwayInv, PhaseInv, ScriptInv, HeldInv, DaemonInv

LEMMA NextAwayInv ==
  ASSUME AwayInv, [Next]_vars
  PROVE  AwayInv'
BY NextTypeOK, NextPhaseInv, NextScriptInv, NextHeldInv, NextDaemonInv DEF AwayInv

\* What the workarounds take away for a staged sleep stays away, although the
\* hook runs, udev starts the daemon and an administrator may put a mask of his
\* own in the place of the guard's (he removes none meanwhile), and even if an
\* ordinary sleep overlaps the restoration before it
\* (sleep-hook; hibermachy-iptsd-guard, hold).
THEOREM StaysAway == Spec => []KeptAway
<1>1. AwayInv => KeptAway
  BY DEF AwayInv, HeldInv, DaemonInv, KeptAway
<1> QED
  BY <1>1, InitAwayInv, NextAwayInv, PTL DEF Spec

-----------------------------------------------------------------------------
(***************************************************************************)
(* The touch guard's mask.                                                 *)
(***************************************************************************)

\* MaskInv is inductive, whatever fails.
LEMMA NextMaskInv ==
  ASSUME TypeOK, PhaseInv, MaskInv, [Next]_vars
  PROVE  MaskInv'
<1> USE DEF MaskInv
<1>1. CASE UNCHANGED <<sleep, phase, mask, recorded, touch, stranded>>
  BY <1>1
<1>2. CASE Sleeping
  BY <1>2
  DEF Sleeping, Suspend, FallsAsleep, WakesUp, HookDone, StageSleep, touchStays, touchVars,
      touchState, PhaseInv
<1>3. CASE Guarding
  BY <1>3
  DEF Guarding, GuardStarts, GuardHolds, GuardFails, TouchHeld, ServiceEnds, GuardStops, touchStays,
      touchVars, touchState, PhaseInv
<1>4. CASE TouchScript
  <2>1. UNCHANGED <<sleep, phase>>
    BY <1>4 DEF TouchScript, unitVars
  <2>2. CASE Mask \/ Record
    BY <2>1, <2>2 DEF Mask, Record, PhaseInv, TypeOK
  <2>3. CASE Reload \/ Stop \/ Start
    BY <2>1, <2>3 DEF Reload, Stop, Start, PhaseInv
  <2>4. CASE Unmask \/ Unblock
    BY <2>1, <2>4 DEF Unmask, Unblock, PhaseInv
  <2> QED
    BY <1>4, <2>2, <2>3, <2>4 DEF TouchScript, TouchStep
<1>5. CASE Administrator
  BY <1>5 DEF Administrator, unitVars
<1>6. CASE ColdBoot
  BY <1>6 DEF ColdBoot
<1> QED
  BY <1>1, <1>2, <1>3, <1>4, <1>5, <1>6
  DEF Next, WifiScript, DaemonStarts, Udev, Calm, vars, unitVars, touchStays, touchVars, touchState

\* No staged sleep goes on under a mask of the guard's that is not on record,
\* and none of those masks outlives its staged sleep, whichever command of the
\* script fails and whoever replaces the mask meanwhile, but one whose record
\* was not written or whose restore was stopped before it removed it
\* (hibermachy-iptsd-guard, hold and restore).
THEOREM MaskNeverLeft == Spec => []MaskGoesWithService
<1> DEFINE Inv == TypeOK /\ PhaseInv /\ MaskInv
<1>1. Init => Inv
  BY InitTypeOK DEF Init, PhaseInv, MaskInv
<1>2. Inv /\ [Next]_vars => Inv'
  BY NextTypeOK, NextPhaseInv, NextMaskInv
<1>3. Inv => MaskGoesWithService
  BY DEF PhaseInv, MaskInv, MaskGoesWithService, TypeOK
<1> QED
  BY <1>1, <1>2, <1>3, PTL DEF Spec

-----------------------------------------------------------------------------
(***************************************************************************)
(* The driver.                                                             *)
(***************************************************************************)

\* Two runs of the script never overlap if two services do not.
LEMMA OneScript ==
  ASSUME TypeOK, PhaseInv, ScriptInv, AloneInv,
         NEW script \in Scripts, NEW other \in Scripts, pc[script] \in Steps, other # script
  PROVE  pc[other] \notin Steps
<1>1. CASE script = "guard"
  BY <1>1 DEF TypeOK, PhaseInv, ScriptInv, AloneInv, Scripts, Steps
<1>2. CASE script = "hook"
  BY <1>2 DEF TypeOK, PhaseInv, ScriptInv, AloneInv, Scripts, Steps
<1> QED
  BY <1>1, <1>2 DEF Scripts

\* The services leave driver and records alone and start scripts at their
\* beginning.
LEMMA ServiceAlone ==
  ASSUME TypeOK, AloneInv, ServiceStep, sleep' = "ordinary" => guard' = "inactive"
  PROVE  AloneInv' /\ UNCHANGED <<module, marker>>
BY DEF AloneInv, ServiceStep, hookStays, records, Scripts

\* AloneInv is inductive if no ordinary sleep begins while the guard restores,
\* and no step but a boot loses the driver.
LEMMA NextAloneInv ==
  ASSUME ~Overlap, TypeOK, PhaseInv, ScriptInv, AloneInv, [Next]_vars
  PROVE  /\ AloneInv'
         /\ ColdBoot \/ ((module \/ marker)' <=> (module \/ marker))
<1>1. CASE UNCHANGED <<module, marker, pc, sleep, guard>>
  BY <1>1 DEF AloneInv
<1>2. CASE Sleeping
  <2>1. sleep' = "ordinary" => guard' = "inactive"
    BY <1>2
    DEF Sleeping, Suspend, FallsAsleep, WakesUp, HookDone, StageSleep, AloneInv
  <2> QED
    BY <1>2, <2>1, SleepingScripts, ServiceAlone
<1>3. CASE Guarding
  <2>1. sleep' = "ordinary" => guard' = "inactive"
    BY <1>3
    DEF Guarding, GuardStarts, GuardHolds, GuardFails, TouchHeld, ServiceEnds, GuardStops, AloneInv,
        PhaseInv
  <2> QED
    BY <1>3, <2>1, GuardingScripts, ServiceAlone
<1>4. ASSUME NEW script \in Scripts, WifiScript(script)
      PROVE  AloneInv' /\ ((module \/ marker)' <=> (module \/ marker))
  <2>1. UNCHANGED unitVars /\ (ScriptStep(script) \/ Killed(script)) /\ WifiTypeOK
    BY <1>4 DEF WifiScript, TypeOK
  <2>2. pc[script] \in Steps /\ \A other \in Scripts \ {script} : pc'[other] = pc[other]
    BY <2>1, ScriptSteps
  <2>3. \A other \in Scripts \ {script} : pc'[other] \notin {"unload", "try", "load", "clear"}
    BY <2>2, OneScript DEF Steps
  <2>4. /\ pc'[script] \in {"unload", "try", "load"} => marker'
        /\ pc'[script] = "clear" => module'
        /\ (module \/ marker)' <=> (module \/ marker)
    <3>1. /\ pc[script] \in {"unload", "try", "load"} => marker
          /\ pc[script] = "clear" => module
      BY DEF AloneInv
    <3>2. CASE pc[script] \in {"unload", "try", "load"}
      BY <2>1, <3>1, <3>2, ScriptEffects
    <3>3. CASE pc[script] = "clear"
      BY <2>1, <3>1, <3>3, ScriptEffects
    <3>4. CASE pc[script] = "mark"
      BY <2>1, <3>4, ScriptEffects
    <3>5. CASE pc[script] \in {"hold", "find", "release"}
      BY <2>1, <3>5, ScriptEffects
    <3> QED
      BY <2>2, <3>2, <3>3, <3>4, <3>5 DEF Steps
  <2> QED
    BY <2>1, <2>3, <2>4 DEF AloneInv, unitVars
<1>5. CASE ColdBoot
  BY <1>5 DEF ColdBoot, AloneInv, Scripts
<1> QED
  BY <1>1, <1>2, <1>3, <1>4, <1>5
  DEF Next, TouchScript, DaemonStarts, Administrator, Calm, vars, wifiStays, hookStays, wifiVars,
      unitVars, records

\* If no ordinary sleep begins while the guard restores the driver, the driver
\* is never lost: what is taken away is on record, through failures, kills and
\* any sequence of sleeps, until it is back or the machine boots (sleep-hook).
THEOREM DriverNeverLost ==
  ASSUME ~Overlap
  PROVE  Spec => DriverAccountedFor
<1> DEFINE Inv == AwayInv /\ AloneInv
<1>1. Init => Inv
  BY InitAwayInv DEF Init, AloneInv
<1>2. Inv /\ [Next]_vars => Inv'
  BY NextAwayInv, NextAloneInv DEF AwayInv
<1>3. Inv /\ [Next]_vars => [ColdBoot \/ ((module \/ marker)' <=> (module \/ marker))]_vars
  BY NextAloneInv DEF AwayInv
<1> QED
  BY <1>1, <1>2, <1>3, PTL DEF Spec, DriverAccountedFor
=============================================================================
