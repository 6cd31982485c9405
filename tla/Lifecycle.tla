----------------------------- MODULE Lifecycle -----------------------------
(***************************************************************************)
(* The lifecycle commands of lifecycle/production.mjs: setup, update,      *)
(* complete-update, activate, disable, remove, uninstall and purge.  A     *)
(* command is a sequence of steps, each a check or a call of another       *)
(* program.  Any step may fail, before or after it took effect, and the    *)
(* process may be killed; what was done stays, and the operator runs       *)
(* another command or the same one again.  Between any two steps the       *)
(* others who own a part of the machine may change it.                     *)
(* Operators named Mutant... are wrong versions of the definition that     *)
(* follows them.                                                           *)
(***************************************************************************)
EXTENDS NativeProbes

CONSTANTS
  Releases,   \* the verified releases a command can be run from
  Speaks,     \* the protocols the helper of a release speaks
  Wants,      \* the protocols the manifest of a release asks for
  Worlds,     \* the answers of shell and logind the inventory is tried with
  MaxFaults,  \* failing steps and kills
  MaxEdits    \* changes made by others

ASSUME ReleasesAreTrees ==
  /\ Releases \cap {"absent", "unusable", "dirty", "branch", "stray"} = {}
  /\ Releases \cup {"branch", "dirty"} \subseteq DOMAIN Wants
  /\ DOMAIN Wants \subseteq Releases \cup {"branch", "dirty"}
  /\ Releases \subseteq DOMAIN Speaks

ASSUME ReleasesAreWhole ==
  /\ \A r \in Releases : HelperHasProtocol(Speaks[r], Wants[r])
  /\ \A t \in DOMAIN Wants : ValidProtocol(Wants[t])

Installs == {"setup", "update"}
Removals == {"uninstall", "purge"}
Commands == Installs \cup Removals \cup {"activate", "disable", "remove", "complete-update"}

ASSUME NoneAssumption ==
  /\ None \notin Commands /\ None \notin Releases /\ None \notin BOOLEAN
  /\ None \notin [saved : BOOLEAN, names : 1..2]

\* No answer is not an answer.
ASSUME AnswersAssumption ==
  /\ None \notin {"yes", "no"}
  /\ \A w \in Worlds : LET can == [q \in Questions |-> CallCan(w.can[q])]
                        IN None # [can |-> can, block |-> w.block, boot |-> w.boot]

ASSUME BoundsAssumption == MaxFaults \in Nat /\ MaxEdits \in Nat

VARIABLES
  checkout,   \* what ~/.config/omarchy/plugins/dev.hibermachy holds
  listed,     \* shell.json lists the plugin
  readable,   \* shell.json can be parsed
  intent,     \* lifecycle-update.json: the activation saved, or None
  rows,       \* the owned rows of the menu
  helper,     \* what is at /usr/libexec/hibermachy-policy-helper
  policy,     \* the requested system policy
  data,       \* the directories of settings and history that exist
  cache,      \* the builds left in ~/.cache/hibermachy can be examined
  command,    \* the command that runs, or None
  pc,         \* its next step
  release,    \* the release it was run from
  current,    \* currentActivation
  before,     \* before
  result,     \* how the last command ended
  faults, edits,
  chosen,     \* the activation the operator asked for last
  contested,  \* he asked for another one while an update was pending
  ready,      \* nothing that others own stood in the way of this command
  meddled     \* others changed something since this command began

machine == <<checkout, listed, readable, intent, rows, helper, policy, data, cache>>
process == <<command, pc, release, current, before, result>>
budget == <<faults, edits>>
ghosts == <<chosen, contested, ready, meddled>>
vars == <<machine, process, budget, ghosts>>

Trees == Releases \cup {"branch"}
Steps ==
  {"idle", "recipe", "intent", "save", "suspend", "verify", "add", "pin", "build",
   "check", "rows", "enable", "clear", "off", "policy", "reset", "query", "package",
   "absence", "unlink", "drop", "settings", "state"}

LifecycleTypeOK ==
  /\ checkout \in Trees \cup {"absent", "unusable", "dirty"}
  /\ listed \in BOOLEAN /\ readable \in BOOLEAN
  /\ intent \in [saved : BOOLEAN, names : 1..2] \cup {None}
  /\ rows \in {"absent", "present", "foreign"}
  /\ helper \in Releases \cup {"absent", "stray"}
  /\ policy \in {"absent", "recognized", "foreign"}
  /\ data \subseteq {"settings", "state"}
  /\ cache \in BOOLEAN
  /\ command \in Commands \cup {None}
  /\ pc \in Steps
  /\ release \in Releases \cup {None}
  /\ current \in BOOLEAN \cup {None}
  /\ before \in BOOLEAN
  /\ result \in {"none", "accepted", "refused"}
  /\ faults \in 0..MaxFaults /\ edits \in 0..MaxEdits
  /\ chosen \in BOOLEAN /\ contested \in BOOLEAN
  /\ ready \in BOOLEAN /\ meddled \in BOOLEAN

LifecycleInit ==
  /\ checkout = "absent" /\ listed = FALSE /\ readable = TRUE
  /\ intent = None /\ rows = "absent" /\ helper = "absent" /\ policy = "absent"
  /\ data = {} /\ cache = TRUE
  /\ command = None /\ pc = "idle" /\ release = None
  /\ current = FALSE /\ before = FALSE /\ result = "none"
  /\ faults = 0 /\ edits = 0
  /\ chosen = FALSE /\ contested = FALSE /\ ready = FALSE /\ meddled = FALSE

-----------------------------------------------------------------------------
(***************************************************************************)
(* The inventory a command reports, from the machine and from the answers  *)
(* of a world.                                                             *)
(***************************************************************************)

PluginEnabled == IF readable THEN listed ELSE None

Manifest == IF checkout \in DOMAIN Wants THEN Wants[checkout] ELSE None

Answer == IF helper \in Releases THEN Speaks[helper] ELSE None

HelperProtocol ==
  CASE helper = "absent" -> "missing"
    [] HelperHasProtocol(Answer, Manifest) -> "compatible"
    [] OTHER -> "modified"

\* A requested pair is within the product's bounds, an effective one need not be.
ValidPair(p) == p # None /\ p.delay \in 900..604800
ValidEffectivePair(p) == p # None /\ p.delay >= 0

EffectiveState(readback) ==
  IF readback = None THEN "incomplete"
  ELSE IF readback.requested = None /\ readback.effective = None THEN "missing"
  ELSE IF ~ValidEffectivePair(readback.effective) THEN "incomplete"
  ELSE IF readback.requested # None /\ ~ValidPair(readback.requested) THEN "incomplete"
  ELSE IF readback.requested \in {None, readback.effective} THEN "compatible"
  ELSE "modified"

LiveReadiness(w) ==
  LET contract == EvaluateContract(w, Manifest # None /\ listed, Manifest, Answer)
  IN /\ w.runtime = "compatible"
     /\ contract.compatible /\ contract.majorVersion = 4
     /\ EvaluateCapability(w) # None
     /\ HelperProtocol = "compatible"

Inventory(w) ==
  [checkout |-> CASE checkout = "absent" -> "missing"
                  [] checkout # "absent" /\ Manifest = None -> "incomplete"
                  [] OTHER -> "compatible",
   activation |-> IF PluginEnabled = None THEN "incomplete" ELSE "compatible",
   enabled |-> PluginEnabled,
   menu_contribution |-> CASE rows = "absent" -> "missing"
                           [] rows = "present" -> "compatible"
                           [] OTHER -> "modified",
   helper_package |-> HelperProtocol,
   requested_system_policy |-> CASE policy = "absent" -> "missing"
                                 [] policy = "recognized" -> "compatible"
                                 [] OTHER -> "modified",
   effective_system_policy |->
     EffectiveState(IF w.runtime = "compatible" THEN w.readback ELSE None),
   runtime_dependencies |-> w.runtime,
   live_readiness |-> IF LiveReadiness(w) THEN "compatible" ELSE "incomplete",
   user_configuration |-> IF "settings" \in data THEN "compatible" ELSE "missing",
   outcome_history |-> IF "state" \in data THEN "compatible" ELSE "missing"]

-----------------------------------------------------------------------------
(***************************************************************************)
(* How a step ends: the command goes on, is over, or stops here.           *)
(***************************************************************************)

Over(r) ==
  /\ result' = r
  /\ command' = None /\ pc' = "idle" /\ release' = None
  /\ current' = FALSE /\ before' = FALSE
  /\ ready' = FALSE /\ meddled' = FALSE

Goes(step) ==
  /\ pc' = step
  /\ UNCHANGED <<command, release, current, before, result, ready, meddled>>

\* The call took effect, and the command ends all the same: it reported an
\* error, a check right after it failed, or the process was killed.
Late == faults < MaxFaults /\ faults' = faults + 1 /\ Over("refused")

Then(step) == (Goes(step) /\ UNCHANGED faults) \/ Late
Accept == (Over("accepted") /\ UNCHANGED faults) \/ Late
Refuse == Over("refused") /\ UNCHANGED <<machine, budget, chosen, contested>>

\* A step that fails, or is not reached, without effect.
Interrupt ==
  /\ pc # "idle"
  /\ Late
  /\ UNCHANGED <<machine, edits, chosen, contested>>

-----------------------------------------------------------------------------
(***************************************************************************)
(* Starting a command.                                                     *)
(***************************************************************************)

FirstStep(c) ==
  CASE c \in Installs -> "recipe"
    [] c = "activate" -> "check"
    [] c = "complete-update" -> "intent"
    [] OTHER -> "off"

\* The command is one to run here (setup is not for a plugin that is enabled,
\* update and activate not for one that is not there), and nothing that belongs
\* to others stands in its way.  The states in which commands that were
\* interrupted leave the checkout, the builds and the saved activation are all
\* let through: see Stuck.
Ready(c) ==
  /\ c # "complete-update" /\ readable
  /\ c \in Installs => rows # "foreign"
  /\ c = "setup" => ~listed
  /\ c \in {"update", "activate"} => checkout # "absent"
  /\ c \in Removals =>
       /\ policy # "foreign"
       /\ policy = "recognized" => helper \in Releases
       /\ helper # "stray"
       /\ rows # "foreign"
       /\ checkout = "absent" => ~listed

Start(c, r) ==
  /\ pc = "idle"
  /\ command' = c /\ pc' = FirstStep(c)
  /\ release' = IF c \in Installs THEN r ELSE None
  /\ result' = "none"
  /\ ready' = Ready(c) /\ meddled' = FALSE
  /\ UNCHANGED <<machine, budget, current, before, chosen, contested>>

-----------------------------------------------------------------------------
(***************************************************************************)
(* setup, update and activate.                                             *)
(***************************************************************************)

\* setup() before it installs: recipe and toolchain are in order.
CheckSetup ==
  /\ pc = "recipe" /\ command = "setup"
  /\ IF checkout # "absent" /\ PluginEnabled # FALSE
     THEN Refuse
     ELSE Goes("verify") /\ UNCHANGED <<machine, budget, chosen, contested>>

ReadActivation ==
  /\ pc = "recipe" /\ command = "update"
  /\ current' = PluginEnabled
  /\ pc' = "intent"
  /\ contested' = (contested /\ intent # None)
  /\ UNCHANGED <<machine, command, release, before, result, budget, chosen, ready, meddled>>

\* readUpdateIntent refuses a file with two names.
Examined == intent = None \/ intent.names = 1

\* The pending update's record is looked at but not used.
MutantReadIntent ==
  /\ pc = "intent"
  /\ IF ~Examined \/ command = "complete-update" \/ current = None
     THEN Refuse
     ELSE /\ before' = current
          /\ pc' = IF intent = None THEN "save" ELSE "suspend"
          /\ UNCHANGED <<machine, command, release, current, result, budget, ghosts>>

ReadIntent ==
  /\ pc = "intent"
  /\ IF \/ ~Examined
        \/ command = "complete-update"
        \/ intent = None /\ current = None
     THEN Refuse
     ELSE /\ before' = IF intent = None THEN current ELSE intent.saved
          /\ pc' = IF intent = None THEN "save" ELSE "suspend"
          /\ UNCHANGED <<machine, command, release, current, result, budget, ghosts>>

\* The file appears complete, by a link from a temporary name which is then
\* removed; a process killed between the two leaves the file both names.
SaveIntent ==
  /\ pc = "save"
  /\ data' = data \cup {"state"}
  /\ \/ intent' = [saved |-> before, names |-> 1] /\ Then("suspend")
     \/ intent' = [saved |-> before, names |-> 2] /\ Late
  /\ UNCHANGED <<checkout, listed, readable, rows, helper, policy, cache, edits, chosen,
                 contested>>

\* The plugin is disabled if it is to be enabled again, not if it is enabled.
MutantSuspend ==
  /\ pc = "suspend"
  /\ IF before
     THEN listed' = FALSE /\ Then("verify")
     ELSE Goes("verify") /\ UNCHANGED <<listed, faults>>
  /\ UNCHANGED <<checkout, readable, intent, rows, helper, policy, data, cache, edits,
                 chosen, contested>>

Suspend ==
  /\ pc = "suspend"
  /\ IF current = TRUE
     THEN listed' = FALSE /\ Then("verify")
     ELSE Goes("verify") /\ UNCHANGED <<listed, faults>>
  /\ UNCHANGED <<checkout, readable, intent, rows, helper, policy, data, cache, edits,
                 chosen, contested>>

\* installRelease up to the point where archive, recipe and the source that
\* was run are known to be one release.
Verify ==
  /\ pc = "verify"
  /\ IF cache
     THEN Goes("add") /\ UNCHANGED <<machine, budget, chosen, contested>>
     ELSE Refuse

\* The beginning of pinCheckout: only setup adds what is missing.
AddCheckout ==
  /\ pc = "add"
  /\ \/ /\ checkout = "absent" /\ command = "setup"
        /\ \/ checkout' = "branch" /\ Then("pin")
           \/ checkout' = "unusable" /\ Late
        /\ UNCHANGED <<listed, readable, intent, rows, helper, policy, data, cache, edits,
                       chosen, contested>>
     \/ /\ checkout \in Trees \cup {"dirty"}
        /\ Goes("pin") /\ UNCHANGED <<machine, budget, chosen, contested>>
     \/ /\ checkout = "unusable" \/ (checkout = "absent" /\ command # "setup")
        /\ Refuse

\* A checkout that is at some release stays there.
MutantPin ==
  /\ pc = "pin"
  /\ IF checkout \in Trees
     THEN /\ checkout' = IF checkout \in Releases THEN checkout ELSE release
          /\ Then("build")
          /\ UNCHANGED <<listed, readable, intent, rows, helper, policy, data, cache, edits,
                         chosen, contested>>
     ELSE Refuse

\* A git that is killed while it writes the tree leaves it changed.
Pin ==
  /\ pc = "pin"
  /\ IF checkout \in Trees
     THEN /\ \/ checkout' = release /\ Then("build")
             \/ checkout' = "dirty" /\ Late
          /\ UNCHANGED <<listed, readable, intent, rows, helper, policy, data, cache, edits,
                         chosen, contested>>
     ELSE Refuse

\* makepkg --install, and the removal of the build.  A process killed while
\* the package builds leaves directories nobody may read.
Build ==
  /\ pc = "build"
  /\ \/ helper' = release /\ Then("check") /\ UNCHANGED cache
     \/ cache' = FALSE /\ UNCHANGED helper /\ Late
  /\ UNCHANGED <<checkout, listed, readable, intent, rows, policy, data, edits, chosen,
                 contested>>

\* Dependencies that are not in order are among the failures of a step.
CheckComponents ==
  /\ pc = "check"
  /\ IF /\ Manifest # None
        /\ command \in Installs => HelperProtocol = "compatible"
     THEN /\ Goes(IF command \in Installs THEN "rows" ELSE "enable")
          /\ UNCHANGED <<machine, budget, chosen, contested>>
     ELSE Refuse

ReconcileRows ==
  /\ pc = "rows"
  /\ IF rows = "foreign"
     THEN Refuse
     ELSE /\ rows' = "present"
          /\ IF command = "setup" THEN Accept ELSE Then("enable")
          /\ UNCHANGED <<checkout, listed, readable, intent, helper, policy, data, cache,
                         edits, chosen, contested>>

Activate ==
  /\ pc = "enable" /\ command = "activate"
  /\ listed' = TRUE
  /\ chosen' = TRUE /\ contested' = (contested \/ intent # None)
  /\ Accept
  /\ UNCHANGED <<checkout, readable, intent, rows, helper, policy, data, cache, edits>>

RestoreActivation ==
  /\ pc = "enable" /\ command = "update"
  /\ IF before
     THEN listed' = TRUE /\ Then("clear")
     ELSE Goes("clear") /\ UNCHANGED <<listed, faults>>
  /\ UNCHANGED <<checkout, readable, intent, rows, helper, policy, data, cache, edits,
                 chosen, contested>>

ClearIntent ==
  /\ pc = "clear"
  /\ intent' = None
  /\ chosen' = listed /\ contested' = FALSE
  /\ Accept
  /\ UNCHANGED <<checkout, listed, readable, rows, helper, policy, data, cache, edits>>

-----------------------------------------------------------------------------
(***************************************************************************)
(* disable, remove, uninstall and purge.  purge without --confirm-purge    *)
(* does what uninstall does.                                               *)
(***************************************************************************)

\* A plugin without a checkout cannot be disabled.
MutantSwitchOff ==
  /\ pc = "off"
  /\ IF checkout = "absent"
     THEN Refuse
     ELSE /\ listed' = FALSE /\ chosen' = FALSE /\ contested' = (contested \/ intent # None)
          /\ CASE command = "disable" -> Accept
               [] command = "remove" -> Then("drop")
               [] OTHER -> Then("policy")
          /\ UNCHANGED <<checkout, readable, intent, rows, helper, policy, data, cache, edits>>

\* A plugin without a checkout is taken to be disabled.
SwitchOff ==
  /\ pc = "off"
  /\ IF checkout = "absent"
     THEN UNCHANGED <<listed, chosen, contested>>
     ELSE listed' = FALSE /\ chosen' = FALSE /\ contested' = (contested \/ intent # None)
  /\ CASE command = "disable" -> Accept
       [] command = "remove" -> Then("drop")
       [] OTHER -> Then("policy")
  /\ UNCHANGED <<checkout, readable, intent, rows, helper, policy, data, cache, edits>>

\* A policy is left to the package's own removal.
MutantCheckPolicy ==
  /\ pc = "policy"
  /\ IF policy = "foreign"
     THEN Refuse
     ELSE Goes("query") /\ UNCHANGED <<machine, budget, chosen, contested>>

CheckPolicy ==
  /\ pc = "policy"
  /\ IF policy = "foreign"
     THEN Refuse
     ELSE /\ Goes(IF policy = "absent" THEN "query" ELSE "reset")
          /\ UNCHANGED <<machine, budget, chosen, contested>>

\* The helper resets what it recognizes; PolicyHelper is about how.
ResetPolicy ==
  /\ pc = "reset"
  /\ IF helper \in Releases /\ policy # "foreign"
     THEN /\ policy' = "absent"
          /\ Then("query")
          /\ UNCHANGED <<checkout, listed, readable, intent, rows, helper, data, cache,
                         edits, chosen, contested>>
     ELSE Refuse

QueryPackage ==
  /\ pc = "query"
  /\ Goes(IF helper \in Releases THEN "package" ELSE "absence")
  /\ UNCHANGED <<machine, budget, chosen, contested>>

\* pacman -Rns; the package's pre_remove resets a recognized policy if it can.
RemovePackage ==
  /\ pc = "package"
  /\ IF helper \in Releases
     THEN /\ helper' = "absent"
          /\ policy' \in IF policy = "recognized" THEN {policy, "absent"} ELSE {policy}
          /\ Then("absence")
          /\ UNCHANGED <<checkout, listed, readable, intent, rows, data, cache, edits,
                         chosen, contested>>
     ELSE Refuse

CheckAbsence ==
  /\ pc = "absence"
  /\ IF policy = "absent" /\ helper = "absent"
     THEN Goes("unlink") /\ UNCHANGED <<machine, budget, chosen, contested>>
     ELSE Refuse

RemoveRows ==
  /\ pc = "unlink"
  /\ IF rows = "foreign"
     THEN Refuse
     ELSE /\ rows' = "absent"
          /\ Then("drop")
          /\ UNCHANGED <<checkout, listed, readable, intent, helper, policy, data, cache,
                         edits, chosen, contested>>

RemoveCheckout ==
  /\ pc = "drop"
  /\ \/ /\ checkout' = "absent"
        /\ IF command = "purge" THEN Then("settings") ELSE Accept
     \/ checkout # "absent" /\ checkout' = "unusable" /\ Late
  /\ UNCHANGED <<listed, readable, intent, rows, helper, policy, data, cache, edits, chosen,
                 contested>>

\* Both directories are examined before the first is removed.
PurgeSettings ==
  /\ pc = "settings"
  /\ IF Examined
     THEN /\ data' = data \ {"settings"}
          /\ Then("state")
          /\ UNCHANGED <<checkout, listed, readable, intent, rows, helper, policy, cache,
                         edits, chosen, contested>>
     ELSE Refuse

\* The state directory holds the history and the saved activation.
PurgeState ==
  /\ pc = "state"
  /\ data' = data \ {"state"}
  /\ intent' = None
  /\ chosen' = listed /\ contested' = FALSE
  /\ Accept
  /\ UNCHANGED <<checkout, listed, readable, rows, helper, policy, cache, edits>>

-----------------------------------------------------------------------------
(***************************************************************************)
(* The others: Quattro, the operator by hand, administrators, and the      *)
(* service, which writes settings and history while it is loaded.          *)
(***************************************************************************)

Others ==
  /\ edits < MaxEdits /\ edits' = edits + 1
  /\ meddled' = (pc # "idle")
  /\ UNCHANGED <<process, faults, ready>>

Toggle ==
  /\ Others
  /\ readable /\ checkout # "absent"
  /\ listed' = ~listed /\ chosen' = ~listed
  /\ contested' = (contested \/ intent # None \/ command = "update")
  /\ UNCHANGED <<checkout, readable, intent, rows, helper, policy, data, cache>>

ShellEdited ==
  /\ Others
  /\ readable' = ~readable
  /\ UNCHANGED <<checkout, listed, intent, rows, helper, policy, data, cache, chosen,
                 contested>>

CheckoutEdited ==
  /\ Others
  /\ checkout' \in {"absent", "unusable", "dirty", "branch"}
  /\ UNCHANGED <<listed, readable, intent, rows, helper, policy, data, cache, chosen,
                 contested>>

RowsEdited ==
  /\ Others
  /\ rows' \in {"absent", "foreign"}
  /\ UNCHANGED <<checkout, listed, readable, intent, helper, policy, data, cache, chosen,
                 contested>>

PolicyWritten ==
  /\ Others
  /\ policy' \in {"absent", "recognized", "foreign"}
  /\ UNCHANGED <<checkout, listed, readable, intent, rows, helper, data, cache, chosen,
                 contested>>

HelperReplaced ==
  /\ Others
  /\ helper' \in {"absent", "stray"}
  /\ UNCHANGED <<checkout, listed, readable, intent, rows, policy, data, cache, chosen,
                 contested>>

ServiceWrites ==
  /\ listed /\ checkout \in Trees
  /\ data' = {"settings", "state"}
  /\ UNCHANGED <<checkout, listed, readable, intent, rows, helper, policy, cache, process,
                 budget, ghosts>>

-----------------------------------------------------------------------------
CommandStep ==
  \/ CheckSetup
  \/ ReadActivation
  \/ ReadIntent
  \/ SaveIntent
  \/ Suspend
  \/ Verify
  \/ AddCheckout
  \/ Pin
  \/ Build
  \/ CheckComponents
  \/ ReconcileRows
  \/ Activate
  \/ RestoreActivation
  \/ ClearIntent
  \/ SwitchOff
  \/ CheckPolicy
  \/ ResetPolicy
  \/ QueryPackage
  \/ RemovePackage
  \/ CheckAbsence
  \/ RemoveRows
  \/ RemoveCheckout
  \/ PurgeSettings
  \/ PurgeState

Outside ==
  \/ Toggle
  \/ ShellEdited
  \/ CheckoutEdited
  \/ RowsEdited
  \/ PolicyWritten
  \/ HelperReplaced
  \/ ServiceWrites

LifecycleNext ==
  \/ \E c \in Commands, r \in Releases : Start(c, r)
  \/ CommandStep
  \/ Interrupt
  \/ Outside

LifecycleSpec == LifecycleInit /\ [][LifecycleNext]_vars

-----------------------------------------------------------------------------
(***************************************************************************)
(* Properties.                                                             *)
(***************************************************************************)

Ends(r) == command # None /\ command' = None /\ result' = r
Alone == ready /\ ~meddled

InOrder(w) ==
  /\ w.shell /\ w.features /\ w.version = 4 /\ w.runtime = "compatible"
  /\ w.block # None /\ w.boot # None
  /\ \A q \in Questions : w.can[q] \in Refusals \cup {"yes"}

\* However often an update fails, is killed and is run again, and whichever
\* step it was, the one that is accepted leaves the plugin as the operator
\* wanted it before the first, if he asked for nothing else in between
\* (update, saveUpdateIntent, readUpdateIntent).
RestoresActivation ==
  [][Ends("accepted") /\ command = "update" /\ ~contested => listed' = chosen]_vars

\* The checkout is never moved under a plugin that is loaded (setup's check,
\* update's disable).
CheckoutMovesWhileOff ==
  [][pc = "pin" /\ checkout' # checkout /\ Alone => ~listed]_vars

\* An accepted setup or update leaves checkout and helper of the one release
\* it was run from, the menu rows, and nothing pending; setup leaves the
\* plugin disabled.
AcceptedIsWhole ==
  [][Ends("accepted") /\ command \in Installs /\ Alone =>
       /\ checkout' = release /\ helper' = release /\ rows' = "present"
       /\ command = "update" => intent' = None
       /\ command = "setup" => ~listed']_vars

\* An accepted uninstall leaves nothing of the system, whatever earlier
\* commands had left half done; purge leaves no settings and no saved
\* activation either, and nothing but purge removes settings.  The helper's
\* package, which alone may reset the policy, goes after the policy, unless
\* someone writes one at that moment.
UninstallIsComplete ==
  [][/\ Ends("accepted") /\ command \in Removals /\ Alone =>
           /\ checkout' = "absent" /\ helper' = "absent"
           /\ policy' = "absent" /\ rows' = "absent" /\ ~listed'
           /\ command = "purge" => data' = {} /\ intent' = None
     /\ ~(data \subseteq data') => command = "purge"
     /\ pc = "package" /\ helper' # helper /\ policy # "absent" => meddled]_vars

\* The inventory an accepted setup or update reports calls the plugin ready
\* exactly if it is enabled and shell, logind and dependencies are in order:
\* what the two have installed is never what stands in the way
\* (inventory, evaluateContract, evaluateCapability, helperProtocol).
ReadyIffEnabled ==
  [][Ends("accepted") /\ command \in Installs /\ Alone =>
       \A w \in Worlds :
         (Inventory(w).live_readiness = "compatible")'
           <=> listed' /\ InOrder(w)]_vars

\* What earlier commands, interrupted or not, or others may have left that
\* stops a command at its start, and that it cannot put right: builds nobody
\* may examine, a checkout half added, half removed or half moved, or a saved
\* activation with two names.  It never stops a disable, remove or uninstall.
Stuck(c) ==
  \/ c \in Installs /\ (~cache \/ checkout \in {"unusable", "dirty"})
  \/ c \in {"update", "purge"} /\ ~Examined
  \/ c = "activate" /\ checkout = "unusable"

\* "Rerunning it after a partial failure is safe", which is said of uninstall:
\* wherever earlier commands were interrupted or killed, a disable, remove or
\* uninstall that nobody stands in the way of is accepted unless it is itself
\* interrupted, and so is every other command but for the leftovers above
\* (uninstall, removeOwnedMenu, pinCheckout, readUpdateIntent,
\* validatePurgeTree).
RerunIsAccepted ==
  [][Ends("refused") /\ Alone => faults' # faults \/ Stuck(command)]_vars

\* "A leftover build directory is harmless": no install is refused for what an
\* earlier one's build has left (installRelease).
LeftoverBuildIsHarmless ==
  [][pc = "verify" /\ Ends("refused") => faults' # faults]_vars
=============================================================================
