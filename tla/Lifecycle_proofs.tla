-------------------------- MODULE Lifecycle_proofs --------------------------
(***************************************************************************)
(* What the lifecycle commands keep, for any number of failures, kills and *)
(* changes made by others: the operator's choice of activation across      *)
(* interrupted updates, and, when nobody stands in the way, that a command *)
(* is accepted and leaves the machine as it says.  The last parts are      *)
(* about the menu they share with others, whatever others write to it: an  *)
(* edit of its owner is never lost, and a text that is accepted is         *)
(* rewritten into one that differs in the plugin's rows only.              *)
(***************************************************************************)
EXTENDS Lifecycle, Menu, FiniteSetTheorems, TLAPS

-----------------------------------------------------------------------------
(***************************************************************************)
(* The inductive invariant.                                                *)
(***************************************************************************)

\* Which command may be at which step.
Course ==
  /\ (pc = "idle") <=> (command = None)
  /\ pc = "recipe" => command \in Installs
  /\ pc = "intent" => command \in {"update", "complete-update"}
  /\ pc \in {"save", "suspend", "clear"} => command = "update"
  /\ pc \in {"verify", "add", "pin", "build", "rows"} => command \in Installs
  /\ pc = "check" => command \in Installs \cup {"activate"}
  /\ pc = "enable" => command \in {"update", "activate"}
  /\ pc = "off" => command \in Removals \cup {"disable", "remove"}
  /\ pc \in {"policy", "reset", "query", "package", "absence", "unlink"} => command \in Removals
  /\ pc = "drop" => command \in Removals \cup {"remove"}
  /\ pc \in {"settings", "state"} => command = "purge"
  /\ command \in Installs => release \in Releases

\* The steps of an update that have a saved activation before them.
Pending == {"suspend", "verify", "add", "pin", "build", "check", "rows", "enable", "clear"}

\* With no update pending the plugin is as the operator chose.  With one
\* pending, and nothing chosen since, the choice is the one saved, and the
\* plugin is that or disabled; a running update works towards the choice.
ChoiceKept ==
  /\ intent = None => listed = chosen
  /\ intent # None /\ ~contested => intent.saved = chosen /\ listed \in {chosen, FALSE}
  /\ command = "update" /\ pc = "save" => intent = None
  /\ command = "update" /\ pc \in Pending => intent # None
  /\ command = "update" /\ ~contested =>
       /\ pc = "intent" /\ intent = None => current \in {chosen, None}
       /\ pc = "save" => before = chosen
       /\ pc \in Pending => before = chosen
       /\ pc = "clear" => listed = chosen

\* Steps of a removal after the policy, the helper and the rows are gone.
PolicyGone == {"query", "package", "absence", "unlink", "drop", "settings", "state"}
HelperGone == {"absence", "unlink", "drop", "settings", "state"}

\* As long as others change nothing, no policy is there when the package goes.
PackageLast == pc \in PolicyGone /\ command \in Removals /\ ~meddled => policy = "absent"

\* What a command that nobody stands in the way of can rely on at each step.
InstallOnCourse ==
  command \in Installs /\ Alone =>
    /\ readable /\ rows # "foreign"
    /\ checkout = "absent" => command = "setup"
    /\ command = "setup" => ~listed
    /\ pc \in {"intent", "save", "suspend"} => current = listed
    /\ pc \in {"verify", "add", "pin"} => ~listed
    /\ pc = "pin" => checkout \in Trees \cup {"dirty"}
    /\ pc \in {"build", "check", "rows", "enable", "clear"} => checkout = release
    /\ pc \in {"check", "rows", "enable", "clear"} => helper = release
    /\ pc \in {"enable", "clear"} => rows = "present"

RemovalOnCourse ==
  command \in Removals /\ Alone =>
    /\ policy # "foreign" /\ helper # "stray" /\ rows # "foreign"
    /\ checkout = "absent" \/ pc # "off" => ~listed
    /\ pc \in {"off", "policy", "reset"} /\ policy = "recognized" => helper \in Releases
    /\ pc = "reset" => policy = "recognized"
    /\ pc = "package" => helper \in Releases
    /\ pc \in HelperGone => helper = "absent"
    /\ pc \in {"drop", "settings", "state"} => rows = "absent"
    /\ pc \in {"settings", "state"} => checkout = "absent"
    /\ pc = "state" => "settings" \notin data

OthersOnCourse ==
  /\ command = "activate" /\ Alone => checkout # "absent"
  /\ command = "complete-update" => ~Alone

OnCourse == InstallOnCourse /\ RemovalOnCourse /\ OthersOnCourse

Invariant == LifecycleTypeOK /\ Course /\ ChoiceKept /\ PackageLast /\ OnCourse

-----------------------------------------------------------------------------
(***************************************************************************)
(* Types.                                                                  *)
(***************************************************************************)

ProcessOK ==
  /\ command \in Commands \cup {None}
  /\ pc \in Steps
  /\ release \in Releases \cup {None}
  /\ current \in BOOLEAN \cup {None}
  /\ before \in BOOLEAN
  /\ result \in {"none", "accepted", "refused"}
  /\ ready \in BOOLEAN /\ meddled \in BOOLEAN

MachineOK ==
  /\ checkout \in Trees \cup {"absent", "unusable", "dirty"}
  /\ listed \in BOOLEAN /\ readable \in BOOLEAN
  /\ intent \in [saved : BOOLEAN, names : 1..2] \cup {None}
  /\ rows \in {"absent", "present", "foreign"}
  /\ helper \in Releases \cup {"absent", "stray"}
  /\ policy \in {"absent", "recognized", "foreign"}
  /\ data \subseteq {"settings", "state"}
  /\ cache \in BOOLEAN
  /\ edits \in 0..MaxEdits
  /\ chosen \in BOOLEAN /\ contested \in BOOLEAN

FaultsOK == faults \in 0..MaxFaults

LEMMA TypeSplits == LifecycleTypeOK <=> ProcessOK /\ MachineOK /\ FaultsOK
BY DEF LifecycleTypeOK, ProcessOK, MachineOK, FaultsOK

LEMMA GoesType ==
  ASSUME ProcessOK, NEW step \in Steps, Goes(step)
  PROVE  ProcessOK'
BY DEF ProcessOK, Goes

LEMMA OverType ==
  ASSUME ProcessOK, NEW r \in {"accepted", "refused"}, Over(r)
  PROVE  ProcessOK'
<1>1. "idle" \in Steps
  BY DEF Steps
<1> QED
  BY <1>1 DEF ProcessOK, Over

LEMMA LateType ==
  ASSUME ProcessOK, FaultsOK, Late
  PROVE  ProcessOK' /\ FaultsOK'
<1>1. ProcessOK'
  BY OverType DEF Late
<1>2. FaultsOK'
  BY BoundsAssumption DEF Late, FaultsOK
<1> QED
  BY <1>1, <1>2

LEMMA ThenType ==
  ASSUME ProcessOK, FaultsOK, NEW step \in Steps, Then(step)
  PROVE  ProcessOK' /\ FaultsOK'
BY GoesType, LateType DEF Then, FaultsOK

LEMMA AcceptType ==
  ASSUME ProcessOK, FaultsOK, Accept
  PROVE  ProcessOK' /\ FaultsOK'
BY OverType, LateType DEF Accept, FaultsOK

LEMMA RefuseType ==
  ASSUME ProcessOK, MachineOK, FaultsOK, Refuse
  PROVE  ProcessOK' /\ MachineOK' /\ FaultsOK'
BY OverType DEF Refuse, FaultsOK, MachineOK, machine, budget

\* Every step keeps the types of the process ...
LEMMA ProcessStep ==
  ASSUME ProcessOK, MachineOK, FaultsOK, Course, [LifecycleNext]_vars
  PROVE  ProcessOK' /\ FaultsOK'
<1>1. ASSUME NEW c \in Commands, NEW r \in Releases, Start(c, r)
      PROVE  ProcessOK' /\ FaultsOK'
  <2>1. FirstStep(c) \in Steps
    BY DEF FirstStep, Steps
  <2>2. Ready(c) \in BOOLEAN
    BY DEF Ready
  <2>3. release' \in Releases \cup {None}
    BY <1>1 DEF Start
  <2>4. /\ command' = c /\ pc' = FirstStep(c) /\ result' = "none"
        /\ ready' = Ready(c) /\ meddled' = FALSE
        /\ UNCHANGED <<current, before, faults>>
    BY <1>1 DEF Start, budget
  <2> QED
    BY <2>1, <2>2, <2>3, <2>4 DEF ProcessOK, FaultsOK
<1>2. CASE CheckSetup
  BY <1>2, GoesType, ThenType, AcceptType, LateType, RefuseType DEF CheckSetup, FaultsOK, Steps,
    budget
<1>3. CASE ReadActivation
  BY <1>3 DEF ReadActivation, PluginEnabled, ProcessOK, MachineOK, FaultsOK, Steps, budget
<1>4. CASE ReadIntent
  <2>1. CASE Refuse
    BY <2>1, RefuseType
  <2>2. CASE ~Refuse
    <3>1. before' \in BOOLEAN /\ pc' \in Steps
      BY <1>4, <2>2 DEF ReadIntent, ProcessOK, MachineOK, Steps
    <3>2. UNCHANGED <<command, release, current, result, faults, ready, meddled>>
      BY <1>4, <2>2 DEF ReadIntent, budget, ghosts
    <3> QED
      BY <3>1, <3>2 DEF ProcessOK, FaultsOK
  <2> QED
    BY <2>1, <2>2
<1>5. CASE SaveIntent
  BY <1>5, GoesType, ThenType, AcceptType, LateType, RefuseType DEF SaveIntent, FaultsOK, Steps,
    budget
<1>6. CASE Suspend
  BY <1>6, GoesType, ThenType, AcceptType, LateType, RefuseType DEF Suspend, FaultsOK, Steps,
    budget
<1>7. CASE Verify
  BY <1>7, GoesType, ThenType, AcceptType, LateType, RefuseType DEF Verify, FaultsOK, Steps,
    budget
<1>8. CASE AddCheckout
  BY <1>8, GoesType, ThenType, AcceptType, LateType, RefuseType DEF AddCheckout, FaultsOK, Steps,
    budget
<1>9. CASE Pin
  BY <1>9, GoesType, ThenType, AcceptType, LateType, RefuseType DEF Pin, FaultsOK, Steps, budget
<1>10. CASE Build
  BY <1>10, GoesType, ThenType, AcceptType, LateType, RefuseType DEF Build, FaultsOK, Steps,
    budget
<1>11. CASE CheckComponents
  BY <1>11, GoesType, ThenType, AcceptType, LateType, RefuseType DEF CheckComponents, FaultsOK,
    Steps, budget
<1>12. CASE ReconcileRows
  BY <1>12, GoesType, ThenType, AcceptType, LateType, RefuseType DEF ReconcileRows, FaultsOK,
    Steps, budget
<1>13. CASE Activate
  BY <1>13, GoesType, ThenType, AcceptType, LateType, RefuseType DEF Activate, FaultsOK, Steps,
    budget
<1>14. CASE RestoreActivation
  BY <1>14, GoesType, ThenType, AcceptType, LateType, RefuseType DEF RestoreActivation, FaultsOK,
    Steps, budget
<1>15. CASE ClearIntent
  BY <1>15, GoesType, ThenType, AcceptType, LateType, RefuseType DEF ClearIntent, FaultsOK,
    Steps, budget
<1>16. CASE SwitchOff
  BY <1>16, GoesType, ThenType, AcceptType, LateType, RefuseType DEF SwitchOff, FaultsOK, Steps,
    budget
<1>17. CASE CheckPolicy
  BY <1>17, GoesType, ThenType, AcceptType, LateType, RefuseType DEF CheckPolicy, FaultsOK,
    Steps, budget
<1>18. CASE ResetPolicy
  BY <1>18, GoesType, ThenType, AcceptType, LateType, RefuseType DEF ResetPolicy, FaultsOK,
    Steps, budget
<1>19. CASE QueryPackage
  BY <1>19, GoesType DEF QueryPackage, FaultsOK, Steps, budget
<1>20. CASE RemovePackage
  BY <1>20, GoesType, ThenType, AcceptType, LateType, RefuseType DEF RemovePackage, FaultsOK,
    Steps, budget
<1>21. CASE CheckAbsence
  BY <1>21, GoesType, ThenType, AcceptType, LateType, RefuseType DEF CheckAbsence, FaultsOK,
    Steps, budget
<1>22. CASE RemoveRows
  BY <1>22, GoesType, ThenType, AcceptType, LateType, RefuseType DEF RemoveRows, FaultsOK, Steps,
    budget
<1>23. CASE RemoveCheckout
  BY <1>23, GoesType, ThenType, AcceptType, LateType, RefuseType DEF RemoveCheckout, FaultsOK,
    Steps, budget
<1>24. CASE PurgeSettings
  BY <1>24, GoesType, ThenType, AcceptType, LateType, RefuseType DEF PurgeSettings, FaultsOK,
    Steps, budget
<1>25. CASE PurgeState
  BY <1>25, GoesType, ThenType, AcceptType, LateType, RefuseType DEF PurgeState, FaultsOK, Steps,
    budget
<1>26. CASE Interrupt
  BY <1>26, LateType DEF Interrupt
<1>27. CASE Toggle
  BY <1>27 DEF Toggle, Others, process, budget, ghosts, ProcessOK, FaultsOK
<1>28. CASE ShellEdited
  BY <1>28 DEF ShellEdited, Others, process, budget, ghosts, ProcessOK, FaultsOK
<1>29. CASE CheckoutEdited
  BY <1>29 DEF CheckoutEdited, Others, process, budget, ghosts, ProcessOK, FaultsOK
<1>30. CASE RowsEdited
  BY <1>30 DEF RowsEdited, Others, process, budget, ghosts, ProcessOK, FaultsOK
<1>31. CASE PolicyWritten
  BY <1>31 DEF PolicyWritten, Others, process, budget, ghosts, ProcessOK, FaultsOK
<1>32. CASE HelperReplaced
  BY <1>32 DEF HelperReplaced, Others, process, budget, ghosts, ProcessOK, FaultsOK
<1>33. CASE ServiceWrites
  BY <1>33 DEF ServiceWrites, Others, process, budget, ghosts, ProcessOK, FaultsOK
<1>34. CASE UNCHANGED vars
  BY <1>34 DEF vars, process, budget, ghosts, ProcessOK, FaultsOK
<1> QED
  BY <1>1, <1>2, <1>3, <1>4, <1>5, <1>6, <1>7, <1>8, <1>9, <1>10, <1>11, <1>12, <1>13, <1>14,
    <1>15, <1>16, <1>17, <1>18, <1>19, <1>20, <1>21, <1>22, <1>23, <1>24, <1>25, <1>26, <1>27,
      <1>28, <1>29, <1>30, <1>31, <1>32, <1>33, <1>34 DEF LifecycleNext, CommandStep, Outside

\* ... and of the machine.
LEMMA MachineStep ==
  ASSUME ProcessOK, MachineOK, FaultsOK, Course, [LifecycleNext]_vars
  PROVE  MachineOK'
<1>1. ASSUME NEW c \in Commands, NEW r \in Releases, Start(c, r)
      PROVE  MachineOK'
  BY <1>1 DEF Start, machine, budget, MachineOK
<1>2. CASE CheckSetup
  BY <1>2, RefuseType DEF CheckSetup, machine, budget, ghosts, MachineOK
<1>3. CASE ReadActivation
  <2>1. /\ contested' \in BOOLEAN
    BY <1>3 DEF ReadActivation, ProcessOK, MachineOK, Course
  <2>2. UNCHANGED <<checkout, listed, readable, intent, rows, helper, policy, data, cache, edits,
    chosen>>
    BY <1>3 DEF ReadActivation, machine, budget
  <2> QED
    BY <2>1, <2>2 DEF MachineOK
<1>4. CASE ReadIntent
  BY <1>4, RefuseType DEF ReadIntent, machine, budget, ghosts, MachineOK
<1>5. CASE SaveIntent
  <2>1. /\ data' \subseteq {"settings", "state"}
       /\ intent' \in [saved : BOOLEAN, names : 1..2] \cup {None}
    BY <1>5 DEF SaveIntent, ProcessOK, MachineOK, Course
  <2>2. UNCHANGED <<checkout, listed, readable, rows, helper, policy, cache, edits, chosen,
    contested>>
    BY <1>5 DEF SaveIntent, machine, budget
  <2> QED
    BY <2>1, <2>2 DEF MachineOK
<1>6. CASE Suspend
  <2>1. /\ listed' \in BOOLEAN
    BY <1>6 DEF Suspend, ProcessOK, MachineOK, Course
  <2>2. UNCHANGED <<checkout, readable, intent, rows, helper, policy, data, cache, edits, chosen,
    contested>>
    BY <1>6 DEF Suspend, machine, budget
  <2> QED
    BY <2>1, <2>2 DEF MachineOK
<1>7. CASE Verify
  BY <1>7, RefuseType DEF Verify, machine, budget, ghosts, MachineOK
<1>8. CASE AddCheckout
  <2>1. CASE Refuse
    BY <2>1, RefuseType
  <2>2. CASE ~Refuse
    <3>1. checkout' \in Trees \cup {"absent", "unusable", "dirty"}
      <4>1. CASE checkout = "absent" /\ command = "setup"
        <5>1. checkout' \in {"branch", "unusable"}
          BY <1>8, <2>2, <4>1, ReleasesAreTrees DEF AddCheckout, Trees
        <5> QED
          BY <5>1 DEF Trees
      <4>2. CASE ~(checkout = "absent" /\ command = "setup")
        <5>1. UNCHANGED checkout
          BY <1>8, <2>2, <4>2 DEF AddCheckout, machine
        <5> QED
          BY <5>1 DEF MachineOK
      <4> QED
        BY <4>1, <4>2
    <3>2. UNCHANGED <<listed, readable, intent, rows, helper, policy, data, cache, edits, chosen,
      contested>>
      BY <1>8, <2>2 DEF AddCheckout, machine, budget
    <3> QED
      BY <3>1, <3>2 DEF MachineOK
  <2> QED
    BY <2>1, <2>2
<1>9. CASE Pin
  <2>1. CASE Refuse
    BY <2>1, RefuseType
  <2>2. CASE ~Refuse
    <3>1. /\ checkout' \in Trees \cup {"absent", "unusable", "dirty"}
      BY <1>9, <2>2 DEF Pin, ProcessOK, MachineOK, Course, Trees
    <3>2. UNCHANGED <<listed, readable, intent, rows, helper, policy, data, cache, edits, chosen,
      contested>>
      BY <1>9, <2>2 DEF Pin, machine, budget
    <3> QED
      BY <3>1, <3>2 DEF MachineOK
  <2> QED
    BY <2>1, <2>2
<1>10. CASE Build
  <2>1. /\ helper' \in Releases \cup {"absent", "stray"}
       /\ cache' \in BOOLEAN
    BY <1>10 DEF Build, ProcessOK, MachineOK, Course
  <2>2. UNCHANGED <<checkout, listed, readable, intent, rows, policy, data, edits, chosen,
    contested>>
    BY <1>10 DEF Build, machine, budget
  <2> QED
    BY <2>1, <2>2 DEF MachineOK
<1>11. CASE CheckComponents
  BY <1>11, RefuseType DEF CheckComponents, machine, budget, ghosts, MachineOK
<1>12. CASE ReconcileRows
  <2>1. CASE Refuse
    BY <2>1, RefuseType
  <2>2. CASE ~Refuse
    <3>1. /\ rows' \in {"absent", "present", "foreign"}
      BY <1>12, <2>2 DEF ReconcileRows, ProcessOK, MachineOK, Course
    <3>2. UNCHANGED <<checkout, listed, readable, intent, helper, policy, data, cache, edits,
      chosen, contested>>
      BY <1>12, <2>2 DEF ReconcileRows, machine, budget
    <3> QED
      BY <3>1, <3>2 DEF MachineOK
  <2> QED
    BY <2>1, <2>2
<1>13. CASE Activate
  <2>1. /\ listed' \in BOOLEAN
       /\ chosen' \in BOOLEAN
       /\ contested' \in BOOLEAN
    BY <1>13 DEF Activate, ProcessOK, MachineOK, Course
  <2>2. UNCHANGED <<checkout, readable, intent, rows, helper, policy, data, cache, edits>>
    BY <1>13 DEF Activate, machine, budget
  <2> QED
    BY <2>1, <2>2 DEF MachineOK
<1>14. CASE RestoreActivation
  <2>1. /\ listed' \in BOOLEAN
    BY <1>14 DEF RestoreActivation, ProcessOK, MachineOK, Course
  <2>2. UNCHANGED <<checkout, readable, intent, rows, helper, policy, data, cache, edits, chosen,
    contested>>
    BY <1>14 DEF RestoreActivation, machine, budget
  <2> QED
    BY <2>1, <2>2 DEF MachineOK
<1>15. CASE ClearIntent
  <2>1. /\ intent' \in [saved : BOOLEAN, names : 1..2] \cup {None}
       /\ chosen' \in BOOLEAN
       /\ contested' \in BOOLEAN
    BY <1>15 DEF ClearIntent, ProcessOK, MachineOK, Course
  <2>2. UNCHANGED <<checkout, listed, readable, rows, helper, policy, data, cache, edits>>
    BY <1>15 DEF ClearIntent, machine, budget
  <2> QED
    BY <2>1, <2>2 DEF MachineOK
<1>16. CASE SwitchOff
  <2>1. /\ listed' \in BOOLEAN
       /\ chosen' \in BOOLEAN
       /\ contested' \in BOOLEAN
    BY <1>16 DEF SwitchOff, ProcessOK, MachineOK, Course
  <2>2. UNCHANGED <<checkout, readable, intent, rows, helper, policy, data, cache, edits>>
    BY <1>16 DEF SwitchOff, machine, budget
  <2> QED
    BY <2>1, <2>2 DEF MachineOK
<1>17. CASE CheckPolicy
  BY <1>17, RefuseType DEF CheckPolicy, machine, budget, ghosts, MachineOK
<1>18. CASE ResetPolicy
  <2>1. CASE Refuse
    BY <2>1, RefuseType
  <2>2. CASE ~Refuse
    <3>1. /\ policy' \in {"absent", "recognized", "foreign"}
      BY <1>18, <2>2 DEF ResetPolicy, ProcessOK, MachineOK, Course
    <3>2. UNCHANGED <<checkout, listed, readable, intent, rows, helper, data, cache, edits,
      chosen, contested>>
      BY <1>18, <2>2 DEF ResetPolicy, machine, budget
    <3> QED
      BY <3>1, <3>2 DEF MachineOK
  <2> QED
    BY <2>1, <2>2
<1>19. CASE QueryPackage
  BY <1>19 DEF QueryPackage, machine, budget, ghosts, MachineOK
<1>20. CASE RemovePackage
  <2>1. CASE Refuse
    BY <2>1, RefuseType
  <2>2. CASE ~Refuse
    <3>1. /\ helper' \in Releases \cup {"absent", "stray"}
         /\ policy' \in {"absent", "recognized", "foreign"}
      BY <1>20, <2>2 DEF RemovePackage, ProcessOK, MachineOK, Course
    <3>2. UNCHANGED <<checkout, listed, readable, intent, rows, data, cache, edits, chosen,
      contested>>
      BY <1>20, <2>2 DEF RemovePackage, machine, budget
    <3> QED
      BY <3>1, <3>2 DEF MachineOK
  <2> QED
    BY <2>1, <2>2
<1>21. CASE CheckAbsence
  BY <1>21, RefuseType DEF CheckAbsence, machine, budget, ghosts, MachineOK
<1>22. CASE RemoveRows
  <2>1. CASE Refuse
    BY <2>1, RefuseType
  <2>2. CASE ~Refuse
    <3>1. /\ rows' \in {"absent", "present", "foreign"}
      BY <1>22, <2>2 DEF RemoveRows, ProcessOK, MachineOK, Course
    <3>2. UNCHANGED <<checkout, listed, readable, intent, helper, policy, data, cache, edits,
      chosen, contested>>
      BY <1>22, <2>2 DEF RemoveRows, machine, budget
    <3> QED
      BY <3>1, <3>2 DEF MachineOK
  <2> QED
    BY <2>1, <2>2
<1>23. CASE RemoveCheckout
  <2>1. /\ checkout' \in Trees \cup {"absent", "unusable", "dirty"}
    BY <1>23 DEF RemoveCheckout, ProcessOK, MachineOK, Course
  <2>2. UNCHANGED <<listed, readable, intent, rows, helper, policy, data, cache, edits, chosen,
    contested>>
    BY <1>23 DEF RemoveCheckout, machine, budget
  <2> QED
    BY <2>1, <2>2 DEF MachineOK
<1>24. CASE PurgeSettings
  <2>1. CASE Refuse
    BY <2>1, RefuseType
  <2>2. CASE ~Refuse
    <3>1. /\ data' \subseteq {"settings", "state"}
      BY <1>24, <2>2 DEF PurgeSettings, ProcessOK, MachineOK, Course
    <3>2. UNCHANGED <<checkout, listed, readable, intent, rows, helper, policy, cache, edits,
      chosen, contested>>
      BY <1>24, <2>2 DEF PurgeSettings, machine, budget
    <3> QED
      BY <3>1, <3>2 DEF MachineOK
  <2> QED
    BY <2>1, <2>2
<1>25. CASE PurgeState
  <2>1. /\ data' \subseteq {"settings", "state"}
       /\ intent' \in [saved : BOOLEAN, names : 1..2] \cup {None}
       /\ chosen' \in BOOLEAN
       /\ contested' \in BOOLEAN
    BY <1>25 DEF PurgeState, ProcessOK, MachineOK, Course
  <2>2. UNCHANGED <<checkout, listed, readable, rows, helper, policy, cache, edits>>
    BY <1>25 DEF PurgeState, machine, budget
  <2> QED
    BY <2>1, <2>2 DEF MachineOK
<1>26. CASE Interrupt
  BY <1>26 DEF Interrupt, machine, MachineOK
<1>27. CASE Toggle
  <2>1. /\ listed' \in BOOLEAN
        /\ chosen' \in BOOLEAN
        /\ contested' \in BOOLEAN
        /\ edits' \in 0..MaxEdits
    BY <1>27, BoundsAssumption DEF Toggle, Others, MachineOK
  <2>2. UNCHANGED <<checkout, readable, intent, rows, helper, policy, data, cache>>
    BY <1>27 DEF Toggle, budget, ghosts
  <2> QED
    BY <2>1, <2>2 DEF MachineOK
<1>28. CASE ShellEdited
  <2>1. /\ readable' \in BOOLEAN
        /\ edits' \in 0..MaxEdits
    BY <1>28, BoundsAssumption DEF ShellEdited, Others, MachineOK
  <2>2. UNCHANGED <<checkout, listed, intent, rows, helper, policy, data, cache, chosen,
    contested>>
    BY <1>28 DEF ShellEdited, budget, ghosts
  <2> QED
    BY <2>1, <2>2 DEF MachineOK
<1>29. CASE CheckoutEdited
  <2>1. /\ checkout' \in Trees \cup {"absent", "unusable", "dirty"}
        /\ edits' \in 0..MaxEdits
    BY <1>29, BoundsAssumption DEF CheckoutEdited, Others, MachineOK, Trees
  <2>2. UNCHANGED <<listed, readable, intent, rows, helper, policy, data, cache, chosen,
    contested>>
    BY <1>29 DEF CheckoutEdited, budget, ghosts
  <2> QED
    BY <2>1, <2>2 DEF MachineOK
<1>30. CASE RowsEdited
  <2>1. /\ rows' \in {"absent", "present", "foreign"}
        /\ edits' \in 0..MaxEdits
    BY <1>30, BoundsAssumption DEF RowsEdited, Others, MachineOK
  <2>2. UNCHANGED <<checkout, listed, readable, intent, helper, policy, data, cache, chosen,
    contested>>
    BY <1>30 DEF RowsEdited, budget, ghosts
  <2> QED
    BY <2>1, <2>2 DEF MachineOK
<1>31. CASE PolicyWritten
  <2>1. /\ policy' \in {"absent", "recognized", "foreign"}
        /\ edits' \in 0..MaxEdits
    BY <1>31, BoundsAssumption DEF PolicyWritten, Others, MachineOK
  <2>2. UNCHANGED <<checkout, listed, readable, intent, rows, helper, data, cache, chosen,
    contested>>
    BY <1>31 DEF PolicyWritten, budget, ghosts
  <2> QED
    BY <2>1, <2>2 DEF MachineOK
<1>32. CASE HelperReplaced
  <2>1. /\ helper' \in Releases \cup {"absent", "stray"}
        /\ edits' \in 0..MaxEdits
    BY <1>32, BoundsAssumption DEF HelperReplaced, Others, MachineOK
  <2>2. UNCHANGED <<checkout, listed, readable, intent, rows, policy, data, cache, chosen,
    contested>>
    BY <1>32 DEF HelperReplaced, budget, ghosts
  <2> QED
    BY <2>1, <2>2 DEF MachineOK
<1>33. CASE ServiceWrites
  <2>1. /\ data' \subseteq {"settings", "state"}
    BY <1>33, BoundsAssumption DEF ServiceWrites, Others, MachineOK
  <2>2. UNCHANGED <<checkout, listed, readable, intent, rows, helper, policy, cache, chosen,
    contested, edits>>
    BY <1>33 DEF ServiceWrites, budget, ghosts
  <2> QED
    BY <2>1, <2>2 DEF MachineOK
<1>34. CASE UNCHANGED vars
  BY <1>34 DEF vars, machine, budget, ghosts, MachineOK
<1> QED
  BY <1>1, <1>2, <1>3, <1>4, <1>5, <1>6, <1>7, <1>8, <1>9, <1>10, <1>11, <1>12, <1>13, <1>14,
    <1>15, <1>16, <1>17, <1>18, <1>19, <1>20, <1>21, <1>22, <1>23, <1>24, <1>25, <1>26, <1>27,
      <1>28, <1>29, <1>30, <1>31, <1>32, <1>33, <1>34 DEF LifecycleNext, CommandStep, Outside

-----------------------------------------------------------------------------
(***************************************************************************)
(* How a command ends.                                                     *)
(***************************************************************************)

Stops == \E r \in {"accepted", "refused"} : Over(r)

\* A command that does not stop goes on.
LEMMA GoesOn ==
  ASSUME ~Stops
  PROVE  /\ ~Refuse /\ ~Accept /\ ~Late
         /\ \A step : Then(step) => Goes(step)
BY DEF Stops, Refuse, Accept, Late, Then

\* Nothing is asked of a machine at rest.
LEMMA AtRest ==
  ASSUME Stops
  PROVE  Course' /\ OnCourse' /\ PackageLast'
<1>1. pc' = "idle" /\ command' = None
  BY DEF Stops, Over
<1> QED
  BY <1>1, NoneAssumption
  DEF Course, OnCourse, InstallOnCourse, RemovalOnCourse, OthersOnCourse, PackageLast,
    PolicyGone, Commands, Installs, Removals

\* A command stays on its course.
LEMMA CourseStep ==
  ASSUME ProcessOK, Course, ~Stops, [LifecycleNext]_vars
  PROVE  Course'
<1>1. ASSUME NEW c \in Commands, NEW r \in Releases, Start(c, r)
      PROVE  Course'
  BY <1>1, NoneAssumption DEF Start, FirstStep, Course, Commands, Installs, Removals
<1>2. CASE CheckSetup
  BY <1>2, GoesOn DEF CheckSetup, Goes, Course, Commands, Installs, Removals
<1>3. CASE ReadActivation
  BY <1>3, GoesOn DEF ReadActivation, Goes, Course, Commands, Installs, Removals
<1>4. CASE ReadIntent
  BY <1>4, GoesOn DEF ReadIntent, Goes, Course, Commands, Installs, Removals
<1>5. CASE SaveIntent
  BY <1>5, GoesOn DEF SaveIntent, Goes, Course, Commands, Installs, Removals
<1>6. CASE Suspend
  BY <1>6, GoesOn DEF Suspend, Goes, Course, Commands, Installs, Removals
<1>7. CASE Verify
  BY <1>7, GoesOn DEF Verify, Goes, Course, Commands, Installs, Removals
<1>8. CASE AddCheckout
  BY <1>8, GoesOn DEF AddCheckout, Goes, Course, Commands, Installs, Removals
<1>9. CASE Pin
  BY <1>9, GoesOn DEF Pin, Goes, Course, Commands, Installs, Removals
<1>10. CASE Build
  BY <1>10, GoesOn DEF Build, Goes, Course, Commands, Installs, Removals
<1>11. CASE CheckComponents
  BY <1>11, GoesOn DEF CheckComponents, Goes, Course, Commands, Installs, Removals
<1>12. CASE ReconcileRows
  BY <1>12, GoesOn DEF ReconcileRows, Goes, Course, Commands, Installs, Removals
<1>13. CASE Activate
  BY <1>13, GoesOn DEF Activate, Goes, Course, Commands, Installs, Removals
<1>14. CASE RestoreActivation
  BY <1>14, GoesOn DEF RestoreActivation, Goes, Course, Commands, Installs, Removals
<1>15. CASE ClearIntent
  BY <1>15, GoesOn DEF ClearIntent, Goes, Course, Commands, Installs, Removals
<1>16. CASE SwitchOff
  BY <1>16, GoesOn DEF SwitchOff, Goes, Course, Commands, Installs, Removals
<1>17. CASE CheckPolicy
  BY <1>17, GoesOn DEF CheckPolicy, Goes, Course, Commands, Installs, Removals
<1>18. CASE ResetPolicy
  BY <1>18, GoesOn DEF ResetPolicy, Goes, Course, Commands, Installs, Removals
<1>19. CASE QueryPackage
  BY <1>19, GoesOn DEF QueryPackage, Goes, Course, Commands, Installs, Removals
<1>20. CASE RemovePackage
  BY <1>20, GoesOn DEF RemovePackage, Goes, Course, Commands, Installs, Removals
<1>21. CASE CheckAbsence
  BY <1>21, GoesOn DEF CheckAbsence, Goes, Course, Commands, Installs, Removals
<1>22. CASE RemoveRows
  BY <1>22, GoesOn DEF RemoveRows, Goes, Course, Commands, Installs, Removals
<1>23. CASE RemoveCheckout
  BY <1>23, GoesOn DEF RemoveCheckout, Goes, Course, Commands, Installs, Removals
<1>24. CASE PurgeSettings
  BY <1>24, GoesOn DEF PurgeSettings, Goes, Course, Commands, Installs, Removals
<1>25. CASE PurgeState
  BY <1>25, GoesOn DEF PurgeState, Goes, Course, Commands, Installs, Removals
<1>26. CASE Interrupt
  BY <1>26, GoesOn DEF Interrupt
<1>27. CASE Toggle
  BY <1>27 DEF Toggle, Others, process, Course, Commands, Installs, Removals
<1>28. CASE ShellEdited
  BY <1>28 DEF ShellEdited, Others, process, Course, Commands, Installs, Removals
<1>29. CASE CheckoutEdited
  BY <1>29 DEF CheckoutEdited, Others, process, Course, Commands, Installs, Removals
<1>30. CASE RowsEdited
  BY <1>30 DEF RowsEdited, Others, process, Course, Commands, Installs, Removals
<1>31. CASE PolicyWritten
  BY <1>31 DEF PolicyWritten, Others, process, Course, Commands, Installs, Removals
<1>32. CASE HelperReplaced
  BY <1>32 DEF HelperReplaced, Others, process, Course, Commands, Installs, Removals
<1>33. CASE ServiceWrites
  BY <1>33 DEF ServiceWrites, Others, process, Course, Commands, Installs, Removals
<1>34. CASE UNCHANGED vars
  BY <1>34 DEF vars, process, Course, Commands, Installs, Removals
<1> QED
  BY <1>1, <1>2, <1>3, <1>4, <1>5, <1>6, <1>7, <1>8, <1>9, <1>10, <1>11, <1>12, <1>13, <1>14,
    <1>15, <1>16, <1>17, <1>18, <1>19, <1>20, <1>21, <1>22, <1>23, <1>24, <1>25, <1>26, <1>27,
      <1>28, <1>29, <1>30, <1>31, <1>32, <1>33, <1>34 DEF LifecycleNext, CommandStep, Outside

\* The policy goes before the package.
LEMMA PackageStep ==
  ASSUME ProcessOK, Course, PackageLast, ~Stops, [LifecycleNext]_vars
  PROVE  PackageLast'
<1>1. ASSUME NEW c \in Commands, NEW r \in Releases, Start(c, r)
      PROVE  PackageLast'
  BY <1>1 DEF Start, FirstStep, PackageLast, PolicyGone, Course, Removals, Installs, machine,
    ghosts
<1>2. CASE CheckSetup
  BY <1>2, GoesOn DEF CheckSetup, Goes, PackageLast, PolicyGone, Course, Removals, Installs,
    machine, ghosts
<1>3. CASE ReadActivation
  BY <1>3, GoesOn DEF ReadActivation, Goes, PackageLast, PolicyGone, Course, Removals, Installs,
    machine, ghosts
<1>4. CASE ReadIntent
  BY <1>4, GoesOn DEF ReadIntent, Goes, PackageLast, PolicyGone, Course, Removals, Installs,
    machine, ghosts
<1>5. CASE SaveIntent
  BY <1>5, GoesOn DEF SaveIntent, Goes, PackageLast, PolicyGone, Course, Removals, Installs,
    machine, ghosts
<1>6. CASE Suspend
  BY <1>6, GoesOn DEF Suspend, Goes, PackageLast, PolicyGone, Course, Removals, Installs,
    machine, ghosts
<1>7. CASE Verify
  BY <1>7, GoesOn DEF Verify, Goes, PackageLast, PolicyGone, Course, Removals, Installs, machine,
    ghosts
<1>8. CASE AddCheckout
  BY <1>8, GoesOn DEF AddCheckout, Goes, PackageLast, PolicyGone, Course, Removals, Installs,
    machine, ghosts
<1>9. CASE Pin
  BY <1>9, GoesOn DEF Pin, Goes, PackageLast, PolicyGone, Course, Removals, Installs, machine,
    ghosts
<1>10. CASE Build
  BY <1>10, GoesOn DEF Build, Goes, PackageLast, PolicyGone, Course, Removals, Installs, machine,
    ghosts
<1>11. CASE CheckComponents
  BY <1>11, GoesOn DEF CheckComponents, Goes, PackageLast, PolicyGone, Course, Removals,
    Installs, machine, ghosts
<1>12. CASE ReconcileRows
  BY <1>12, GoesOn DEF ReconcileRows, Goes, PackageLast, PolicyGone, Course, Removals, Installs,
    machine, ghosts
<1>13. CASE Activate
  BY <1>13, GoesOn DEF Activate, Goes, PackageLast, PolicyGone, Course, Removals, Installs,
    machine, ghosts
<1>14. CASE RestoreActivation
  BY <1>14, GoesOn DEF RestoreActivation, Goes, PackageLast, PolicyGone, Course, Removals,
    Installs, machine, ghosts
<1>15. CASE ClearIntent
  BY <1>15, GoesOn DEF ClearIntent, Goes, PackageLast, PolicyGone, Course, Removals, Installs,
    machine, ghosts
<1>16. CASE SwitchOff
  BY <1>16, GoesOn DEF SwitchOff, Goes, PackageLast, PolicyGone, Course, Removals, Installs,
    machine, ghosts
<1>17. CASE CheckPolicy
  BY <1>17, GoesOn DEF CheckPolicy, Goes, PackageLast, PolicyGone, Course, Removals, Installs,
    machine, ghosts
<1>18. CASE ResetPolicy
  BY <1>18, GoesOn DEF ResetPolicy, Goes, PackageLast, PolicyGone, Course, Removals, Installs,
    machine, ghosts
<1>19. CASE QueryPackage
  BY <1>19, GoesOn DEF QueryPackage, Goes, PackageLast, PolicyGone, Course, Removals, Installs,
    machine, ghosts
<1>20. CASE RemovePackage
  BY <1>20, GoesOn DEF RemovePackage, Goes, PackageLast, PolicyGone, Course, Removals, Installs,
    machine, ghosts
<1>21. CASE CheckAbsence
  BY <1>21, GoesOn DEF CheckAbsence, Goes, PackageLast, PolicyGone, Course, Removals, Installs,
    machine, ghosts
<1>22. CASE RemoveRows
  BY <1>22, GoesOn DEF RemoveRows, Goes, PackageLast, PolicyGone, Course, Removals, Installs,
    machine, ghosts
<1>23. CASE RemoveCheckout
  BY <1>23, GoesOn DEF RemoveCheckout, Goes, PackageLast, PolicyGone, Course, Removals, Installs,
    machine, ghosts
<1>24. CASE PurgeSettings
  BY <1>24, GoesOn DEF PurgeSettings, Goes, PackageLast, PolicyGone, Course, Removals, Installs,
    machine, ghosts
<1>25. CASE PurgeState
  BY <1>25, GoesOn DEF PurgeState, Goes, PackageLast, PolicyGone, Course, Removals, Installs,
    machine, ghosts
<1>26. CASE Interrupt
  BY <1>26, GoesOn DEF Interrupt
<1>27. CASE Toggle
  BY <1>27 DEF Toggle, Others, process, PackageLast, PolicyGone, Course, Removals, Installs,
    machine, ghosts
<1>28. CASE ShellEdited
  BY <1>28 DEF ShellEdited, Others, process, PackageLast, PolicyGone, Course, Removals, Installs,
    machine, ghosts
<1>29. CASE CheckoutEdited
  BY <1>29 DEF CheckoutEdited, Others, process, PackageLast, PolicyGone, Course, Removals,
    Installs, machine, ghosts
<1>30. CASE RowsEdited
  BY <1>30 DEF RowsEdited, Others, process, PackageLast, PolicyGone, Course, Removals, Installs,
    machine, ghosts
<1>31. CASE PolicyWritten
  BY <1>31 DEF PolicyWritten, Others, process, PackageLast, PolicyGone, Course, Removals,
    Installs, machine, ghosts
<1>32. CASE HelperReplaced
  BY <1>32 DEF HelperReplaced, Others, process, PackageLast, PolicyGone, Course, Removals,
    Installs, machine, ghosts
<1>33. CASE ServiceWrites
  BY <1>33 DEF ServiceWrites, Others, process, PackageLast, PolicyGone, Course, Removals,
    Installs, machine, ghosts
<1>34. CASE UNCHANGED vars
  BY <1>34 DEF vars, process, PackageLast, PolicyGone, Course, Removals, Installs, machine, ghosts
<1> QED
  BY <1>1, <1>2, <1>3, <1>4, <1>5, <1>6, <1>7, <1>8, <1>9, <1>10, <1>11, <1>12, <1>13, <1>14,
    <1>15, <1>16, <1>17, <1>18, <1>19, <1>20, <1>21, <1>22, <1>23, <1>24, <1>25, <1>26, <1>27,
      <1>28, <1>29, <1>30, <1>31, <1>32, <1>33, <1>34 DEF LifecycleNext, CommandStep, Outside

\* What others change, a command has not been left alone with.
LEMMA OthersMeddle ==
  ASSUME ProcessOK, Course, Others
  PROVE  OnCourse'
<1>1. CASE pc = "idle"
  <2>1. command' = None
    BY <1>1 DEF Course, Others, process
  <2> QED
    BY <2>1, NoneAssumption
    DEF OnCourse, InstallOnCourse, RemovalOnCourse, OthersOnCourse, Commands, Installs, Removals
<1>2. CASE pc # "idle"
  <2>1. meddled' = TRUE
    BY <1>2 DEF Others
  <2>2. ~Alone'
    BY <2>1 DEF Alone
  <2> QED
    BY <2>2 DEF OnCourse, InstallOnCourse, RemovalOnCourse, OthersOnCourse
<1> QED
  BY <1>1, <1>2

\* An install that nobody stands in the way of stays on its course.
LEMMA InstallStep ==
  ASSUME ProcessOK, MachineOK, Course, InstallOnCourse, ~Stops, [LifecycleNext]_vars
  PROVE  InstallOnCourse'
<1>1. ASSUME NEW c \in Commands, NEW r \in Releases, Start(c, r)
      PROVE  InstallOnCourse'
  BY <1>1 DEF Start, FirstStep, Ready, InstallOnCourse, Alone, Installs, Trees, Course, Removals,
    machine, ghosts, PluginEnabled
<1>2. CASE CheckSetup
  BY <1>2, GoesOn DEF CheckSetup, Goes, InstallOnCourse, Alone, Installs, Trees, Course,
    Removals, machine, ghosts, PluginEnabled
<1>3. CASE ReadActivation
  BY <1>3, GoesOn DEF ReadActivation, Goes, InstallOnCourse, Alone, Installs, Trees, Course,
    Removals, machine, ghosts, PluginEnabled
<1>4. CASE ReadIntent
  BY <1>4, GoesOn DEF ReadIntent, Goes, InstallOnCourse, Alone, Installs, Trees, Course,
    Removals, machine, ghosts, PluginEnabled
<1>5. CASE SaveIntent
  <2>1. /\ pc = "save" /\ command = "update"
        /\ Goes("suspend")
    BY <1>5, GoesOn DEF SaveIntent, Course, Installs, Removals
  <2>2. UNCHANGED <<readable, listed, checkout, rows, helper>>
    BY <1>5, GoesOn DEF SaveIntent, machine
  <2> QED
    BY <2>1, <2>2 DEF Goes, InstallOnCourse, Alone, Installs, Trees, Course, Removals, machine,
      ghosts, PluginEnabled
<1>6. CASE Suspend
  <2>1. /\ pc = "suspend" /\ command = "update"
        /\ Goes("verify")
        /\ current = TRUE => listed' = FALSE
        /\ current # TRUE => listed' = listed
    BY <1>6, GoesOn DEF Suspend, Course, Installs, Removals
  <2>2. UNCHANGED <<readable, checkout, rows, helper>>
    BY <1>6, GoesOn DEF Suspend, machine
  <2> QED
    BY <2>1, <2>2 DEF Goes, InstallOnCourse, Alone, Installs, Trees, Course, Removals, machine,
      ghosts, PluginEnabled
<1>7. CASE Verify
  BY <1>7, GoesOn DEF Verify, Goes, InstallOnCourse, Alone, Installs, Trees, Course, Removals,
    machine, ghosts, PluginEnabled
<1>8. CASE AddCheckout
  BY <1>8, GoesOn DEF AddCheckout, Goes, InstallOnCourse, Alone, Installs, Trees, Course,
    Removals, machine, ghosts, PluginEnabled
<1>9. CASE Pin
  <2>1. /\ pc = "pin"
        /\ Goes("build")
        /\ checkout' = release
    BY <1>9, GoesOn DEF Pin, Course, Installs, Removals
  <2>2. UNCHANGED <<readable, listed, rows, helper>>
    BY <1>9, GoesOn DEF Pin, machine
  <2>3. command \in Installs => release # "absent"
    BY ReleasesAreTrees DEF Course
  <2> QED
    BY <2>1, <2>2, <2>3 DEF Goes, InstallOnCourse, Alone, Installs, Trees, Course, Removals, machine,
      ghosts, PluginEnabled
<1>10. CASE Build
  <2>1. /\ pc = "build"
        /\ Goes("check")
        /\ helper' = release
    BY <1>10, GoesOn DEF Build, Course, Installs, Removals
  <2>2. UNCHANGED <<readable, listed, checkout, rows>>
    BY <1>10, GoesOn DEF Build, machine
  <2> QED
    BY <2>1, <2>2 DEF Goes, InstallOnCourse, Alone, Installs, Trees, Course, Removals, machine,
      ghosts, PluginEnabled
<1>11. CASE CheckComponents
  BY <1>11, GoesOn DEF CheckComponents, Goes, InstallOnCourse, Alone, Installs, Trees, Course,
    Removals, machine, ghosts, PluginEnabled
<1>12. CASE ReconcileRows
  <2>1. /\ pc = "rows" /\ command = "update"
        /\ Goes("enable")
        /\ rows' = "present"
    BY <1>12, GoesOn DEF ReconcileRows, Course, Installs, Removals
  <2>2. UNCHANGED <<readable, listed, checkout, helper>>
    BY <1>12, GoesOn DEF ReconcileRows, machine
  <2> QED
    BY <2>1, <2>2 DEF Goes, InstallOnCourse, Alone, Installs, Trees, Course, Removals, machine,
      ghosts, PluginEnabled
<1>13. CASE Activate
  BY <1>13, GoesOn DEF Activate, Goes, InstallOnCourse, Alone, Installs, Trees, Course, Removals,
    machine, ghosts, PluginEnabled
<1>14. CASE RestoreActivation
  <2>1. /\ pc = "enable" /\ command = "update"
        /\ Goes("clear")
    BY <1>14, GoesOn DEF RestoreActivation, Course, Installs, Removals
  <2>2. UNCHANGED <<readable, checkout, rows, helper>>
    BY <1>14, GoesOn DEF RestoreActivation, machine
  <2> QED
    BY <2>1, <2>2 DEF Goes, InstallOnCourse, Alone, Installs, Trees, Course, Removals, machine,
      ghosts, PluginEnabled
<1>15. CASE ClearIntent
  BY <1>15, GoesOn DEF ClearIntent, Goes, InstallOnCourse, Alone, Installs, Trees, Course,
    Removals, machine, ghosts, PluginEnabled
<1>16. CASE SwitchOff
  BY <1>16, GoesOn DEF SwitchOff, Goes, InstallOnCourse, Alone, Installs, Trees, Course,
    Removals, machine, ghosts, PluginEnabled
<1>17. CASE CheckPolicy
  BY <1>17, GoesOn DEF CheckPolicy, Goes, InstallOnCourse, Alone, Installs, Trees, Course,
    Removals, machine, ghosts, PluginEnabled
<1>18. CASE ResetPolicy
  BY <1>18, GoesOn DEF ResetPolicy, Goes, InstallOnCourse, Alone, Installs, Trees, Course,
    Removals, machine, ghosts, PluginEnabled
<1>19. CASE QueryPackage
  BY <1>19, GoesOn DEF QueryPackage, Goes, InstallOnCourse, Alone, Installs, Trees, Course,
    Removals, machine, ghosts, PluginEnabled
<1>20. CASE RemovePackage
  BY <1>20, GoesOn DEF RemovePackage, Goes, InstallOnCourse, Alone, Installs, Trees, Course,
    Removals, machine, ghosts, PluginEnabled
<1>21. CASE CheckAbsence
  BY <1>21, GoesOn DEF CheckAbsence, Goes, InstallOnCourse, Alone, Installs, Trees, Course,
    Removals, machine, ghosts, PluginEnabled
<1>22. CASE RemoveRows
  BY <1>22, GoesOn DEF RemoveRows, Goes, InstallOnCourse, Alone, Installs, Trees, Course,
    Removals, machine, ghosts, PluginEnabled
<1>23. CASE RemoveCheckout
  BY <1>23, GoesOn DEF RemoveCheckout, Goes, InstallOnCourse, Alone, Installs, Trees, Course,
    Removals, machine, ghosts, PluginEnabled
<1>24. CASE PurgeSettings
  BY <1>24, GoesOn DEF PurgeSettings, Goes, InstallOnCourse, Alone, Installs, Trees, Course,
    Removals, machine, ghosts, PluginEnabled
<1>25. CASE PurgeState
  BY <1>25, GoesOn DEF PurgeState, Goes, InstallOnCourse, Alone, Installs, Trees, Course,
    Removals, machine, ghosts, PluginEnabled
<1>26. CASE Interrupt
  BY <1>26, GoesOn DEF Interrupt
<1>27. CASE Toggle
  BY <1>27, OthersMeddle DEF Toggle, OnCourse
<1>28. CASE ShellEdited
  BY <1>28, OthersMeddle DEF ShellEdited, OnCourse
<1>29. CASE CheckoutEdited
  BY <1>29, OthersMeddle DEF CheckoutEdited, OnCourse
<1>30. CASE RowsEdited
  BY <1>30, OthersMeddle DEF RowsEdited, OnCourse
<1>31. CASE PolicyWritten
  BY <1>31, OthersMeddle DEF PolicyWritten, OnCourse
<1>32. CASE HelperReplaced
  BY <1>32, OthersMeddle DEF HelperReplaced, OnCourse
<1>33. CASE ServiceWrites
  BY <1>33 DEF ServiceWrites, Others, process, InstallOnCourse, Alone, Installs, Trees, Course,
    Removals, machine, ghosts, PluginEnabled
<1>34. CASE UNCHANGED vars
  BY <1>34 DEF vars, process, InstallOnCourse, Alone, Installs, Trees, Course, Removals, machine,
    ghosts, PluginEnabled
<1> QED
  BY <1>1, <1>2, <1>3, <1>4, <1>5, <1>6, <1>7, <1>8, <1>9, <1>10, <1>11, <1>12, <1>13, <1>14,
    <1>15, <1>16, <1>17, <1>18, <1>19, <1>20, <1>21, <1>22, <1>23, <1>24, <1>25, <1>26, <1>27,
      <1>28, <1>29, <1>30, <1>31, <1>32, <1>33, <1>34 DEF LifecycleNext, CommandStep, Outside

\* So does a removal.
LEMMA RemovalStep ==
  ASSUME ProcessOK, MachineOK, Course, RemovalOnCourse, PackageLast, ~Stops, [LifecycleNext]_vars
  PROVE  RemovalOnCourse'
<1>1. ASSUME NEW c \in Commands, NEW r \in Releases, Start(c, r)
      PROVE  RemovalOnCourse'
  BY <1>1 DEF Start, FirstStep, Ready, RemovalOnCourse, MachineOK, Alone, Course, Removals,
    Installs, machine, ghosts, HelperGone, PolicyGone, PackageLast
<1>2. CASE CheckSetup
  BY <1>2, GoesOn DEF CheckSetup, Goes, RemovalOnCourse, MachineOK, Alone, Course, Removals,
    Installs, machine, ghosts, HelperGone, PolicyGone, PackageLast
<1>3. CASE ReadActivation
  BY <1>3, GoesOn DEF ReadActivation, Goes, RemovalOnCourse, MachineOK, Alone, Course, Removals,
    Installs, machine, ghosts, HelperGone, PolicyGone, PackageLast
<1>4. CASE ReadIntent
  BY <1>4, GoesOn DEF ReadIntent, Goes, RemovalOnCourse, MachineOK, Alone, Course, Removals,
    Installs, machine, ghosts, HelperGone, PolicyGone, PackageLast
<1>5. CASE SaveIntent
  BY <1>5, GoesOn DEF SaveIntent, Goes, RemovalOnCourse, MachineOK, Alone, Course, Removals,
    Installs, machine, ghosts, HelperGone, PolicyGone, PackageLast
<1>6. CASE Suspend
  BY <1>6, GoesOn DEF Suspend, Goes, RemovalOnCourse, MachineOK, Alone, Course, Removals,
    Installs, machine, ghosts, HelperGone, PolicyGone, PackageLast
<1>7. CASE Verify
  BY <1>7, GoesOn DEF Verify, Goes, RemovalOnCourse, MachineOK, Alone, Course, Removals,
    Installs, machine, ghosts, HelperGone, PolicyGone, PackageLast
<1>8. CASE AddCheckout
  BY <1>8, GoesOn DEF AddCheckout, Goes, RemovalOnCourse, MachineOK, Alone, Course, Removals,
    Installs, machine, ghosts, HelperGone, PolicyGone, PackageLast
<1>9. CASE Pin
  BY <1>9, GoesOn DEF Pin, Goes, RemovalOnCourse, MachineOK, Alone, Course, Removals, Installs,
    machine, ghosts, HelperGone, PolicyGone, PackageLast
<1>10. CASE Build
  BY <1>10, GoesOn DEF Build, Goes, RemovalOnCourse, MachineOK, Alone, Course, Removals,
    Installs, machine, ghosts, HelperGone, PolicyGone, PackageLast
<1>11. CASE CheckComponents
  BY <1>11, GoesOn DEF CheckComponents, Goes, RemovalOnCourse, MachineOK, Alone, Course,
    Removals, Installs, machine, ghosts, HelperGone, PolicyGone, PackageLast
<1>12. CASE ReconcileRows
  BY <1>12, GoesOn DEF ReconcileRows, Goes, RemovalOnCourse, MachineOK, Alone, Course, Removals,
    Installs, machine, ghosts, HelperGone, PolicyGone, PackageLast
<1>13. CASE Activate
  BY <1>13, GoesOn DEF Activate, Goes, RemovalOnCourse, MachineOK, Alone, Course, Removals,
    Installs, machine, ghosts, HelperGone, PolicyGone, PackageLast
<1>14. CASE RestoreActivation
  BY <1>14, GoesOn DEF RestoreActivation, Goes, RemovalOnCourse, MachineOK, Alone, Course,
    Removals, Installs, machine, ghosts, HelperGone, PolicyGone, PackageLast
<1>15. CASE ClearIntent
  BY <1>15, GoesOn DEF ClearIntent, Goes, RemovalOnCourse, MachineOK, Alone, Course, Removals,
    Installs, machine, ghosts, HelperGone, PolicyGone, PackageLast
<1>16. CASE SwitchOff
  <2>1. CASE command \notin Removals
    <3>1. command' = command
      BY <1>16, GoesOn DEF SwitchOff, Goes
    <3> QED
      BY <2>1, <3>1 DEF RemovalOnCourse
  <2>2. CASE command \in Removals /\ Alone
    <3>1. pc = "off" /\ Goes("policy")
      BY <1>16, <2>2, GoesOn DEF SwitchOff, Removals
    <3>2. UNCHANGED <<policy, helper, rows, checkout, data>>
      BY <1>16 DEF SwitchOff
    <3>3. ~listed'
      <4>1. CASE checkout = "absent"
        BY <1>16, <2>2, <4>1 DEF SwitchOff, RemovalOnCourse
      <4>2. CASE checkout # "absent"
        BY <1>16, <4>2 DEF SwitchOff
      <4> QED
        BY <4>1, <4>2
    <3> QED
      BY <2>2, <3>1, <3>2, <3>3 DEF Goes, RemovalOnCourse, HelperGone
  <2>3. CASE command \in Removals /\ ~Alone
    <3>1. command' = command /\ ~Alone'
      BY <1>16, <2>3, GoesOn DEF SwitchOff, Goes, Alone, Removals
    <3> QED
      BY <3>1 DEF RemovalOnCourse
  <2> QED
    BY <2>1, <2>2, <2>3
<1>17. CASE CheckPolicy
  BY <1>17, GoesOn DEF CheckPolicy, Goes, RemovalOnCourse, MachineOK, Alone, Course, Removals,
    Installs, machine, ghosts, HelperGone, PolicyGone, PackageLast
<1>18. CASE ResetPolicy
  <2>1. /\ pc = "reset"
        /\ Goes("query")
        /\ policy' = "absent"
    BY <1>18, GoesOn DEF ResetPolicy, Course, Installs, Removals
  <2>2. UNCHANGED <<helper, rows, checkout, listed, data>>
    BY <1>18, GoesOn DEF ResetPolicy, machine
  <2> QED
    BY <2>1, <2>2 DEF Goes, RemovalOnCourse, MachineOK, Alone, Course, Removals, Installs,
      machine, ghosts, HelperGone, PolicyGone, PackageLast
<1>19. CASE QueryPackage
  <2>1. /\ pc = "query"
        /\ (Goes("package") /\ helper \in Releases) \/ (Goes("absence") /\ helper \notin Releases)
    BY <1>19, GoesOn DEF QueryPackage, Course, Installs, Removals
  <2>2. UNCHANGED <<policy, helper, rows, checkout, listed, data>>
    BY <1>19, GoesOn DEF QueryPackage, machine
  <2> QED
    BY <2>1, <2>2 DEF Goes, RemovalOnCourse, MachineOK, Alone, Course, Removals, Installs,
      machine, ghosts, HelperGone, PolicyGone, PackageLast
<1>20. CASE RemovePackage
  <2>1. /\ pc = "package"
        /\ Goes("absence")
        /\ helper' = "absent"
        /\ policy' \in {policy, "absent"}
    BY <1>20, GoesOn DEF RemovePackage, Course, Installs, Removals
  <2>2. UNCHANGED <<rows, checkout, listed, data>>
    BY <1>20, GoesOn DEF RemovePackage, machine
  <2> QED
    BY <2>1, <2>2 DEF Goes, RemovalOnCourse, MachineOK, Alone, Course, Removals, Installs,
      machine, ghosts, HelperGone, PolicyGone, PackageLast
<1>21. CASE CheckAbsence
  BY <1>21, GoesOn DEF CheckAbsence, Goes, RemovalOnCourse, MachineOK, Alone, Course, Removals,
    Installs, machine, ghosts, HelperGone, PolicyGone, PackageLast
<1>22. CASE RemoveRows
  <2>1. /\ pc = "unlink"
        /\ Goes("drop")
        /\ rows' = "absent"
    BY <1>22, GoesOn DEF RemoveRows, Course, Installs, Removals
  <2>2. UNCHANGED <<policy, helper, checkout, listed, data>>
    BY <1>22, GoesOn DEF RemoveRows, machine
  <2> QED
    BY <2>1, <2>2 DEF Goes, RemovalOnCourse, MachineOK, Alone, Course, Removals, Installs,
      machine, ghosts, HelperGone, PolicyGone, PackageLast
<1>23. CASE RemoveCheckout
  <2>1. /\ pc = "drop"
        /\ Goes("settings") /\ command = "purge"
        /\ checkout' = "absent"
    BY <1>23, GoesOn DEF RemoveCheckout, Course, Installs, Removals
  <2>2. UNCHANGED <<policy, helper, rows, listed, data>>
    BY <1>23, GoesOn DEF RemoveCheckout, machine
  <2> QED
    BY <2>1, <2>2 DEF Goes, RemovalOnCourse, MachineOK, Alone, Course, Removals, Installs,
      machine, ghosts, HelperGone, PolicyGone, PackageLast
<1>24. CASE PurgeSettings
  <2>1. /\ pc = "settings"
        /\ Goes("state")
        /\ data' = data \ {"settings"}
    BY <1>24, GoesOn DEF PurgeSettings, Course, Installs, Removals
  <2>2. UNCHANGED <<policy, helper, rows, checkout, listed>>
    BY <1>24, GoesOn DEF PurgeSettings, machine
  <2> QED
    BY <2>1, <2>2 DEF Goes, RemovalOnCourse, MachineOK, Alone, Course, Removals, Installs,
      machine, ghosts, HelperGone, PolicyGone, PackageLast
<1>25. CASE PurgeState
  BY <1>25, GoesOn DEF PurgeState, Goes, RemovalOnCourse, MachineOK, Alone, Course, Removals,
    Installs, machine, ghosts, HelperGone, PolicyGone, PackageLast
<1>26. CASE Interrupt
  BY <1>26, GoesOn DEF Interrupt
<1>27. CASE Toggle
  BY <1>27, OthersMeddle DEF Toggle, OnCourse
<1>28. CASE ShellEdited
  BY <1>28, OthersMeddle DEF ShellEdited, OnCourse
<1>29. CASE CheckoutEdited
  BY <1>29, OthersMeddle DEF CheckoutEdited, OnCourse
<1>30. CASE RowsEdited
  BY <1>30, OthersMeddle DEF RowsEdited, OnCourse
<1>31. CASE PolicyWritten
  BY <1>31, OthersMeddle DEF PolicyWritten, OnCourse
<1>32. CASE HelperReplaced
  BY <1>32, OthersMeddle DEF HelperReplaced, OnCourse
<1>33. CASE ServiceWrites
  BY <1>33 DEF ServiceWrites, Others, process, RemovalOnCourse, MachineOK, Alone, Course,
    Removals, Installs, machine, ghosts, HelperGone, PolicyGone, PackageLast
<1>34. CASE UNCHANGED vars
  BY <1>34 DEF vars, process, RemovalOnCourse, MachineOK, Alone, Course, Removals, Installs,
    machine, ghosts, HelperGone, PolicyGone, PackageLast
<1> QED
  BY <1>1, <1>2, <1>3, <1>4, <1>5, <1>6, <1>7, <1>8, <1>9, <1>10, <1>11, <1>12, <1>13, <1>14,
    <1>15, <1>16, <1>17, <1>18, <1>19, <1>20, <1>21, <1>22, <1>23, <1>24, <1>25, <1>26, <1>27,
      <1>28, <1>29, <1>30, <1>31, <1>32, <1>33, <1>34 DEF LifecycleNext, CommandStep, Outside

\* And so do the other commands.
LEMMA OthersStep ==
  ASSUME ProcessOK, MachineOK, Course, OthersOnCourse, ~Stops, [LifecycleNext]_vars
  PROVE  OthersOnCourse'
<1>1. ASSUME NEW c \in Commands, NEW r \in Releases, Start(c, r)
      PROVE  OthersOnCourse'
  BY <1>1 DEF Start, FirstStep, Ready, OthersOnCourse, Alone, Course, Removals, Installs,
    machine, ghosts
<1>2. CASE CheckSetup
  BY <1>2, GoesOn DEF CheckSetup, Goes, OthersOnCourse, Alone, Course, Removals, Installs,
    machine, ghosts
<1>3. CASE ReadActivation
  BY <1>3, GoesOn DEF ReadActivation, Goes, OthersOnCourse, Alone, Course, Removals, Installs,
    machine, ghosts
<1>4. CASE ReadIntent
  BY <1>4, GoesOn DEF ReadIntent, Goes, OthersOnCourse, Alone, Course, Removals, Installs,
    machine, ghosts
<1>5. CASE SaveIntent
  BY <1>5, GoesOn DEF SaveIntent, Goes, OthersOnCourse, Alone, Course, Removals, Installs,
    machine, ghosts
<1>6. CASE Suspend
  BY <1>6, GoesOn DEF Suspend, Goes, OthersOnCourse, Alone, Course, Removals, Installs, machine,
    ghosts
<1>7. CASE Verify
  BY <1>7, GoesOn DEF Verify, Goes, OthersOnCourse, Alone, Course, Removals, Installs, machine,
    ghosts
<1>8. CASE AddCheckout
  BY <1>8, GoesOn DEF AddCheckout, Goes, OthersOnCourse, Alone, Course, Removals, Installs,
    machine, ghosts
<1>9. CASE Pin
  BY <1>9, GoesOn DEF Pin, Goes, OthersOnCourse, Alone, Course, Removals, Installs, machine,
    ghosts
<1>10. CASE Build
  BY <1>10, GoesOn DEF Build, Goes, OthersOnCourse, Alone, Course, Removals, Installs, machine,
    ghosts
<1>11. CASE CheckComponents
  BY <1>11, GoesOn DEF CheckComponents, Goes, OthersOnCourse, Alone, Course, Removals, Installs,
    machine, ghosts
<1>12. CASE ReconcileRows
  BY <1>12, GoesOn DEF ReconcileRows, Goes, OthersOnCourse, Alone, Course, Removals, Installs,
    machine, ghosts
<1>13. CASE Activate
  BY <1>13, GoesOn DEF Activate, Goes, OthersOnCourse, Alone, Course, Removals, Installs,
    machine, ghosts
<1>14. CASE RestoreActivation
  BY <1>14, GoesOn DEF RestoreActivation, Goes, OthersOnCourse, Alone, Course, Removals,
    Installs, machine, ghosts
<1>15. CASE ClearIntent
  BY <1>15, GoesOn DEF ClearIntent, Goes, OthersOnCourse, Alone, Course, Removals, Installs,
    machine, ghosts
<1>16. CASE SwitchOff
  BY <1>16, GoesOn DEF SwitchOff, Goes, OthersOnCourse, Alone, Course, Removals, Installs,
    machine, ghosts
<1>17. CASE CheckPolicy
  BY <1>17, GoesOn DEF CheckPolicy, Goes, OthersOnCourse, Alone, Course, Removals, Installs,
    machine, ghosts
<1>18. CASE ResetPolicy
  BY <1>18, GoesOn DEF ResetPolicy, Goes, OthersOnCourse, Alone, Course, Removals, Installs,
    machine, ghosts
<1>19. CASE QueryPackage
  BY <1>19, GoesOn DEF QueryPackage, Goes, OthersOnCourse, Alone, Course, Removals, Installs,
    machine, ghosts
<1>20. CASE RemovePackage
  BY <1>20, GoesOn DEF RemovePackage, Goes, OthersOnCourse, Alone, Course, Removals, Installs,
    machine, ghosts
<1>21. CASE CheckAbsence
  BY <1>21, GoesOn DEF CheckAbsence, Goes, OthersOnCourse, Alone, Course, Removals, Installs,
    machine, ghosts
<1>22. CASE RemoveRows
  BY <1>22, GoesOn DEF RemoveRows, Goes, OthersOnCourse, Alone, Course, Removals, Installs,
    machine, ghosts
<1>23. CASE RemoveCheckout
  BY <1>23, GoesOn DEF RemoveCheckout, Goes, OthersOnCourse, Alone, Course, Removals, Installs,
    machine, ghosts
<1>24. CASE PurgeSettings
  BY <1>24, GoesOn DEF PurgeSettings, Goes, OthersOnCourse, Alone, Course, Removals, Installs,
    machine, ghosts
<1>25. CASE PurgeState
  BY <1>25, GoesOn DEF PurgeState, Goes, OthersOnCourse, Alone, Course, Removals, Installs,
    machine, ghosts
<1>26. CASE Interrupt
  BY <1>26, GoesOn DEF Interrupt
<1>27. CASE Toggle
  BY <1>27, OthersMeddle DEF Toggle, OnCourse
<1>28. CASE ShellEdited
  BY <1>28, OthersMeddle DEF ShellEdited, OnCourse
<1>29. CASE CheckoutEdited
  BY <1>29, OthersMeddle DEF CheckoutEdited, OnCourse
<1>30. CASE RowsEdited
  BY <1>30, OthersMeddle DEF RowsEdited, OnCourse
<1>31. CASE PolicyWritten
  BY <1>31, OthersMeddle DEF PolicyWritten, OnCourse
<1>32. CASE HelperReplaced
  BY <1>32, OthersMeddle DEF HelperReplaced, OnCourse
<1>33. CASE ServiceWrites
  BY <1>33 DEF ServiceWrites, Others, process, OthersOnCourse, Alone, Course, Removals, Installs,
    machine, ghosts
<1>34. CASE UNCHANGED vars
  BY <1>34 DEF vars, process, OthersOnCourse, Alone, Course, Removals, Installs, machine, ghosts
<1> QED
  BY <1>1, <1>2, <1>3, <1>4, <1>5, <1>6, <1>7, <1>8, <1>9, <1>10, <1>11, <1>12, <1>13, <1>14,
    <1>15, <1>16, <1>17, <1>18, <1>19, <1>20, <1>21, <1>22, <1>23, <1>24, <1>25, <1>26, <1>27,
      <1>28, <1>29, <1>30, <1>31, <1>32, <1>33, <1>34 DEF LifecycleNext, CommandStep, Outside

-----------------------------------------------------------------------------
(***************************************************************************)
(* The operator's choice.                                                  *)
(***************************************************************************)

\* What holds of it whether or not a command runs ...
Resting ==
  /\ intent = None => listed = chosen
  /\ intent # None /\ ~contested => intent.saved = chosen /\ listed \in {chosen, FALSE}

\* ... and while an update does.
Working ==
  /\ command = "update" /\ pc = "save" => intent = None
  /\ command = "update" /\ pc \in Pending => intent # None
  /\ command = "update" /\ ~contested =>
       /\ pc = "intent" /\ intent = None => current \in {chosen, None}
       /\ pc = "save" => before = chosen
       /\ pc \in Pending => before = chosen
       /\ pc = "clear" => listed = chosen

LEMMA ChoiceSplits == ChoiceKept <=> Resting /\ Working
BY DEF ChoiceKept, Resting, Working

\* A saved activation is not taken for none.
LEMMA SavedIsSomething == \A b \in BOOLEAN, n \in 1..2 : [saved |-> b, names |-> n] # None
BY NoneAssumption

\* An update that is at its last steps has one saved, and has what is saved.
LEMMA RestingStep ==
  ASSUME ProcessOK, MachineOK, Course, Resting, Working, [LifecycleNext]_vars
  PROVE  Resting'
<1>1. CASE UNCHANGED <<intent, listed, chosen, contested>>
  BY <1>1 DEF Resting
<1>2. CASE ReadActivation
  <2>1. /\ contested' = (contested /\ intent # None)
        /\ UNCHANGED <<intent, listed, chosen>>
    BY <1>2 DEF ReadActivation, machine
  <2> QED
    BY <2>1 DEF Resting
<1>3. CASE SaveIntent
  <2>1. /\ intent = None /\ listed = chosen
        /\ ~contested => before = chosen
    BY <1>3 DEF SaveIntent, Course, Resting, Working
  <2>2. /\ intent'.saved = before
        /\ intent' # None
        /\ UNCHANGED <<listed, chosen, contested>>
    BY <1>3, SavedIsSomething DEF SaveIntent, ProcessOK
  <2> QED
    BY <2>1, <2>2 DEF Resting
<1>4. CASE Suspend
  <2>1. intent # None
    BY <1>4 DEF Suspend, Course, Working, Pending
  <2>2. listed' \in {listed, FALSE} /\ UNCHANGED <<intent, chosen, contested>>
    BY <1>4 DEF Suspend
  <2> QED
    BY <2>1, <2>2 DEF Resting
<1>5. CASE Activate
  <2>1. /\ listed' = TRUE /\ chosen' = TRUE
        /\ contested' = (contested \/ intent # None)
        /\ UNCHANGED intent
    BY <1>5 DEF Activate
  <2> QED
    BY <2>1 DEF Resting
<1>6. CASE RestoreActivation
  <2>1. /\ intent # None
        /\ ~contested => before = chosen
    BY <1>6 DEF RestoreActivation, Course, Working, Pending
  <2>2. /\ UNCHANGED <<intent, chosen, contested>>
        /\ before => listed' = TRUE
        /\ ~before => listed' = listed
    BY <1>6 DEF RestoreActivation
  <2>3. before \in BOOLEAN
    BY DEF ProcessOK
  <2> QED
    BY <2>1, <2>2, <2>3 DEF Resting
<1>7. CASE ClearIntent \/ PurgeState
  <2>1. intent' = None /\ chosen' = listed /\ listed' = listed
    BY <1>7 DEF ClearIntent, PurgeState
  <2> QED
    BY <2>1 DEF Resting
<1>8. CASE SwitchOff
  <2>1. CASE checkout = "absent"
    BY <1>1, <1>8, <2>1 DEF SwitchOff
  <2>2. CASE checkout # "absent"
    <3>1. /\ listed' = FALSE /\ chosen' = FALSE
          /\ contested' = (contested \/ intent # None)
          /\ UNCHANGED intent
      BY <1>8, <2>2 DEF SwitchOff
    <3> QED
      BY <3>1 DEF Resting
  <2> QED
    BY <2>1, <2>2
<1>9. CASE Toggle
  <2>1. /\ listed' = ~listed /\ chosen' = ~listed
        /\ intent # None => contested'
        /\ UNCHANGED intent
    BY <1>9 DEF Toggle
  <2> QED
    BY <2>1 DEF Resting
<1>10. ASSUME NEW c \in Commands, NEW r \in Releases, Start(c, r)
       PROVE  UNCHANGED <<intent, listed, chosen, contested>>
  BY <1>10 DEF Start, machine
<1>11. CASE CommandStep
  <2>1. \/ UNCHANGED <<intent, listed, chosen, contested>>
        \/ ReadActivation \/ SaveIntent \/ Suspend \/ Activate \/ RestoreActivation
        \/ ClearIntent \/ PurgeState \/ SwitchOff
    BY <1>11 DEF CommandStep, CheckSetup, ReadIntent, Verify, AddCheckout, Pin, Build,
      CheckComponents, ReconcileRows, CheckPolicy, ResetPolicy, QueryPackage, RemovePackage,
      CheckAbsence, RemoveRows, RemoveCheckout, PurgeSettings, Refuse, machine, ghosts
  <2> QED
    BY <1>1, <1>2, <1>3, <1>4, <1>5, <1>6, <1>7, <1>8, <2>1
<1>12. CASE Interrupt \/ Outside \/ UNCHANGED vars
  <2>1. UNCHANGED <<intent, listed, chosen, contested>> \/ Toggle
    BY <1>12 DEF Interrupt, Outside, ShellEdited, CheckoutEdited, RowsEdited, PolicyWritten,
      HelperReplaced, ServiceWrites, vars, machine, ghosts
  <2> QED
    BY <1>1, <1>9, <2>1
<1> QED
  BY <1>1, <1>10, <1>11, <1>12 DEF LifecycleNext

\* An update that runs works towards the choice.
LEMMA WorkingStep ==
  ASSUME ProcessOK, MachineOK, Course, Resting, Working, ~Stops, [LifecycleNext]_vars
  PROVE  Working'
<1>1. ASSUME NEW c \in Commands, NEW r \in Releases, Start(c, r)
      PROVE  Working'
  BY <1>1 DEF Start, FirstStep, Working, Pending, Course, Installs, machine, ghosts
<1>2. CASE CheckSetup
  BY <1>2, GoesOn DEF CheckSetup, Goes, Working, Pending, Course, Installs, machine, ghosts
<1>3. CASE ReadActivation
  <2>1. /\ pc' = "intent" /\ current' \in {listed, None}
        /\ contested' = (contested /\ intent # None)
        /\ UNCHANGED <<intent, listed, chosen>>
    BY <1>3 DEF ReadActivation, PluginEnabled, machine
  <2> QED
    BY <2>1 DEF Working, Resting, Pending
<1>4. CASE ReadIntent
  <2>1. /\ ~(intent = None /\ current = None)
        /\ before' = IF intent = None THEN current ELSE intent.saved
        /\ pc' = IF intent = None THEN "save" ELSE "suspend"
        /\ pc = "intent" /\ command = "update"
        /\ UNCHANGED <<intent, listed, chosen, contested>>
    BY <1>4, GoesOn DEF ReadIntent, Course, machine, ghosts
  <2>2. CASE intent = None
    <3>1. pc' = "save" /\ before' = current /\ current # None
      BY <2>1, <2>2
    <3> QED
      BY <2>1, <2>2, <3>1 DEF Working, Pending
  <2>3. CASE intent # None
    <3>1. pc' = "suspend" /\ before' = intent.saved
      BY <2>1, <2>3
    <3> QED
      BY <2>1, <2>3, <3>1 DEF Working, Resting, Pending
  <2> QED
    BY <2>2, <2>3
<1>5. CASE SaveIntent
  <2>1. /\ pc = "save" /\ command = "update" /\ pc' = "suspend"
        /\ intent' # None
        /\ UNCHANGED <<command, before, chosen, contested>>
    BY <1>5, GoesOn, SavedIsSomething DEF SaveIntent, Goes, Course, ProcessOK
  <2> QED
    BY <2>1 DEF Working, Pending
<1>6. CASE Suspend
  BY <1>6, GoesOn DEF Suspend, Goes, Working, Pending, Course, Installs, machine, ghosts
<1>7. CASE Verify
  BY <1>7, GoesOn DEF Verify, Goes, Working, Pending, Course, Installs, machine, ghosts
<1>8. CASE AddCheckout
  BY <1>8, GoesOn DEF AddCheckout, Goes, Working, Pending, Course, Installs, machine, ghosts
<1>9. CASE Pin
  BY <1>9, GoesOn DEF Pin, Goes, Working, Pending, Course, Installs, machine, ghosts
<1>10. CASE Build
  BY <1>10, GoesOn DEF Build, Goes, Working, Pending, Course, Installs, machine, ghosts
<1>11. CASE CheckComponents
  BY <1>11, GoesOn DEF CheckComponents, Goes, Working, Pending, Course, Installs, machine, ghosts
<1>12. CASE ReconcileRows
  BY <1>12, GoesOn DEF ReconcileRows, Goes, Working, Pending, Course, Installs, machine, ghosts
<1>13. CASE Activate
  BY <1>13, GoesOn DEF Activate, Goes, Working, Pending, Course, Installs, machine, ghosts
<1>14. CASE RestoreActivation
  <2>1. /\ pc = "enable" /\ command = "update" /\ pc' = "clear"
        /\ before => listed' = TRUE
        /\ ~before => listed' = listed
        /\ UNCHANGED <<command, before, intent, chosen, contested>>
    BY <1>14, GoesOn DEF RestoreActivation, Goes
  <2>2. /\ before \in BOOLEAN /\ intent # None
        /\ ~contested => before = chosen /\ listed \in {chosen, FALSE}
    BY <2>1 DEF ProcessOK, Working, Resting, Pending
  <2>3. ~contested => listed' = chosen
    BY <2>1, <2>2
  <2> QED
    BY <2>1, <2>2, <2>3 DEF Working, Pending
<1>15. CASE ClearIntent
  BY <1>15, GoesOn DEF ClearIntent, Goes, Working, Pending, Course, Installs, machine, ghosts
<1>16. CASE SwitchOff
  BY <1>16, GoesOn DEF SwitchOff, Goes, Working, Pending, Course, Installs, machine, ghosts
<1>17. CASE CheckPolicy
  BY <1>17, GoesOn DEF CheckPolicy, Goes, Working, Pending, Course, Installs, machine, ghosts
<1>18. CASE ResetPolicy
  BY <1>18, GoesOn DEF ResetPolicy, Goes, Working, Pending, Course, Installs, machine, ghosts
<1>19. CASE QueryPackage
  BY <1>19, GoesOn DEF QueryPackage, Goes, Working, Pending, Course, Installs, machine, ghosts
<1>20. CASE RemovePackage
  BY <1>20, GoesOn DEF RemovePackage, Goes, Working, Pending, Course, Installs, machine, ghosts
<1>21. CASE CheckAbsence
  BY <1>21, GoesOn DEF CheckAbsence, Goes, Working, Pending, Course, Installs, machine, ghosts
<1>22. CASE RemoveRows
  BY <1>22, GoesOn DEF RemoveRows, Goes, Working, Pending, Course, Installs, machine, ghosts
<1>23. CASE RemoveCheckout
  BY <1>23, GoesOn DEF RemoveCheckout, Goes, Working, Pending, Course, Installs, machine, ghosts
<1>24. CASE PurgeSettings
  BY <1>24, GoesOn DEF PurgeSettings, Goes, Working, Pending, Course, Installs, machine, ghosts
<1>25. CASE PurgeState
  BY <1>25, GoesOn DEF PurgeState, Goes, Working, Pending, Course, Installs, machine, ghosts
<1>26. CASE Interrupt
  BY <1>26, GoesOn DEF Interrupt
<1>27. CASE Toggle
  BY <1>27 DEF Toggle, Others, process, Working, Pending, Course, Installs, machine, ghosts
<1>28. CASE ShellEdited
  BY <1>28 DEF ShellEdited, Others, process, Working, Pending, Course, Installs, machine, ghosts
<1>29. CASE CheckoutEdited
  BY <1>29 DEF CheckoutEdited, Others, process, Working, Pending, Course, Installs, machine,
    ghosts
<1>30. CASE RowsEdited
  BY <1>30 DEF RowsEdited, Others, process, Working, Pending, Course, Installs, machine, ghosts
<1>31. CASE PolicyWritten
  BY <1>31 DEF PolicyWritten, Others, process, Working, Pending, Course, Installs, machine, ghosts
<1>32. CASE HelperReplaced
  BY <1>32 DEF HelperReplaced, Others, process, Working, Pending, Course, Installs, machine,
    ghosts
<1>33. CASE ServiceWrites
  BY <1>33 DEF ServiceWrites, Others, process, Working, Pending, Course, Installs, machine, ghosts
<1>34. CASE UNCHANGED vars
  BY <1>34 DEF vars, process, Working, Pending, Course, Installs, machine, ghosts
<1> QED
  BY <1>1, <1>2, <1>3, <1>4, <1>5, <1>6, <1>7, <1>8, <1>9, <1>10, <1>11, <1>12, <1>13, <1>14,
    <1>15, <1>16, <1>17, <1>18, <1>19, <1>20, <1>21, <1>22, <1>23, <1>24, <1>25, <1>26, <1>27,
      <1>28, <1>29, <1>30, <1>31, <1>32, <1>33, <1>34 DEF LifecycleNext, CommandStep, Outside

-----------------------------------------------------------------------------
(***************************************************************************)
(* The invariant is inductive.                                             *)
(***************************************************************************)

LEMMA InitKeeps == LifecycleInit => Invariant
<1> SUFFICES ASSUME LifecycleInit  PROVE Invariant
  OBVIOUS
<1>1. LifecycleTypeOK
  <2>1. ProcessOK
    BY DEF LifecycleInit, ProcessOK, Steps
  <2>2. MachineOK /\ FaultsOK
    <3>1. 0 \in 0..MaxFaults /\ 0 \in 0..MaxEdits
      BY BoundsAssumption
    <3> QED
      BY <3>1 DEF LifecycleInit, MachineOK, FaultsOK
  <2> QED
    BY <2>1, <2>2 DEF ProcessOK, MachineOK, FaultsOK, LifecycleTypeOK
<1>2. Course
  BY NoneAssumption DEF LifecycleInit, Course, Commands, Installs
<1>3. ChoiceKept
  BY DEF LifecycleInit, ChoiceKept, Pending
<1>4. PackageLast /\ OnCourse
  BY <1>2 DEF LifecycleInit, PackageLast, PolicyGone, OnCourse, InstallOnCourse,
    RemovalOnCourse, OthersOnCourse, Alone
<1> QED
  BY <1>1, <1>2, <1>3, <1>4 DEF Invariant

LEMMA NextKeeps == Invariant /\ [LifecycleNext]_vars => Invariant'
<1> SUFFICES ASSUME Invariant, [LifecycleNext]_vars  PROVE Invariant'
  OBVIOUS
<1>1. /\ ProcessOK /\ MachineOK /\ FaultsOK /\ Course
      /\ Resting /\ Working /\ PackageLast
      /\ InstallOnCourse /\ RemovalOnCourse /\ OthersOnCourse
  BY TypeSplits, ChoiceSplits DEF Invariant, OnCourse
<1>2. LifecycleTypeOK'
  <2>1. ProcessOK' /\ MachineOK' /\ FaultsOK'
    BY <1>1, ProcessStep, MachineStep
  <2> QED
    BY <2>1 DEF ProcessOK, MachineOK, FaultsOK, LifecycleTypeOK
<1>3. Course' /\ PackageLast' /\ OnCourse'
  <2>1. CASE Stops
    BY <2>1, AtRest
  <2>2. CASE ~Stops
    BY <1>1, <2>2, CourseStep, PackageStep, InstallStep, RemovalStep, OthersStep DEF OnCourse
  <2> QED
    BY <2>1, <2>2
<1>4. ChoiceKept'
  <2>1. Resting'
    BY <1>1, RestingStep
  <2>2. Working'
    <3>1. CASE Stops
      <4>1. command' = None
        BY <3>1 DEF Stops, Over
      <4> QED
        BY <4>1, NoneAssumption DEF Working, Commands, Installs
    <3>2. CASE ~Stops
      BY <1>1, <3>2, WorkingStep
    <3> QED
      BY <3>1, <3>2
  <2> QED
    BY <2>1, <2>2 DEF ChoiceKept, Resting, Working
<1> QED
  BY <1>2, <1>3, <1>4 DEF Invariant

LEMMA InvariantHolds == LifecycleSpec => []Invariant
BY InitKeeps, NextKeeps, PTL DEF LifecycleSpec

-----------------------------------------------------------------------------
(***************************************************************************)
(* Who ends a command.                                                     *)
(***************************************************************************)

LEMMA Verdicts ==
  /\ Late => result' = "refused"
  /\ Refuse => result' = "refused"
  /\ \A step : Then(step) => Goes(step) \/ result' = "refused"
  /\ \A step : Goes(step) => command' = command
BY DEF Late, Refuse, Then, Goes, Over

\* The steps with which a command is accepted.
LEMMA Accepting ==
  ASSUME Course, [LifecycleNext]_vars, Ends("accepted")
  PROVE  \/ ReconcileRows /\ command = "setup" /\ rows # "foreign"
         \/ ClearIntent
         \/ Activate
         \/ SwitchOff /\ command = "disable"
         \/ RemoveCheckout /\ command # "purge" /\ checkout' = "absent"
         \/ PurgeState
<1>1. command # None /\ command' = None /\ result' = "accepted"
  BY DEF Ends
<1>2. CASE CommandStep
  BY <1>1, <1>2, Verdicts
  DEF CommandStep, CheckSetup, ReadActivation, ReadIntent, SaveIntent, Suspend, Verify,
    AddCheckout, Pin, Build, CheckComponents, ReconcileRows, RestoreActivation, SwitchOff,
    CheckPolicy, ResetPolicy, QueryPackage, RemovePackage, CheckAbsence, RemoveRows,
    RemoveCheckout, PurgeSettings
<1>3. ASSUME NEW c \in Commands, NEW r \in Releases, Start(c, r)
      PROVE  FALSE
  BY <1>1, <1>3, NoneAssumption DEF Start, Course
<1>4. CASE Interrupt
  BY <1>1, <1>4, Verdicts DEF Interrupt
<1>5. CASE Outside \/ UNCHANGED vars
  BY <1>1, <1>5 DEF Outside, Toggle, ShellEdited, CheckoutEdited, RowsEdited, PolicyWritten,
    HelperReplaced, ServiceWrites, Others, process, vars
<1> QED
  BY <1>2, <1>3, <1>4, <1>5 DEF LifecycleNext

-----------------------------------------------------------------------------
(***************************************************************************)
(* Theorems.                                                               *)
(***************************************************************************)

\* The variables keep their types.
THEOREM LifecycleTypeCorrect == LifecycleSpec => []LifecycleTypeOK
<1>1. Invariant => LifecycleTypeOK
  BY DEF Invariant
<1> QED
  BY <1>1, InvariantHolds, PTL

\* However often an update fails or is killed and is run again, the one that
\* is accepted leaves the plugin as the operator wanted it (update).
THEOREM ChoiceIsRestored == LifecycleSpec => RestoresActivation
<1>1. Invariant /\ [LifecycleNext]_vars =>
        [Ends("accepted") /\ command = "update" /\ ~contested => listed' = chosen]_vars
  <2> SUFFICES ASSUME Invariant, [LifecycleNext]_vars,
                      Ends("accepted"), command = "update", ~contested
               PROVE  listed' = chosen
    OBVIOUS
  <2>1. ClearIntent
    BY Accepting DEF Invariant, Course, Activate, RemoveCheckout, PurgeState, Removals
  <2>2. pc = "clear" /\ listed' = listed
    BY <2>1 DEF ClearIntent
  <2> QED
    BY <2>2 DEF Invariant, ChoiceKept
<1> QED
  BY <1>1, InvariantHolds, PTL DEF LifecycleSpec, RestoresActivation

\* The checkout is never moved under a plugin that is loaded (setup, update).
THEOREM MovesWhileOff == LifecycleSpec => CheckoutMovesWhileOff
<1>1. Invariant => (pc = "pin" /\ Alone => ~listed)
  BY DEF Invariant, Course, OnCourse, InstallOnCourse
<1>2. Invariant /\ [LifecycleNext]_vars =>
        [pc = "pin" /\ checkout' # checkout /\ Alone => ~listed]_vars
  BY <1>1
<1> QED
  BY <1>2, InvariantHolds, PTL DEF LifecycleSpec, CheckoutMovesWhileOff

\* How a setup or update that nobody interfered with leaves the machine.
LEMMA AcceptedEnds ==
  ASSUME Invariant, [LifecycleNext]_vars, Ends("accepted"), command \in Installs, Alone
  PROVE  /\ checkout' = release /\ helper' = release /\ rows' = "present"
         /\ command = "update" => intent' = None
         /\ command = "setup" => ~listed'
<1>1. (ReconcileRows /\ command = "setup" /\ rows # "foreign") \/ ClearIntent
  BY Accepting DEF Invariant, Course, Activate, RemoveCheckout, PurgeState, Removals, Installs
<1>2. InstallOnCourse /\ Course
  BY DEF Invariant, OnCourse
<1>3. CASE ReconcileRows /\ command = "setup" /\ rows # "foreign"
  <2>1. pc = "rows" /\ rows' = "present" /\ UNCHANGED <<checkout, listed, helper>>
    BY <1>3 DEF ReconcileRows
  <2> QED
    BY <1>2, <1>3, <2>1 DEF InstallOnCourse
<1>4. CASE ClearIntent
  <2>1. pc = "clear" /\ intent' = None /\ UNCHANGED <<checkout, listed, helper, rows>>
    BY <1>4 DEF ClearIntent
  <2> QED
    BY <1>2, <2>1 DEF InstallOnCourse, Course
<1> QED
  BY <1>1, <1>3, <1>4

\* An accepted setup or update that nobody interfered with leaves one release,
\* its menu rows and nothing pending, and setup the plugin disabled.
THEOREM AcceptedLeavesWhole == LifecycleSpec => AcceptedIsWhole
<1>1. Invariant /\ [LifecycleNext]_vars =>
        [Ends("accepted") /\ command \in Installs /\ Alone =>
           /\ checkout' = release /\ helper' = release /\ rows' = "present"
           /\ command = "update" => intent' = None
           /\ command = "setup" => ~listed']_vars
  BY AcceptedEnds
<1> QED
  BY <1>1, InvariantHolds, PTL DEF LifecycleSpec, AcceptedIsWhole

\* Every answer that is known counts, and one that is not known makes the
\* observation missing.
LEMMA CapabilityKnown ==
  ASSUME NEW w \in Worlds
  PROVE  EvaluateCapability(w) # None
           <=> /\ w.block # None /\ w.boot # None
               /\ \A q \in Questions : w.can[q] \in Refusals \cup {"yes"}
<1> DEFINE can == [q \in Questions |-> CallCan(w.can[q])]
           All == w.block # None /\ w.boot # None /\ \A q \in Questions : can[q] # None
<1>1. ASSUME NEW q \in Questions
      PROVE  can[q] # None <=> w.can[q] \in Refusals \cup {"yes"}
  <2>1. can[q] = CallCan(w.can[q])
    OBVIOUS
  <2>2. CASE w.can[q] = "yes"
    <3>1. CallCan(w.can[q]) = "yes"
      BY <2>2 DEF CallCan, Refusals
    <3> QED
      BY <2>1, <2>2, <3>1, AnswersAssumption
  <2>3. CASE w.can[q] \in Refusals
    <3>1. CallCan(w.can[q]) = "no"
      BY <2>3 DEF CallCan, Refusals
    <3> QED
      BY <2>1, <2>3, <3>1, AnswersAssumption
  <2>4. CASE w.can[q] \notin Refusals \cup {"yes"}
    <3>1. CallCan(w.can[q]) = None
      BY <2>4 DEF CallCan
    <3> QED
      BY <2>1, <2>4, <3>1
  <2> QED
    BY <2>2, <2>3, <2>4
<1>2. None # [can |-> can, block |-> w.block, boot |-> w.boot]
  BY AnswersAssumption
<1>3. EvaluateCapability(w) = IF All THEN [can |-> can, block |-> w.block, boot |-> w.boot]
                                     ELSE None
  BY DEF EvaluateCapability
<1> HIDE DEF can
<1>4. EvaluateCapability(w) # None <=> All
  BY <1>2, <1>3
<1> QED
  BY <1>1, <1>4

\* What a whole release that is in place contributes to the contract holds;
\* the rest is the activation and the world's.
LEMMA ContractOfRelease ==
  ASSUME NEW w, NEW enabled, NEW wants, NEW answer,
         wants # None, HelperHasProtocol(answer, wants)
  PROVE  /\ EvaluateContract(w, enabled, wants, answer).majorVersion = w.version
         /\ EvaluateContract(w, enabled, wants, answer).compatible
              <=> w.shell /\ enabled /\ w.features /\ EvaluateCapability(w) # None
<1> DEFINE noted == Observations(w, enabled, wants, answer)
<1>1. noted["shellReady"] <=> w.shell
  BY DEF Observations, RequiredContracts
<1>2. noted["pluginActivation"] <=> w.shell /\ enabled
  BY DEF Observations, RequiredContracts
<1>3. \A c \in {"pluginDiscovery", "ipcFeatures", "idleMonitor"} : noted[c] <=> w.features
  BY DEF Observations, RequiredContracts
<1>4. \A c \in {"manifestSchema", "qmlFeatures", "userPolicy", "helperProtocol", "systemPolicy"} :
        noted[c]
  BY DEF Observations, RequiredContracts
<1>5. noted["logind"] <=> EvaluateCapability(w) # None
  BY DEF Observations, RequiredContracts
<1>6. EvaluateContract(w, enabled, wants, answer)
        = [compatible |-> \A c \in RequiredContracts : noted[c], majorVersion |-> w.version]
  BY DEF EvaluateContract
<1> HIDE DEF noted
<1>7. (\A c \in RequiredContracts : noted[c])
        <=> w.shell /\ enabled /\ w.features /\ EvaluateCapability(w) # None
  BY <1>1, <1>2, <1>3, <1>4, <1>5 DEF RequiredContracts
<1> QED
  BY <1>6, <1>7

\* An accepted setup or update that nobody interfered with is called ready
\* exactly if it is enabled and what is not the plugin's is in order.
THEOREM InventoryIsTrue == LifecycleSpec => ReadyIffEnabled
<1>1. ASSUME Invariant, Invariant', [LifecycleNext]_vars,
             Ends("accepted"), command \in Installs, Alone, NEW w \in Worlds
      PROVE  (Inventory(w).live_readiness = "compatible")' <=> listed' /\ InOrder(w)
  <2>1. checkout' = release /\ helper' = release
    BY <1>1, AcceptedEnds
  <2>2. release \in Releases
    BY <1>1 DEF Invariant, Course
  <2>3. Manifest' = Wants[release] /\ Answer' = Speaks[release]
    BY <2>1, <2>2, ReleasesAreTrees DEF Manifest, Answer
  <2>4. Wants[release] # None /\ HelperHasProtocol(Speaks[release], Wants[release])
    BY <2>2, ReleasesAreTrees, ReleasesAreWhole DEF ValidProtocol
  <2>5. HelperProtocol' = "compatible"
    BY <2>1, <2>2, <2>3, <2>4, ReleasesAreTrees DEF HelperProtocol
  <2>6. (Inventory(w).live_readiness = "compatible")' <=> LiveReadiness(w)'
    BY DEF Inventory
  <2>7. LiveReadiness(w)' <=>
          LET contract == EvaluateContract(w, Manifest' # None /\ listed', Manifest', Answer')
          IN /\ w.runtime = "compatible"
             /\ contract.compatible /\ contract.majorVersion = 4
             /\ EvaluateCapability(w) # None
             /\ HelperProtocol' = "compatible"
    BY DEF LiveReadiness
  <2> DEFINE contract == EvaluateContract(w, TRUE /\ listed', Wants[release], Speaks[release])
  <2>8. /\ contract.majorVersion = w.version
        /\ contract.compatible
             <=> w.shell /\ listed' /\ w.features /\ EvaluateCapability(w) # None
    BY <2>4, ContractOfRelease
  <2> QED
    BY <2>3, <2>4, <2>5, <2>6, <2>7, <2>8, CapabilityKnown DEF InOrder
<1>2. Invariant /\ Invariant' /\ [LifecycleNext]_vars =>
        [Ends("accepted") /\ command \in Installs /\ Alone =>
           \A w \in Worlds : (Inventory(w).live_readiness = "compatible")'
                              <=> listed' /\ InOrder(w)]_vars
  BY <1>1
<1> QED
  BY <1>2, InvariantHolds, PTL DEF LifecycleSpec, ReadyIffEnabled

\* An accepted uninstall leaves nothing of the system, an accepted purge no
\* settings and no saved activation either; nothing else removes settings, and
\* the policy goes before the package (uninstall).
THEOREM UninstallLeavesNothing == LifecycleSpec => UninstallIsComplete
<1> DEFINE Left ==
      /\ checkout' = "absent" /\ helper' = "absent"
      /\ policy' = "absent" /\ rows' = "absent" /\ ~listed'
      /\ command = "purge" => data' = {} /\ intent' = None
<1>1. ASSUME Invariant, [LifecycleNext]_vars, Ends("accepted"), command \in Removals, Alone
      PROVE  Left
  <2>1. (RemoveCheckout /\ command # "purge" /\ checkout' = "absent") \/ PurgeState
    BY <1>1, Accepting DEF Invariant, Course, ReconcileRows, ClearIntent, Activate, Removals,
      Installs
  <2>2. RemovalOnCourse /\ PackageLast /\ Course /\ MachineOK /\ ~meddled
    BY <1>1, TypeSplits DEF Invariant, OnCourse, Alone
  <2>3. CASE RemoveCheckout /\ command # "purge" /\ checkout' = "absent"
    <3>1. pc = "drop" /\ UNCHANGED <<listed, rows, helper, policy>>
      BY <2>3 DEF RemoveCheckout
    <3> QED
      BY <1>1, <2>2, <2>3, <3>1 DEF RemovalOnCourse, PackageLast, HelperGone, PolicyGone
  <2>4. CASE PurgeState
    <3>1. /\ pc = "state" /\ UNCHANGED <<checkout, listed, rows, helper, policy>>
          /\ data' = data \ {"state"} /\ intent' = None
      BY <2>4 DEF PurgeState
    <3>2. data' = {}
      BY <1>1, <2>2, <3>1 DEF RemovalOnCourse, MachineOK
    <3> QED
      BY <1>1, <2>2, <3>1, <3>2 DEF RemovalOnCourse, PackageLast, HelperGone, PolicyGone
  <2> QED
    BY <2>1, <2>3, <2>4
<1>2. ASSUME Invariant, [LifecycleNext]_vars, ~(data \subseteq data')
      PROVE  command = "purge"
  <2>1. PurgeSettings \/ PurgeState
    BY <1>2
    DEF LifecycleNext, Start, CommandStep, CheckSetup, ReadActivation, ReadIntent, SaveIntent,
      Suspend, Verify, AddCheckout, Pin, Build, CheckComponents, ReconcileRows, Activate,
      RestoreActivation, ClearIntent, SwitchOff, CheckPolicy, ResetPolicy, QueryPackage,
      RemovePackage, CheckAbsence, RemoveRows, RemoveCheckout, Refuse, Interrupt, Outside,
      Toggle, ShellEdited, CheckoutEdited, RowsEdited, PolicyWritten, HelperReplaced,
      ServiceWrites, vars, machine, Invariant, LifecycleTypeOK
  <2> QED
    BY <1>2, <2>1 DEF PurgeSettings, PurgeState, Invariant, Course
<1>3. Invariant => (pc = "package" /\ policy # "absent" => meddled)
  BY DEF Invariant, Course, PackageLast, PolicyGone
<1>4. Invariant /\ [LifecycleNext]_vars =>
        [/\ Ends("accepted") /\ command \in Removals /\ Alone => Left
         /\ ~(data \subseteq data') => command = "purge"
         /\ pc = "package" /\ helper' # helper /\ policy # "absent" => meddled]_vars
  BY <1>1, <1>2, <1>3
<1> QED
  BY <1>4, InvariantHolds, PTL DEF LifecycleSpec, UninstallIsComplete

\* Whichever earlier commands failed or were killed, and wherever, a command
\* that nobody stands in the way of is refused only if a step of it fails or
\* it finds one of the leftovers that are named; a disable, remove or uninstall
\* only if a step of it fails (uninstall, pinCheckout, readUpdateIntent).
THEOREM RerunAccepted == LifecycleSpec => RerunIsAccepted
<1>1. ASSUME Invariant, [LifecycleNext]_vars, Ends("refused"), Alone, UNCHANGED faults,
             ~Stuck(command)
      PROVE  FALSE
  <2>1. ~Late
    <3>1. faults \in Nat
      BY BoundsAssumption, <1>1 DEF Invariant, LifecycleTypeOK
    <3> QED
      BY <1>1, <3>1 DEF Late
  <2>2. /\ command # None /\ command' = None /\ result' = "refused"
        /\ \A step : Then(step) => Goes(step)
        /\ ~Accept
    BY <1>1, <2>1 DEF Ends, Then, Accept, Over
  <2>3. /\ Course /\ MachineOK /\ InstallOnCourse /\ RemovalOnCourse /\ OthersOnCourse
        /\ PackageLast /\ ~meddled
    BY <1>1, TypeSplits DEF Invariant, OnCourse, Alone
  <2>4. ASSUME NEW r \in Releases, checkout = r, helper = r
        PROVE  Manifest # None /\ HelperProtocol = "compatible"
    <3>1. Manifest = Wants[r] /\ Answer = Speaks[r] /\ helper # "absent"
      BY <2>4, ReleasesAreTrees DEF Manifest, Answer
    <3> QED
      BY <3>1, ReleasesAreTrees, ReleasesAreWhole DEF HelperProtocol, HelperHasProtocol,
        ValidProtocol
  <2>5. CASE CheckSetup
    <3>1. readable /\ ~listed
      BY <1>1, <2>3, <2>5 DEF CheckSetup, InstallOnCourse, Installs
    <3>2. PluginEnabled = FALSE
      BY <2>3, <3>1 DEF PluginEnabled, MachineOK
    <3> QED
      BY <2>2, <2>5, <3>2, Verdicts DEF CheckSetup
  <2>6. CASE ReadIntent
    <3>1. pc = "intent" /\ command = "update"
      BY <1>1, <2>3, <2>6 DEF ReadIntent, OthersOnCourse, Course
    <3>2. current \in BOOLEAN
      BY <1>1, <2>3, <3>1 DEF InstallOnCourse, Installs, MachineOK
    <3>3. Examined
      BY <1>1, <3>1 DEF Stuck
    <3>4. ~(~Examined \/ command = "complete-update" \/ (intent = None /\ current = None))
      BY <3>1, <3>2, <3>3, NoneAssumption
    <3>5. UNCHANGED command
      BY <2>6, <3>4 DEF ReadIntent
    <3> QED
      BY <2>2, <3>5
  <2>7. CASE Verify
    BY <1>1, <2>2, <2>3, <2>7, Verdicts DEF Verify, Course, Stuck
  <2>8. CASE AddCheckout
    <3>1. command \in Installs /\ checkout # "unusable" /\ (checkout = "absent" => command = "setup")
      BY <1>1, <2>3, <2>8 DEF AddCheckout, InstallOnCourse, Course, Stuck
    <3> QED
      BY <2>1, <2>2, <2>3, <2>8, <3>1, Verdicts DEF AddCheckout, Trees, MachineOK
  <2>9. CASE Pin
    BY <1>1, <2>1, <2>2, <2>3, <2>9, Verdicts DEF Pin, InstallOnCourse, Course, Stuck
  <2>10. CASE CheckComponents
    <3>1. CASE command \in Installs
      BY <1>1, <2>2, <2>3, <2>4, <2>10, <3>1, Verdicts DEF CheckComponents, InstallOnCourse,
        Course
    <3>2. CASE command = "activate"
      <4>1. Manifest # None
        <5>1. checkout \in DOMAIN Wants
          BY <1>1, <2>3, <3>2, ReleasesAreTrees DEF OthersOnCourse, MachineOK, Trees, Stuck
        <5> QED
          BY <5>1, ReleasesAreWhole DEF Manifest, ValidProtocol
      <4> QED
        BY <2>2, <2>10, <3>2, <4>1, Verdicts DEF CheckComponents, Installs
    <3> QED
      BY <2>3, <2>10, <3>1, <3>2 DEF CheckComponents, Course
  <2>11. CASE ReconcileRows
    BY <1>1, <2>2, <2>3, <2>11, Verdicts DEF ReconcileRows, InstallOnCourse, Course
  <2>12. CASE CheckPolicy \/ ResetPolicy \/ RemovePackage \/ CheckAbsence \/ RemoveRows
    <3>1. command \in Removals
      BY <2>3, <2>12
      DEF CheckPolicy, ResetPolicy, RemovePackage, CheckAbsence, RemoveRows, Course
    <3>2. policy # "foreign" /\ rows # "foreign"
      BY <1>1, <2>3, <3>1 DEF RemovalOnCourse
    <3>3. CASE CheckPolicy
      BY <2>2, <3>2, <3>3, Verdicts DEF CheckPolicy
    <3>4. CASE ResetPolicy
      <4>1. CASE policy = "recognized"
        <5>1. helper \in Releases
          BY <1>1, <2>3, <3>1, <3>4, <4>1 DEF ResetPolicy, RemovalOnCourse
        <5> QED
          BY <2>2, <3>2, <3>4, <5>1, Verdicts DEF ResetPolicy
      <4>2. CASE policy = "absent"
        BY <1>1, <2>3, <3>1, <3>4, <4>2 DEF ResetPolicy, RemovalOnCourse
      <4> QED
        BY <2>3, <3>2, <4>1, <4>2 DEF MachineOK
    <3>5. CASE RemovePackage
      BY <1>1, <2>2, <2>3, <3>1, <3>5, Verdicts DEF RemovePackage, RemovalOnCourse
    <3>6. CASE CheckAbsence
      BY <1>1, <2>2, <2>3, <3>1, <3>6, Verdicts
      DEF CheckAbsence, RemovalOnCourse, PackageLast, PolicyGone, HelperGone
    <3>7. CASE RemoveRows
      BY <2>2, <3>2, <3>7, Verdicts DEF RemoveRows
    <3> QED
      BY <2>12, <3>3, <3>4, <3>5, <3>6, <3>7
  <2>13. CASE PurgeSettings
    BY <1>1, <2>2, <2>3, <2>13, Verdicts DEF PurgeSettings, Course, Stuck
  <2>14. CASE \/ ReadActivation \/ SaveIntent \/ Suspend \/ Build \/ Activate
              \/ RestoreActivation \/ ClearIntent \/ SwitchOff \/ QueryPackage
              \/ RemoveCheckout \/ PurgeState \/ Interrupt
    BY <2>1, <2>2, <2>14, Verdicts
    DEF ReadActivation, SaveIntent, Suspend, Build, Activate, RestoreActivation, ClearIntent,
      SwitchOff, QueryPackage, RemoveCheckout, PurgeState, Interrupt
  <2>15. ASSUME NEW c \in Commands, NEW r \in Releases, Start(c, r)
         PROVE  FALSE
    BY <2>2, <2>15, NoneAssumption DEF Start
  <2>16. CASE Outside \/ UNCHANGED vars
    BY <2>2, <2>16 DEF Outside, Toggle, ShellEdited, CheckoutEdited, RowsEdited, PolicyWritten,
      HelperReplaced, ServiceWrites, Others, process, vars
  <2> QED
    BY <1>1, <2>5, <2>6, <2>7, <2>8, <2>9, <2>10, <2>11, <2>12, <2>13, <2>14, <2>15, <2>16
    DEF LifecycleNext, CommandStep
<1>2. Invariant /\ [LifecycleNext]_vars =>
        [Ends("refused") /\ Alone => faults' # faults \/ Stuck(command)]_vars
  BY <1>1
<1> QED
  BY <1>2, InvariantHolds, PTL DEF LifecycleSpec, RerunIsAccepted

-----------------------------------------------------------------------------
(***************************************************************************)
(* The menu's inductive invariant.  A version names one text: after it has *)
(* been read, a menu of the version that was examined has the text that    *)
(* was read, and after it has been compared it is that menu until somebody *)
(* writes.                                                                 *)
(***************************************************************************)
Kept ==
  /\ phase = "compare" /\ file # Nothing /\ file.version = seen => file.text = source
  /\ phase = "rename" /\ ~late => file # Nothing /\ file.text = source

MenuInv == MenuTypeOK /\ Kept

Places == {"idle", "look", "stat", "read", "compare", "link", "unlink", "rename"}
Outcomes == {"none", "reconciled", "removed", "unchanged", "refused"}

-----------------------------------------------------------------------------
LEMMA InitInvariant == MenuInit => MenuInv
<1> SUFFICES ASSUME MenuInit PROVE MenuInv
  OBVIOUS
<1> USE DEF MenuInit
<1>1. versions = 0 /\ versions \in Nat /\ 0 \in 0..versions
  BY SMT
<1>2. file = Nothing \/ (file.version \in 0..versions /\ file.sole \in BOOLEAN)
  BY <1>1 DEF File
<1>3. MenuTypeOK
  BY <1>1, <1>2 DEF MenuTypeOK
<1>4. Kept
  BY DEF Kept
<1> QED
  BY <1>3, <1>4 DEF MenuInv

\* An operation that ends leaves nothing behind but the menu.
LEMMA EndInvariant ==
  ASSUME MenuTypeOK, NEW r \in Outcomes, End(r),
         versions' \in Nat,
         file' = Nothing \/ (file'.version \in 0..versions' /\ file'.sole \in BOOLEAN)
  PROVE  MenuInv'
<1>1. MenuTypeOK'
  BY DEF MenuTypeOK, End, Outcomes
<1>2. Kept'
  BY DEF Kept, End
<1> QED
  BY <1>1, <1>2 DEF MenuInv

LEMMA DoneInvariant ==
  ASSUME MenuTypeOK, Done \/ End("refused"),
         versions' \in Nat,
         file' = Nothing \/ (file'.version \in 0..versions' /\ file'.sole \in BOOLEAN)
  PROVE  MenuInv'
<1>1. CASE End("refused")
  BY <1>1, EndInvariant DEF Outcomes
<1>2. CASE Done
  <2>1. PICK r \in Outcomes : End(r)
    BY <1>2 DEF Done, Outcomes
  <2> QED
    BY <2>1, EndInvariant
<1> QED
  BY <1>1, <1>2

LEMMA RefuseInvariant == ASSUME MenuTypeOK, Decline PROVE MenuInv'
<1>1. End("refused") /\ file' = file /\ versions' = versions
  BY DEF Decline
<1> QED
  BY <1>1, EndInvariant DEF MenuTypeOK, Outcomes

\* The versions somebody else begins are new.
LEMMA OthersInvariant ==
  ASSUME MenuInv, versions' = versions + 1,
         file' = Nothing \/ (file'.version = versions' /\ file'.sole \in BOOLEAN),
         late' = (phase = "rename"),
         UNCHANGED <<operation, phase, seen, source, next, outcome>>
  PROVE  MenuInv'
<1> USE DEF MenuInv
<1>1. versions' \in Nat /\ versions' \in 0..versions' /\ 0..versions \subseteq 0..versions'
  BY DEF MenuTypeOK
<1>2. file' = Nothing \/ (file'.version \in 0..versions' /\ file'.sole \in BOOLEAN)
  BY <1>1
<1>3. seen' \in 0..versions' \cup {Nothing}
  BY <1>1 DEF MenuTypeOK
<1>4. MenuTypeOK'
  BY <1>1, <1>2, <1>3 DEF MenuTypeOK
<1>5. phase' = "compare" /\ file' # Nothing => file'.version # seen'
  <2>1. phase = "compare" => seen \in 0..versions
    BY DEF MenuTypeOK
  <2>2. versions + 1 \notin 0..versions
    BY DEF MenuTypeOK
  <2> QED
    BY <2>1, <2>2
<1>6. Kept'
  BY <1>5 DEF Kept
<1> QED
  BY <1>4, <1>6

-----------------------------------------------------------------------------
LEMMA StepInvariant == MenuInv /\ [MenuNext]_menuVars => MenuInv'
<1> SUFFICES ASSUME MenuInv, [MenuNext]_menuVars PROVE MenuInv'
  OBVIOUS
<1>t. MenuTypeOK /\ Kept
  BY DEF MenuInv
<1>f. file = Nothing \/ (file.version \in 0..versions /\ file.sole \in BOOLEAN)
  BY <1>t DEF MenuTypeOK
<1>1. CASE \E op \in Operations : Begin(op)
  <2>1. PICK op \in Operations : Begin(op)
    BY <1>1
  <2>2. op # Nothing
    BY <2>1, MenuAssumption
  <2>3. MenuTypeOK'
    BY <1>t, <2>1, <2>2 DEF Begin, MenuTypeOK
  <2>4. Kept'
    BY <2>1 DEF Begin, Kept
  <2> QED
    BY <2>3, <2>4 DEF MenuInv
<1>2. CASE Look
  <2>1. CASE file # Nothing
    <3>1. phase = "look" /\ phase' = "stat"
          /\ UNCHANGED <<file, versions, operation, seen, source, next, outcome, late>>
      BY <1>2, <2>1 DEF Look
    <3> QED
      BY <1>t, <3>1 DEF MenuTypeOK, Kept, MenuInv
  <2>2. CASE file = Nothing /\ End("unchanged") /\ UNCHANGED <<file, versions>>
    BY <1>t, <2>2, EndInvariant DEF MenuTypeOK, Outcomes
  <2>3. CASE /\ phase = "look" /\ phase' = "link"
             /\ UNCHANGED <<file, versions, operation, seen, source, outcome, late>>
    BY <1>t, <2>3 DEF MenuTypeOK, Kept, MenuInv
  <2> QED
    BY <1>2, <2>1, <2>2, <2>3 DEF Look
<1>3. CASE Stat
  <2>1. CASE /\ phase = "stat" /\ file # Nothing /\ seen' = file.version /\ phase' = "read"
             /\ UNCHANGED <<file, versions, operation, source, next, outcome, late>>
    <3>1. seen' \in 0..versions /\ 0..versions \subseteq Nat
      BY <1>f, <2>1
    <3>2. seen' # Nothing
      BY <3>1, MenuAssumption
    <3>3. MenuTypeOK'
      BY <1>t, <2>1, <3>1, <3>2 DEF MenuTypeOK
    <3> QED
      BY <2>1, <3>3 DEF Kept, MenuInv
  <2> QED
    BY <1>3, <1>t, <2>1, RefuseInvariant DEF Stat, ValidMenuPath
<1>4. CASE Read
  <2>1. CASE End("unchanged") /\ UNCHANGED <<file, versions>>
    BY <1>t, <2>1, EndInvariant DEF MenuTypeOK, Outcomes
  <2>2. CASE /\ phase = "read" /\ source' = file.text /\ phase' = "compare"
             /\ UNCHANGED <<file, versions, operation, seen, outcome, late>>
    BY <1>t, <2>2 DEF MenuTypeOK, Kept, MenuInv
  <2>3. Decline \/ (End("unchanged") /\ UNCHANGED <<file, versions>>)
        \/ (/\ phase = "read" /\ source' = file.text /\ phase' = "compare"
            /\ UNCHANGED <<file, versions, operation, seen, outcome, late>>)
    BY <1>4, Zenon DEF Read
  <2> QED
    BY <1>t, <2>1, <2>2, <2>3, RefuseInvariant
<1>5. CASE Compare
  <2>1. CASE /\ phase = "compare" /\ file # Nothing /\ file.version = seen
             /\ phase' = "rename" /\ late' = FALSE
             /\ UNCHANGED <<file, versions, operation, seen, source, next, outcome>>
    BY <1>t, <2>1 DEF MenuTypeOK, Kept, MenuInv
  <2> QED
    BY <1>5, <1>t, <2>1, RefuseInvariant DEF Compare, ValidMenuPath
<1>6. CASE Rename
  <2>1. versions' \in Nat /\ versions' \in 0..versions'
    BY <1>6, <1>t DEF Rename, MenuTypeOK
  <2>2. file'.version \in 0..versions' /\ file'.sole \in BOOLEAN
    BY <1>6, <2>1 DEF Rename, File
  <2> QED
    BY <1>6, <1>t, <2>1, <2>2, DoneInvariant DEF Rename
<1>7. CASE Link
  <2>1. CASE /\ phase = "link" /\ versions' = versions + 1
             /\ file' = File(next, versions', FALSE) /\ phase' = "unlink"
             /\ UNCHANGED <<operation, seen, source, next, outcome, late>>
    <3>1. versions' \in Nat /\ versions' \in 0..versions' /\ 0..versions \subseteq 0..versions'
      BY <2>1, <1>t DEF MenuTypeOK
    <3>2. file'.version \in 0..versions' /\ file'.sole \in BOOLEAN
      BY <2>1, <3>1 DEF File
    <3>3. MenuTypeOK'
      BY <1>t, <2>1, <3>1, <3>2 DEF MenuTypeOK
    <3> QED
      BY <2>1, <3>3 DEF Kept, MenuInv
  <2> QED
    BY <1>7, <1>t, <2>1, RefuseInvariant DEF Link
<1>8. CASE Unlink
  <2>1. file' = Nothing \/ (file'.version \in 0..versions /\ file'.sole \in BOOLEAN)
    BY <1>8, <1>f DEF Unlink, File
  <2> QED
    BY <1>8, <1>t, <2>1, DoneInvariant DEF Unlink, MenuTypeOK
<1>9. CASE Abort
  BY <1>9, <1>t, RefuseInvariant DEF Abort
<1>10. CASE Write
  <2>1. PICK t \in Edits :
          \E s \in (IF file = Nothing THEN {TRUE} ELSE {file.sole, TRUE}) : file' = File(t, versions', s)
    BY <1>10 DEF Write
  <2>2. PICK s \in (IF file = Nothing THEN {TRUE} ELSE {file.sole, TRUE}) : file' = File(t, versions', s)
    BY <2>1
  <2>3. file'.version = versions' /\ file'.sole \in BOOLEAN
    BY <2>2, <1>f DEF File
  <2> QED
    BY <1>10, <2>3, OthersInvariant DEF Write
<1>11. CASE Delete
  BY <1>11, OthersInvariant DEF Delete
<1>12. CASE UNCHANGED menuVars
  BY <1>12, <1>t DEF menuVars, MenuTypeOK, Kept, MenuInv
<1> QED
  BY <1>1, <1>2, <1>3, <1>4, <1>5, <1>6, <1>7, <1>8, <1>9, <1>10, <1>11, <1>12
     DEF MenuNext, MenuStep

LEMMA MenuInvariant == MenuSpec => []MenuInv
<1> QED
  BY InitInvariant, StepInvariant, PTL DEF MenuSpec

-----------------------------------------------------------------------------
\* Every state of every operation on the menu has the type it should have.
THEOREM MenuTypeCorrect == MenuSpec => []MenuTypeOK
<1>1. MenuInv => MenuTypeOK
  BY DEF MenuInv
<1> QED
  BY <1>1, MenuInvariant, PTL

-----------------------------------------------------------------------------
(***************************************************************************)
(* Places in their order.                                                  *)
(***************************************************************************)

\* The places up to one of a set: they are finite in number, more for a later
\* place.
LEMMA RankFacts ==
  ASSUME NEW n \in Nat, NEW S \in SUBSET (1..n)
  PROVE  /\ IsFiniteSet(S) /\ Cardinality(S) \in Nat
         /\ \A i \in S : Rank(S, i) \in 1..Cardinality(S) /\ Rank(S, i) \in Nat
         /\ \A i, j \in S : i < j => Rank(S, i) < Rank(S, j)
<1>1. IsFiniteSet(S) /\ Cardinality(S) \in Nat
  <2>1. IsFiniteSet(1..n)
    BY FS_Interval
  <2>2. IsFiniteSet(S)
    BY <2>1, FS_Subset
  <2> QED
    BY <2>2, FS_CardinalityType
<1>2. ASSUME NEW i \in S PROVE Rank(S, i) \in 1..Cardinality(S)
  <2> DEFINE upto == {j \in S : j <= i}
  <2>1. upto \in SUBSET S /\ i \in upto
    OBVIOUS
  <2>2. IsFiniteSet(upto) /\ Cardinality(upto) <= Cardinality(S)
    BY <1>1, <2>1, FS_Subset
  <2>3. Cardinality(upto) \in Nat /\ Cardinality(upto) # 0
    <3> HIDE DEF upto
    <3>1. upto # {}
      BY <2>1
    <3>2. Cardinality(upto) = 0 <=> upto = {}
      BY <2>2, FS_EmptySet
    <3> QED
      BY <2>2, <3>1, <3>2, FS_CardinalityType
  <2>4. Rank(S, i) = Cardinality(upto)
    BY DEF Rank
  <2> HIDE DEF upto
  <2> QED
    BY <1>1, <2>2, <2>3, <2>4
<1>3. ASSUME NEW i \in S, NEW j \in S, i < j PROVE Rank(S, i) < Rank(S, j)
  <2> DEFINE toI == {k \in S : k <= i}
             toJ == {k \in S : k <= j}
  <2>0. \A k \in S : k \in Nat
    OBVIOUS
  <2>1. toI \in SUBSET toJ /\ j \in toJ /\ j \notin toI
    <3>1. i \in Nat /\ j \in Nat /\ \A k \in S : k <= i => k <= j
      BY <1>3, <2>0
    <3>2. j <= j /\ ~(j <= i)
      BY <1>3, <3>1
    <3> QED
      BY <3>1, <3>2
  <2>2. toJ \in SUBSET S
    OBVIOUS
  <2>3. IsFiniteSet(toJ)
    BY <1>1, <2>2, FS_Subset
  <2>4. IsFiniteSet(toI) /\ Cardinality(toI) <= Cardinality(toJ)
        /\ (Cardinality(toJ) = Cardinality(toI) => toJ = toI)
    BY <2>1, <2>3, FS_Subset
  <2>5. Cardinality(toI) \in Nat /\ Cardinality(toJ) \in Nat
    BY <2>3, <2>4, FS_CardinalityType
  <2>6. toJ # toI
    BY <2>1
  <2>7. Rank(S, i) = Cardinality(toI) /\ Rank(S, j) = Cardinality(toJ)
    BY DEF Rank
  <2> HIDE DEF toI, toJ
  <2> QED
    BY <2>4, <2>5, <2>6, <2>7
<1> QED
  BY <1>1, <1>2, <1>3

\* The places of a set are listed each once, in their order.
LEMMA ListingFacts ==
  ASSUME NEW n \in Nat, NEW S \in SUBSET (1..n)
  PROVE  /\ Cardinality(S) \in Nat
         /\ Listing(S) \in [1..Cardinality(S) -> S]
         /\ \A x \in 1..Cardinality(S) : Rank(S, Listing(S)[x]) = x
         /\ \A x, y \in 1..Cardinality(S) : x < y => Listing(S)[x] < Listing(S)[y]
         /\ \A i \in S : \E x \in 1..Cardinality(S) : Listing(S)[x] = i
<1> DEFINE size == Cardinality(S)
           r == [i \in S |-> Rank(S, i)]
<1>1. /\ IsFiniteSet(S) /\ size \in Nat
      /\ \A i \in S : Rank(S, i) \in 1..size /\ Rank(S, i) \in Nat
      /\ \A i, j \in S : i < j => Rank(S, i) < Rank(S, j)
  BY RankFacts
<1>2. S \in SUBSET Nat
  OBVIOUS
<1>3. \A i, j \in S : Rank(S, i) = Rank(S, j) => i = j
  <2> SUFFICES ASSUME NEW i \in S, NEW j \in S, i # j PROVE Rank(S, i) # Rank(S, j)
    OBVIOUS
  <2>1. i \in Nat /\ j \in Nat
    BY <1>2
  <2>2. i < j \/ j < i
    BY <2>1
  <2>3. Rank(S, i) \in Nat /\ Rank(S, j) \in Nat
    BY <1>1
  <2> QED
    BY <1>1, <2>2, <2>3
<1>4. r \in Injection(S, 1..size)
  BY <1>1, <1>3 DEF Injection, IsInjective
<1>5. IsFiniteSet(1..size) /\ Cardinality(1..size) = size
  BY <1>1, FS_Interval
<1>6. r \in Surjection(S, 1..size)
  BY <1>4, <1>5, FS_Injection
<1>7. \A x \in 1..size : \E i \in S : Rank(S, i) = x
  BY <1>6 DEF Surjection
<1>8. \A x \in 1..size : Listing(S)[x] \in S /\ Rank(S, Listing(S)[x]) = x
  BY <1>7 DEF Listing
<1>9. Listing(S) \in [1..size -> S]
  BY <1>8 DEF Listing
<1>10. ASSUME NEW x \in 1..size, NEW y \in 1..size, x < y
       PROVE  Listing(S)[x] < Listing(S)[y]
  <2> DEFINE a == Listing(S)[x]
             b == Listing(S)[y]
  <2>1. a \in S /\ b \in S /\ Rank(S, a) = x /\ Rank(S, b) = y
    BY <1>8
  <2>2. a \in Nat /\ b \in Nat /\ x \in Nat /\ y \in Nat
    BY <1>1, <1>2, <2>1
  <2> HIDE DEF a, b
  <2>3. ~(b < a) /\ a # b
    BY <1>1, <1>10, <2>1, <2>2
  <2>4. a < b
    BY <2>2, <2>3
  <2> QED
    BY <2>4 DEF a, b
<1>11. \A i \in S : Listing(S)[Rank(S, i)] = i
  BY <1>1, <1>3, <1>8
<1> QED
  BY <1>1, <1>8, <1>9, <1>10, <1>11

\* There is one way to list a set in order.
LEMMA ListingUnique ==
  ASSUME NEW n \in Nat, NEW S \in SUBSET (1..n), NEW m \in Nat, NEW f \in [1..m -> S],
         \A x, y \in 1..m : x < y => f[x] < f[y],
         \A i \in S : \E x \in 1..m : f[x] = i
  PROVE  m = Cardinality(S) /\ f = Listing(S)
<1>0. \A x \in 1..m : f[x] \in S /\ f[x] \in Nat
  <2>1. \A i \in S : i \in Nat
    OBVIOUS
  <2> QED
    BY <2>1
<1>1. \A x, y \in 1..m : f[x] = f[y] => x = y
  <2> SUFFICES ASSUME NEW x \in 1..m, NEW y \in 1..m, x # y PROVE f[x] # f[y]
    OBVIOUS
  <2>1. x < y \/ y < x
    OBVIOUS
  <2>2. f[x] \in Nat /\ f[y] \in Nat
    BY <1>0
  <2> QED
    BY <2>1, <2>2
<1>2. f \in Bijection(1..m, S)
  BY <1>1 DEF Bijection, Injection, Surjection, IsInjective
<1>3. Cardinality(S) = m
  <2>1. ExistsBijection(1..m, S)
    BY <1>2 DEF ExistsBijection
  <2> QED
    BY <2>1, FS_CountingElements
<1>4. ASSUME NEW x \in 1..m PROVE Rank(S, f[x]) = x
  <2> DEFINE upto == {i \in S : i <= f[x]}
             g == [y \in 1..x |-> f[y]]
  <2>1. \A y \in 1..x : y \in 1..m /\ f[y] \in S /\ f[y] <= f[x]
    <3> SUFFICES ASSUME NEW y \in 1..x PROVE y \in 1..m /\ f[y] <= f[x]
      OBVIOUS
    <3>1. y \in 1..m /\ (y < x \/ y = x)
      OBVIOUS
    <3>2. f[y] \in Nat /\ f[x] \in Nat
      BY <1>0, <3>1
    <3> QED
      BY <3>1, <3>2
  <2>2. \A i \in upto : \E y \in 1..x : f[y] = i
    <3> SUFFICES ASSUME NEW i \in upto PROVE \E y \in 1..x : f[y] = i
      OBVIOUS
    <3>1. PICK y \in 1..m : f[y] = i
      OBVIOUS
    <3>2. ~(x < y)
      <4>1. f[y] <= f[x] /\ f[x] \in Nat /\ f[y] \in Nat
        BY <1>0, <3>1
      <4> QED
        BY <4>1
    <3> QED
      BY <3>1, <3>2
  <2>3. g \in Bijection(1..x, upto)
    BY <1>1, <2>1, <2>2 DEF Bijection, Injection, Surjection, IsInjective
  <2>4. ExistsBijection(1..x, upto)
    BY <2>3 DEF ExistsBijection
  <2>5. Cardinality(upto) = x
    BY <2>4, FS_CountingElements
  <2> QED
    BY <2>5 DEF Rank
<1>5. ASSUME NEW x \in 1..m PROVE f[x] = Listing(S)[x]
  <2> DEFINE l == Listing(S)
  <2>1. l \in [1..Cardinality(S) -> S] /\ \A y \in 1..Cardinality(S) : Rank(S, l[y]) = y
    BY ListingFacts
  <2>2. l[x] \in S /\ Rank(S, l[x]) = x
    BY <1>3, <2>1
  <2>3. \A i, j \in S : i < j => Rank(S, i) < Rank(S, j)
    BY RankFacts
  <2>4. (\A i \in S : i \in Nat) /\ x \in Nat
    OBVIOUS
  <2> HIDE DEF l
  <2>5. f[x] \in S /\ Rank(S, f[x]) = x
    BY <1>0, <1>4
  <2>6. f[x] \in Nat /\ l[x] \in Nat /\ x \in Nat
    BY <2>2, <2>4, <2>5
  <2>7. ~(f[x] < l[x]) /\ ~(l[x] < f[x])
    BY <2>2, <2>3, <2>5, <2>6
  <2>8. f[x] = l[x]
    BY <2>6, <2>7
  <2> QED
    BY <2>8 DEF l
<1>6. Listing(S) = [x \in 1..m |-> Listing(S)[x]]
  BY <1>3 DEF Listing
<1>7. f = [x \in 1..m |-> f[x]]
  OBVIOUS
<1> QED
  BY <1>3, <1>5, <1>6, <1>7

\* All places of a text are listed as they are.
LEMMA ListingAll ==
  ASSUME NEW n \in Nat
  PROVE  Cardinality(1..n) = n /\ \A x \in 1..n : Listing(1..n)[x] = x
<1> DEFINE f == [x \in 1..n |-> x]
<1>1. /\ f \in [1..n -> 1..n] /\ 1..n \in SUBSET (1..n)
      /\ \A x, y \in 1..n : x < y => f[x] < f[y]
      /\ \A i \in 1..n : \E x \in 1..n : f[x] = i
  OBVIOUS
<1> HIDE DEF f
<1>2. n = Cardinality(1..n) /\ f = Listing(1..n)
  BY <1>1, ListingUnique
<1> QED
  BY <1>2 DEF f

\* A set of places has a first and a last.
LEMMA FirstAndLast ==
  ASSUME NEW n \in Nat, NEW S \in SUBSET (1..n), S # {}
  PROVE  /\ \E i \in S : \A j \in S : i <= j
         /\ \E i \in S : \A j \in S : j <= i
<1> DEFINE size == Cardinality(S)
<1>1. /\ size \in Nat
      /\ Listing(S) \in [1..size -> S]
      /\ \A x, y \in 1..size : x < y => Listing(S)[x] < Listing(S)[y]
      /\ \A i \in S : \E x \in 1..size : Listing(S)[x] = i
  BY ListingFacts
<1>2. size >= 1
  <2>1. PICK i \in S : TRUE
    OBVIOUS
  <2>2. PICK x \in 1..size : Listing(S)[x] = i
    BY <1>1
  <2> HIDE DEF size
  <2> QED
    BY <1>1, <2>2
<1> HIDE DEF size
<1>3. 1 \in 1..size /\ size \in 1..size
  BY <1>1, <1>2
<1>4. \A x \in 1..size : Listing(S)[x] \in S /\ Listing(S)[x] \in Nat
  <2>1. \A i \in S : i \in Nat
    OBVIOUS
  <2> QED
    BY <1>1, <2>1
<1>5. ASSUME NEW j \in S PROVE Listing(S)[1] <= j /\ j <= Listing(S)[size]
  <2>1. PICK x \in 1..size : Listing(S)[x] = j
    BY <1>1
  <2>2. Listing(S)[1] \in Nat /\ Listing(S)[size] \in Nat /\ j \in Nat
    BY <1>3, <1>4, <2>1
  <2>3. (x = 1 \/ 1 < x) /\ (x = size \/ x < size)
    BY <1>1
  <2> QED
    BY <1>1, <1>3, <2>1, <2>2, <2>3
<1> QED
  BY <1>3, <1>4, <1>5

-----------------------------------------------------------------------------
(***************************************************************************)
(* Pieces and their neighbours.                                            *)
(***************************************************************************)

LEMMA PieceFacts ==
  /\ Comma \notin Rows /\ Comment \notin Rows /\ Comma # Comment
  /\ \A k \in Owned : /\ Current(k) \in Rows /\ Current(k).key = k
                      /\ Current(k) # Comma /\ Current(k) # Comment
                      /\ RecognizedEntry(Current(k))
  /\ Comma.key \notin Owned /\ Comment.key \notin Owned
<1>1. \A r \in Rows : r.value \in {"current", "previous", "modified", "theirs"}
  BY DEF Rows, Row
<1>2. /\ Comma.value = "comma" /\ Comment.value = "comment"
      /\ Comma.key = "none" /\ Comment.key = "none"
  BY DEF Comma, Comment, Row
<1>3. ASSUME NEW k \in Owned
      PROVE  Current(k) \in Rows /\ Current(k).key = k /\ Current(k).value = "current"
  BY DEF Current, Rows, Row
<1>4. \A k \in Owned : Current(k) # Comma /\ Current(k) # Comment /\ RecognizedEntry(Current(k))
  BY <1>2, <1>3 DEF RecognizedEntry
<1>5. "none" \notin Owned
  BY DEF Owned
<1>6. Comma \notin Rows /\ Comment \notin Rows /\ Comma # Comment
  BY <1>1, <1>2
<1> QED
  BY <1>2, <1>3, <1>4, <1>5, <1>6

\* A text and its places.
LEMMA TextFacts ==
  ASSUME NEW t \in Seq(Pieces)
  PROVE  /\ Len(t) \in Nat /\ DOMAIN t = 1..Len(t)
         /\ \A i \in DOMAIN t : t[i] \in Pieces /\ i \in Nat
         /\ Significant(t) \in SUBSET (1..Len(t))
         /\ \A i \in Significant(t) : i \in DOMAIN t /\ i \in Nat
         /\ Properties(t) \in SUBSET Significant(t)
         /\ \A i \in Significant(t) : i \in Properties(t) <=> t[i] \in Rows
         /\ Mine(t) \in SUBSET Properties(t)
<1>1. Len(t) \in Nat /\ DOMAIN t = 1..Len(t) /\ \A i \in DOMAIN t : t[i] \in Pieces /\ i \in Nat
  OBVIOUS
<1>2. Significant(t) \in SUBSET DOMAIN t
  BY DEF Significant
<1>3. Properties(t) \in SUBSET Significant(t)
  BY PieceFacts DEF Properties, Significant
<1> QED
  BY <1>1, <1>2, <1>3 DEF Properties, Mine

\* Before a later piece there is a next one.
LEMMA NextPiece ==
  ASSUME NEW t \in Seq(Pieces), NEW i \in Nat, NEW j \in Significant(t), i < j
  PROVE  \E k \in Significant(t) : k <= j /\ Follows(t, i, k)
<1> DEFINE later == {k \in Significant(t) : i < k}
<1>1. /\ Len(t) \in Nat /\ Significant(t) \in SUBSET (1..Len(t))
      /\ \A k \in Significant(t) : k \in Nat
  BY TextFacts
<1>2. later \in SUBSET (1..Len(t)) /\ later # {}
  BY <1>1
<1>3. PICK k \in later : \A l \in later : k <= l
  <2> HIDE DEF later
  <2> QED
    BY <1>1, <1>2, FirstAndLast
<1>4. k \in Significant(t) /\ i < k /\ k <= j
  BY <1>3
<1>5. \A l \in Significant(t) : l <= i \/ k <= l
  <2> SUFFICES ASSUME NEW l \in Significant(t), ~(l <= i) PROVE k <= l
    OBVIOUS
  <2>1. l \in Nat
    BY <1>1
  <2>2. l \in later
    BY <2>1
  <2> QED
    BY <1>3, <2>2
<1> QED
  BY <1>4, <1>5 DEF Follows

\* After an earlier piece there is a last one.
LEMMA PreviousPiece ==
  ASSUME NEW t \in Seq(Pieces), NEW i \in Significant(t), NEW j \in Nat, i < j
  PROVE  \E k \in Significant(t) : i <= k /\ Follows(t, k, j)
<1> DEFINE earlier == {k \in Significant(t) : k < j}
<1>1. /\ Len(t) \in Nat /\ Significant(t) \in SUBSET (1..Len(t))
      /\ \A k \in Significant(t) : k \in Nat
  BY TextFacts
<1>2. earlier \in SUBSET (1..Len(t)) /\ earlier # {}
  BY <1>1
<1>3. PICK k \in earlier : \A l \in earlier : l <= k
  <2> HIDE DEF earlier
  <2> QED
    BY <1>1, <1>2, FirstAndLast
<1>4. k \in Significant(t) /\ k < j /\ i <= k
  BY <1>3
<1>5. \A l \in Significant(t) : l <= k \/ j <= l
  <2> SUFFICES ASSUME NEW l \in Significant(t), ~(j <= l) PROVE l <= k
    OBVIOUS
  <2>1. l \in Nat
    BY <1>1
  <2>2. l \in earlier
    BY <2>1
  <2> QED
    BY <1>3, <2>2
<1> QED
  BY <1>4, <1>5 DEF Follows

\* A piece follows one other, and one other follows it.
LEMMA OneNeighbour ==
  ASSUME NEW t \in Seq(Pieces), NEW i \in Significant(t), NEW j \in Significant(t),
         NEW k \in Significant(t)
  PROVE  /\ Follows(t, i, k) /\ Follows(t, j, k) => i = j
         /\ Follows(t, i, j) /\ Follows(t, i, k) => j = k
<1>1. i \in Nat /\ j \in Nat /\ k \in Nat
  BY TextFacts
<1> QED
  BY <1>1 DEF Follows

\* In a text that parses, neighbours are a row and a comma.
LEMMA TakeTurns ==
  ASSUME NEW t \in Seq(Pieces), ParseJsonc(t)
  PROVE  /\ \A i \in Significant(t) : t[i] \in Rows <=> t[i] # Comma
         /\ \A i \in Significant(t) :
              (\A j \in Significant(t) : i <= j) => t[i] \in Rows
         /\ \A i, j \in Significant(t) : Follows(t, i, j) => (t[i] = Comma <=> t[j] \in Rows)
BY PieceFacts DEF ParseJsonc

-----------------------------------------------------------------------------
(***************************************************************************)
(* Reconciling.                                                            *)
(***************************************************************************)

\* A comma goes before what is added exactly if the last piece is a row.
LEMMA PrefixFacts ==
  ASSUME NEW t \in Seq(Pieces), ParseJsonc(t)
  PROVE  /\ Significant(t) = {} => Prefix(t) = <<>>
         /\ \A l \in Significant(t) : (\A j \in Significant(t) : j <= l) =>
              Prefix(t) = IF t[l] \in Rows THEN <<Comma>> ELSE <<>>
<1>1. ASSUME Significant(t) = {} PROVE Prefix(t) = <<>>
  BY <1>1, TextFacts DEF Prefix
<1>2. ASSUME NEW l \in Significant(t), \A j \in Significant(t) : j <= l
      PROVE  Prefix(t) = IF t[l] \in Rows THEN <<Comma>> ELSE <<>>
  <2>1. /\ Properties(t) \in SUBSET Significant(t)
        /\ \A i \in Significant(t) : i \in Properties(t) <=> t[i] \in Rows
        /\ \A i \in Significant(t) : i \in Nat
    BY TextFacts
  <2>2. CASE t[l] \in Rows
    <3>1. l \in Properties(t)
      BY <2>1, <2>2
    <3>2. CommaAfter(t, l) = {}
      BY <1>2, <2>1 DEF CommaAfter, Follows
    <3>3. \A i \in Properties(t) : (\A j \in Properties(t) : j <= i) => i = l
      BY <1>2, <2>1, <3>1
    <3>4. ~TrailingComma(t)
      BY <3>2, <3>3 DEF TrailingComma
    <3> QED
      BY <2>2, <3>1, <3>4 DEF Prefix
  <2>3. CASE t[l] \notin Rows
    <3>1. PICK j \in Significant(t) : ~(l <= j)
      BY <2>3, TakeTurns
    <3>2. PICK k \in Significant(t) : j <= k /\ Follows(t, k, l)
      <4>1. j < l /\ l \in Nat
        BY <2>1, <3>1
      <4> QED
        BY <4>1, PreviousPiece
    <3>3. t[k] \in Rows
      BY <2>3, <3>2, TakeTurns
    <3>4. k \in Properties(t) /\ l \in CommaAfter(t, k)
      BY <2>1, <3>2, <3>3 DEF CommaAfter
    <3>5. \A i \in Properties(t) : i <= k
      <4> SUFFICES ASSUME NEW i \in Properties(t) PROVE i <= k
        OBVIOUS
      <4>1. i <= k \/ l <= i
        BY <2>1, <3>2 DEF Follows
      <4>2. i # l /\ i <= l /\ i \in Nat /\ l \in Nat
        BY <1>2, <2>1, <2>3
      <4> QED
        BY <4>1, <4>2
    <3>6. TrailingComma(t)
      BY <3>4, <3>5 DEF TrailingComma
    <3> QED
      BY <2>3, <3>6 DEF Prefix
  <2> QED
    BY <2>2, <2>3
<1> QED
  BY <1>1, <1>2

\* A text with one piece more at its front.
LEMMA OneInFront ==
  ASSUME NEW S, NEW x \in S, NEW w \in Seq(S)
  PROVE  /\ <<x>> \o w \in Seq(S) /\ Len(<<x>> \o w) = Len(w) + 1 /\ (<<x>> \o w)[1] = x
         /\ \A i \in 1..Len(w) : (<<x>> \o w)[i + 1] = w[i]
<1>1. <<x>> \in Seq(S) /\ Len(<<x>>) = 1 /\ <<x>>[1] = x
  OBVIOUS
<1>2. Len(w) \in Nat /\ <<x>> \o w \in Seq(S)
  BY <1>1
<1>3. Len(<<x>> \o w) = Len(w) + 1 /\ (<<x>> \o w)[1] = x
  BY <1>1
<1>4. ASSUME NEW i \in 1..Len(w) PROVE (<<x>> \o w)[i + 1] = w[i]
  BY <1>1
<1> QED
  BY <1>2, <1>3, <1>4

\* What is added: the rows that are missing, each once, between commas.
LEMMA AdditionFacts ==
  ASSUME NEW t \in Seq(Pieces)
  PROVE  /\ Addition(t) \in Seq(Rows \cup {Comma})
         /\ \A x \in 1..Len(Addition(t)) : Addition(t)[x] \in Rows =>
              \E k \in Owned \ KeysOf(t) : Addition(t)[x] = Current(k)
         /\ \A x, y \in 1..Len(Addition(t)) :
              Addition(t)[x] \in Rows /\ Addition(t)[y] = Addition(t)[x] => x = y
         /\ \A k \in Owned \ KeysOf(t) : \E x \in 1..Len(Addition(t)) : Addition(t)[x] = Current(k)
         /\ \A x \in 1..Len(Addition(t)) - 1 :
              Addition(t)[x] = Comma <=> Addition(t)[x + 1] \in Rows
         /\ Addition(t) # <<>> => (Addition(t)[1] = Comma <=> Prefix(t) # <<>>)
         /\ KeysOf(t) \cap Owned = Owned => Addition(t) = <<>>
<1> DEFINE missing == Owned \ KeysOf(t)
           a == Addition(t)
           b == Current("setup")
           c == Current("system")
<1>1. /\ b \in Rows /\ c \in Rows /\ b # Comma /\ c # Comma /\ b # c
      /\ Comma \notin Rows /\ b.key = "setup" /\ c.key = "system"
  BY PieceFacts DEF Owned
<1>2. Prefix(t) = <<>> \/ Prefix(t) = <<Comma>>
  BY DEF Prefix
<1>3. CASE missing = {}
  <2>1. a = <<>>
    <3>1. Owned # {}
      BY DEF Owned
    <3> QED
      BY <1>3, <3>1 DEF Addition
  <2>2. Len(a) = 0 /\ a \in Seq(Rows \cup {Comma})
    BY <2>1
  <2> HIDE DEF a
  <2> QED
    BY <1>3, <2>1, <2>2 DEF a
<1>4. CASE missing = Owned
  <2>1. a = Prefix(t) \o Whole /\ missing # {}
    BY <1>4 DEF Addition, Owned
  <2>2. KeysOf(t) \cap Owned # Owned
    BY <1>4, <2>1
  <2>3. \A k \in missing : k = "setup" \/ k = "system"
    BY <1>4 DEF Owned
  <2>4. "setup" \in missing /\ "system" \in missing
    BY <1>4 DEF Owned
  <2>5. CASE Prefix(t) = <<>>
    <3>1. a = <<b, Comma, c>>
      BY <2>1, <2>5 DEF Whole
    <3> HIDE DEF a, b, c, missing
    <3> QED
      BY <1>1, <2>2, <2>3, <2>4, <2>5, <3>1 DEF a, b, c, missing
  <2>6. CASE Prefix(t) = <<Comma>>
    <3> DEFINE w == <<b, Comma, c>>
    <3>1. w \in Seq(Rows \cup {Comma}) /\ Len(w) = 3 /\ w[1] = b /\ w[2] = Comma /\ w[3] = c
      BY <1>1
    <3>2. a = <<Comma>> \o w
      BY <2>1, <2>6 DEF Whole
    <3> HIDE DEF a, b, c, missing, w
    <3>3. /\ a \in Seq(Rows \cup {Comma}) /\ Len(a) = 4
          /\ a[1] = Comma /\ a[2] = b /\ a[3] = Comma /\ a[4] = c
      <4> DEFINE s == <<Comma>> \o w
                 T == Rows \cup {Comma}
      <4>0. Comma \in T /\ w \in Seq(T)
        BY <3>1
      <4>1. s \in Seq(T) /\ Len(s) = Len(w) + 1 /\ s[1] = Comma /\ \A i \in 1..Len(w) : s[i + 1] = w[i]
        <5> HIDE DEF T
        <5> QED
          BY <4>0, OneInFront
      <4> HIDE DEF s
      <4>2. s[1 + 1] = w[1] /\ s[2 + 1] = w[2] /\ s[3 + 1] = w[3]
        BY <3>1, <4>1
      <4>3. a = s
        BY <3>2 DEF s
      <4> QED
        BY <3>1, <4>1, <4>2, <4>3
    <3> QED
      BY <1>1, <2>2, <2>3, <2>4, <2>6, <3>3 DEF a, b, c, missing
  <2> QED
    BY <1>2, <2>5, <2>6
<1>5. CASE missing # {} /\ missing # Owned
  <2> DEFINE k == CHOOSE k \in missing : TRUE
             d == Current(k)
  <2>1. a = Prefix(t) \o <<d>>
    BY <1>5 DEF Addition
  <2>2. k \in missing /\ \A l \in missing : l = k
    BY <1>5 DEF Owned
  <2>3. d \in Rows /\ d # Comma
    BY <2>2, PieceFacts
  <2>4. KeysOf(t) \cap Owned # Owned
    BY <1>5
  <2> HIDE DEF d, k
  <2>5. CASE Prefix(t) = <<>>
    <3>1. a = <<d>>
      BY <2>1, <2>5
    <3> QED
      BY <1>1, <2>2, <2>3, <2>4, <2>5, <3>1 DEF d
  <2>6. CASE Prefix(t) = <<Comma>>
    <3> DEFINE w == <<d>>
    <3>1. w \in Seq(Rows \cup {Comma}) /\ Len(w) = 1 /\ w[1] = d
      BY <2>3
    <3>2. a = <<Comma>> \o w
      BY <2>1, <2>6
    <3> HIDE DEF a, missing, w
    <3>3. a \in Seq(Rows \cup {Comma}) /\ Len(a) = 2 /\ a[1] = Comma /\ a[2] = d
      BY <3>1, <3>2, OneInFront
    <3> QED
      BY <1>1, <2>2, <2>3, <2>4, <2>6, <3>3 DEF d, a, missing
  <2> QED
    BY <1>2, <2>5, <2>6
<1> QED
  BY <1>3, <1>4, <1>5

\* Replacing rows leaves pieces what they are.
LEMMA ReplacedFacts ==
  ASSUME NEW t \in Seq(Pieces)
  PROVE  /\ Replaced(t) \in Seq(Pieces) /\ Len(Replaced(t)) = Len(t)
         /\ \A i \in DOMAIN t :
              /\ Replaced(t)[i] \in Rows <=> t[i] \in Rows
              /\ Replaced(t)[i] = Comma <=> t[i] = Comma
              /\ Replaced(t)[i] = Comment <=> t[i] = Comment
              /\ i \in Mine(t) => t[i].key \in Owned /\ Replaced(t)[i] = Current(t[i].key)
              /\ i \notin Mine(t) => Replaced(t)[i] = t[i]
<1>1. Len(t) \in Nat /\ DOMAIN t = 1..Len(t) /\ \A i \in DOMAIN t : t[i] \in Pieces
  BY TextFacts
<1>2. \A i \in DOMAIN t :
        Replaced(t)[i] = IF i \in Mine(t) THEN Current(t[i].key) ELSE t[i]
  BY DEF Replaced
<1>3. ASSUME NEW i \in DOMAIN t, i \in Mine(t)
      PROVE  /\ t[i].key \in Owned /\ Replaced(t)[i] = Current(t[i].key)
             /\ t[i] \in Rows /\ Replaced(t)[i] \in Rows
             /\ t[i] # Comma /\ Replaced(t)[i] # Comma
             /\ t[i] # Comment /\ Replaced(t)[i] # Comment
             /\ Replaced(t)[i] \in Pieces
  BY <1>2, <1>3, PieceFacts DEF Mine, Properties, Pieces
<1>4. \A i \in DOMAIN t : Replaced(t)[i] \in Pieces
  BY <1>1, <1>2, <1>3
<1>5. DOMAIN Replaced(t) = 1..Len(t) /\ Replaced(t) = [i \in 1..Len(t) |-> Replaced(t)[i]]
  BY <1>1 DEF Replaced
<1>6. Replaced(t) \in Seq(Pieces)
  BY <1>1, <1>4, <1>5
<1> QED
  BY <1>1, <1>2, <1>3, <1>5, <1>6

\* Where the pieces of the reconciled text are from.
LEMMA ReconciledShape ==
  ASSUME NEW t \in Seq(Pieces)
  PROVE  LET r == Reconciled(t)
             a == Addition(t)
         IN  /\ r \in Seq(Pieces) /\ Len(r) = Len(t) + Len(a) /\ Len(a) \in Nat
             /\ \A i \in DOMAIN t : r[i] = Replaced(t)[i]
             /\ \A x \in 1..Len(a) : r[Len(t) + x] = a[x]
             /\ \A i \in DOMAIN r : i \in DOMAIN t \/ \E x \in 1..Len(a) : i = Len(t) + x
             /\ Significant(t) \in SUBSET Significant(r)
             /\ \A i \in DOMAIN t : i \in Significant(r) => i \in Significant(t)
             /\ \A x \in 1..Len(a) : Len(t) + x \in Significant(r)
<1> DEFINE r == Reconciled(t)
           a == Addition(t)
           p == Replaced(t)
<1>1. /\ p \in Seq(Pieces) /\ Len(p) = Len(t)
      /\ \A i \in DOMAIN t : p[i] = Comment <=> t[i] = Comment
  BY ReplacedFacts
<1>2. a \in Seq(Rows \cup {Comma}) /\ a \in Seq(Pieces)
  BY AdditionFacts DEF Pieces
<1>3. Len(a) \in Nat /\ Len(t) \in Nat /\ DOMAIN t = 1..Len(t)
  BY <1>2
<1>4. r = p \o a
  BY DEF Reconciled
<1> HIDE DEF r, a, p
<1>5. r \in Seq(Pieces) /\ Len(r) = Len(t) + Len(a) /\ DOMAIN r = 1..(Len(t) + Len(a))
  <2>0. p \in Seq(Pieces) /\ a \in Seq(Pieces)
    BY <1>1, <1>2
  <2>1. r \in Seq(Pieces)
    BY <1>4, <2>0
  <2>2. Len(r) = Len(p) + Len(a)
    BY <1>4, <2>0
  <2>3. DOMAIN r = 1..Len(r)
    BY <2>1
  <2> QED
    BY <1>1, <2>1, <2>2, <2>3
<1>6. \A i \in DOMAIN t : r[i] = p[i] /\ i \in DOMAIN r
  BY <1>1, <1>2, <1>3, <1>4
<1>7. \A x \in 1..Len(a) : r[Len(t) + x] = a[x] /\ Len(t) + x \in DOMAIN r
  BY <1>1, <1>2, <1>3, <1>4
<1>8. \A x \in 1..Len(a) : a[x] # Comment
  BY <1>2, PieceFacts
<1>9. \A i \in DOMAIN r : i \in DOMAIN t \/ \E x \in 1..Len(a) : i = Len(t) + x
  <2> SUFFICES ASSUME NEW i \in DOMAIN r, i \notin DOMAIN t PROVE \E x \in 1..Len(a) : i = Len(t) + x
    OBVIOUS
  <2>1. i - Len(t) \in 1..Len(a) /\ i = Len(t) + (i - Len(t))
    BY <1>3, <1>5
  <2> QED
    BY <2>1
<1>10. Significant(t) \in SUBSET Significant(r)
  BY <1>1, <1>6 DEF Significant
<1>11. \A i \in DOMAIN t : i \in Significant(r) => i \in Significant(t)
  BY <1>1, <1>6 DEF Significant
<1>12. \A x \in 1..Len(a) : Len(t) + x \in Significant(r)
  BY <1>7, <1>8 DEF Significant
<1> QED
  BY <1>3, <1>5, <1>6, <1>7, <1>9, <1>10, <1>11, <1>12 DEF r, a, p

\* The reconciled text parses.
LEMMA ReconciledParses ==
  ASSUME NEW t \in Seq(Pieces), ParseJsonc(t)
  PROVE  ParseJsonc(Reconciled(t))
<1> DEFINE r == Reconciled(t)
           a == Addition(t)
           n == Len(t)
           Old(i) == i \in Significant(t)
           New(i) == \E x \in 1..Len(a) : i = n + x
<1>1. /\ n \in Nat /\ Len(a) \in Nat /\ DOMAIN t = 1..n
      /\ \A i \in Significant(t) : i \in DOMAIN t /\ i \in 1..n
  BY TextFacts, ReconciledShape
<1>2. /\ \A i \in DOMAIN t : r[i] = Replaced(t)[i]
      /\ \A x \in 1..Len(a) : r[n + x] = a[x] /\ n + x \in Significant(r)
      /\ Significant(t) \in SUBSET Significant(r)
  BY ReconciledShape
<1>3. \A i \in Significant(r) : i \in Nat /\ (Old(i) \/ New(i))
  <2>1. r \in Seq(Pieces)
    BY ReconciledShape
  <2>2. \A i \in Significant(r) : i \in DOMAIN r /\ i \in Nat
    BY <2>1, TextFacts
  <2> QED
    BY <2>2, ReconciledShape
<1>4. \A i \in Significant(t) : (r[i] \in Rows <=> t[i] \in Rows) /\ (r[i] = Comma <=> t[i] = Comma)
  BY <1>1, <1>2, ReplacedFacts
<1>5. /\ \A x \in 1..Len(a) : a[x] \in Rows \cup {Comma}
      /\ \A x \in 1..Len(a) - 1 : a[x] = Comma <=> a[x + 1] \in Rows
      /\ Len(a) > 0 => (a[1] = Comma <=> Prefix(t) # <<>>)
  <2>1. a \in Seq(Rows \cup {Comma})
    BY AdditionFacts
  <2>2. \A x \in 1..Len(a) : a[x] \in Rows \cup {Comma}
    <3> HIDE DEF a
    <3> QED
      BY <2>1
  <2>3. Len(a) > 0 => a # <<>>
    <3> HIDE DEF a
    <3> QED
      OBVIOUS
  <2> QED
    BY <2>2, <2>3, AdditionFacts
<1>6. /\ \A i \in Significant(t) : t[i] \in Rows \cup {Comma} /\ (t[i] \in Rows <=> t[i] # Comma)
      /\ \A i \in Significant(t) : (\A j \in Significant(t) : i <= j) => t[i] \in Rows
      /\ \A i, j \in Significant(t) : Follows(t, i, j) => (t[i] = Comma <=> t[j] \in Rows)
  BY TakeTurns DEF ParseJsonc
<1>7. /\ Significant(t) = {} => Prefix(t) = <<>>
      /\ \A l \in Significant(t) : (\A j \in Significant(t) : j <= l) =>
           (Prefix(t) # <<>> <=> t[l] \in Rows)
  <2>1. <<Comma>> # <<>>
    OBVIOUS
  <2> QED
    BY <2>1, PrefixFacts
<1>8. Comma \notin Rows
  BY PieceFacts
<1> HIDE DEF r, a, n
<1>9. ASSUME NEW i \in Significant(r) PROVE r[i] \in Rows \cup {Comma}
  <2>1. CASE Old(i)
    BY <1>4, <1>6, <2>1
  <2>2. CASE New(i)
    BY <1>2, <1>5, <2>2
  <2> QED
    BY <1>3, <2>1, <2>2
<1>10. ASSUME NEW i \in Significant(r), \A j \in Significant(r) : i <= j PROVE r[i] \in Rows
  <2>1. CASE Old(i)
    BY <1>2, <1>4, <1>6, <1>10, <2>1
  <2>2. CASE New(i)
    <3>1. PICK x \in 1..Len(a) : i = n + x
      BY <2>2
    <3>2. x = 1 /\ Len(a) > 0
      <4>1. Len(a) > 0 /\ 1 \in 1..Len(a)
        BY <1>1
      <4>2. i <= n + 1
        BY <1>2, <1>10, <4>1
      <4> QED
        BY <1>1, <3>1, <4>1, <4>2
    <3>3. Significant(t) = {}
      <4> SUFFICES ASSUME NEW j \in Significant(t) PROVE FALSE
        OBVIOUS
      <4>1. i <= j
        BY <1>2, <1>10
      <4> QED
        BY <1>1, <3>1, <4>1
    <3>4. a[1] # Comma
      BY <1>5, <1>7, <3>2, <3>3
    <3>5. r[i] = a[1] /\ a[1] \in Rows \cup {Comma}
      BY <1>2, <1>5, <3>1, <3>2
    <3> QED
      BY <3>4, <3>5
  <2> QED
    BY <1>3, <2>1, <2>2
<1>11. ASSUME NEW i \in Significant(r), NEW j \in Significant(r), Follows(r, i, j)
       PROVE  r[i] = Comma <=> r[j] \in Rows
  <2>1. i < j /\ \A k \in Significant(r) : k <= i \/ j <= k
    BY <1>11 DEF Follows
  <2>2. CASE Old(i) /\ Old(j)
    <3>1. Follows(t, i, j)
      BY <1>2, <2>1 DEF Follows
    <3> QED
      BY <1>4, <1>6, <2>2, <3>1
  <2>3. CASE Old(i) /\ New(j)
    <3>1. PICK x \in 1..Len(a) : j = n + x
      BY <2>3
    <3>2. x = 1 /\ Len(a) > 0
      <4>1. Len(a) > 0 /\ 1 \in 1..Len(a)
        BY <1>1
      <4>2. n + 1 <= i \/ j <= n + 1
        BY <1>2, <2>1, <4>1
      <4> QED
        BY <1>1, <2>3, <3>1, <4>1, <4>2
    <3>3. \A k \in Significant(t) : k <= i
      <4> SUFFICES ASSUME NEW k \in Significant(t) PROVE k <= i
        OBVIOUS
      <4>1. k <= i \/ j <= k
        BY <1>2, <2>1
      <4> QED
        BY <1>1, <3>1, <4>1
    <3>4. Prefix(t) # <<>> <=> t[i] \in Rows
      BY <1>7, <2>3, <3>3
    <3>5. r[j] = a[1] /\ a[1] \in Rows \cup {Comma} /\ (a[1] = Comma <=> Prefix(t) # <<>>)
      BY <1>2, <1>5, <3>1, <3>2
    <3>6. (r[i] = Comma <=> t[i] = Comma) /\ (t[i] \in Rows <=> t[i] # Comma)
      BY <1>4, <1>6, <2>3
    <3> QED
      BY <1>8, <3>4, <3>5, <3>6
  <2>4. CASE New(i) /\ Old(j)
    BY <1>1, <2>1, <2>4
  <2>5. CASE New(i) /\ New(j)
    <3>1. PICK x \in 1..Len(a) : i = n + x
      BY <2>5
    <3>2. PICK y \in 1..Len(a) : j = n + y
      BY <2>5
    <3>3. x + 1 \in 1..Len(a)
      BY <1>1, <2>1, <3>1, <3>2
    <3>4. n + (x + 1) \in Significant(r)
      BY <1>2, <3>3
    <3>5. y = x + 1
      BY <1>1, <2>1, <3>1, <3>2, <3>3, <3>4
    <3>6. x \in 1..Len(a) - 1
      BY <1>1, <3>3
    <3> QED
      BY <1>2, <1>5, <3>1, <3>2, <3>5, <3>6
  <2> QED
    BY <1>3, <2>2, <2>3, <2>4, <2>5
<1>12. ParseJsonc(r)
  BY <1>9, <1>10, <1>11 DEF ParseJsonc
<1> QED
  BY <1>12 DEF r

\* Reconciling keeps what is not the plugin's and leaves its rows there, once
\* each and as it writes them.
LEMMA ReconcileIsExact ==
  ASSUME NEW t \in Seq(Pieces), CheckedDocument(t)
  PROVE  LET r == Reconciled(t)
         IN  /\ CheckedDocument(r)
             /\ Only(r, NotOurs(r)) = Only(t, NotOurs(t))
             /\ KeysOf(r) = Owned
             /\ \A i \in Mine(r) : r[i] = Current(r[i].key)
             /\ Reconciled(r) = r
<1> DEFINE r == Reconciled(t)
           a == Addition(t)
           n == Len(t)
<1>1. /\ n \in Nat /\ Len(a) \in Nat /\ DOMAIN t = 1..n /\ r \in Seq(Pieces)
      /\ DOMAIN r = 1..(n + Len(a))
  BY TextFacts, ReconciledShape
<1>2. /\ \A i \in DOMAIN t : r[i] = Replaced(t)[i] /\ i \in DOMAIN r
      /\ \A x \in 1..Len(a) : r[n + x] = a[x] /\ n + x \in DOMAIN r
      /\ \A i \in DOMAIN r : i \in DOMAIN t \/ \E x \in 1..Len(a) : i = n + x
  <2>1. (\A i \in DOMAIN t : i \in DOMAIN r) /\ \A x \in 1..Len(a) : n + x \in DOMAIN r
    <3> HIDE DEF n, a, r
    <3> QED
      BY <1>1
  <2> QED
    BY <2>1, ReconciledShape
<1>3. /\ \A x \in 1..Len(a) : a[x] \in Rows \cup {Comma}
      /\ \A x \in 1..Len(a) : a[x] \in Rows => \E k \in Owned \ KeysOf(t) : a[x] = Current(k)
      /\ \A x, y \in 1..Len(a) : a[x] \in Rows /\ a[y] = a[x] => x = y
      /\ \A k \in Owned \ KeysOf(t) : \E x \in 1..Len(a) : a[x] = Current(k)
  <2>1. a \in Seq(Rows \cup {Comma})
    BY AdditionFacts
  <2>2. \A x \in 1..Len(a) : a[x] \in Rows \cup {Comma}
    <3> HIDE DEF a
    <3> QED
      BY <2>1
  <2> QED
    BY <2>2, AdditionFacts
<1>4. \A i \in DOMAIN t :
        /\ r[i] \in Rows <=> t[i] \in Rows
        /\ r[i] = Comma <=> t[i] = Comma
        /\ i \in Mine(t) => t[i].key \in Owned /\ r[i] = Current(t[i].key)
        /\ i \notin Mine(t) => r[i] = t[i]
  BY <1>2, ReplacedFacts
<1>5. /\ ParseJsonc(t)
      /\ \A i, j \in Mine(t) : t[i].key = t[j].key => i = j
  BY DEF CheckedDocument
<1> HIDE DEF r, a, n
<1>6. \A i : i \in Mine(t) <=> i \in DOMAIN t /\ t[i] \in Rows /\ t[i].key \in Owned
  BY DEF Mine, Properties
<1>7. \A i : i \in Mine(r) <=> i \in DOMAIN r /\ r[i] \in Rows /\ r[i].key \in Owned
  BY DEF Mine, Properties
<1>8. \A i \in DOMAIN t : i \in Mine(r) <=> i \in Mine(t)
  BY <1>2, <1>4, <1>6, <1>7, PieceFacts
<1>9. ASSUME NEW i \in Mine(r), i \notin DOMAIN t
      PROVE  \E x \in 1..Len(a) : \E k \in Owned \ KeysOf(t) :
               i = n + x /\ a[x] = Current(k) /\ r[i] = Current(k) /\ a[x] \in Rows
  <2>1. PICK x \in 1..Len(a) : i = n + x
    BY <1>2, <1>7, <1>9
  <2>2. r[i] = a[x] /\ a[x] \in Rows
    BY <1>2, <1>7, <2>1
  <2> QED
    BY <1>3, <2>1, <2>2
<1>10. \A i \in Mine(r) : r[i] = Current(r[i].key)
  <2> SUFFICES ASSUME NEW i \in Mine(r) PROVE r[i] = Current(r[i].key)
    OBVIOUS
  <2>1. CASE i \in DOMAIN t
    BY <1>4, <1>8, <2>1, PieceFacts
  <2>2. CASE i \notin DOMAIN t
    BY <1>9, <2>2, PieceFacts
  <2> QED
    BY <2>1, <2>2
<1>11. \A i \in Mine(t) : t[i].key \in KeysOf(t) /\ r[i].key = t[i].key
  BY <1>4, <1>6, PieceFacts DEF KeysOf
<1>12. ASSUME NEW i \in Mine(r), NEW j \in Mine(r), r[i].key = r[j].key PROVE i = j
  <2>1. CASE i \in DOMAIN t /\ j \in DOMAIN t
    BY <1>5, <1>8, <1>11, <1>12, <2>1
  <2>2. CASE i \in DOMAIN t /\ j \notin DOMAIN t
    <3>1. r[j].key \notin KeysOf(t)
      BY <1>9, <2>2, PieceFacts
    <3> QED
      BY <1>8, <1>11, <1>12, <2>2, <3>1
  <2>3. CASE i \notin DOMAIN t /\ j \in DOMAIN t
    <3>1. r[i].key \notin KeysOf(t)
      BY <1>9, <2>3, PieceFacts
    <3> QED
      BY <1>8, <1>11, <1>12, <2>3, <3>1
  <2>4. CASE i \notin DOMAIN t /\ j \notin DOMAIN t
    <3>1. PICK x \in 1..Len(a), k \in Owned \ KeysOf(t) :
            i = n + x /\ a[x] = Current(k) /\ r[i] = Current(k) /\ a[x] \in Rows
      BY <1>9, <2>4
    <3>2. PICK y \in 1..Len(a), l \in Owned \ KeysOf(t) :
            j = n + y /\ a[y] = Current(l) /\ r[j] = Current(l) /\ a[y] \in Rows
      BY <1>9, <2>4
    <3>3. k = l
      BY <1>12, <3>1, <3>2, PieceFacts
    <3> QED
      BY <1>3, <3>1, <3>2, <3>3
  <2> QED
    BY <2>1, <2>2, <2>3, <2>4
<1>13. ParseJsonc(r)
  BY <1>5, ReconciledParses DEF r
<1>14. \A i \in Mine(r) : RecognizedEntry(r[i])
  BY <1>7, <1>10, PieceFacts
<1>15. CheckedDocument(r)
  BY <1>12, <1>13, <1>14 DEF CheckedDocument
<1>16. KeysOf(r) = Owned
  <2>1. KeysOf(r) \subseteq Owned
    BY <1>7 DEF KeysOf
  <2>2. ASSUME NEW k \in Owned PROVE k \in KeysOf(r)
    <3>1. CASE k \in KeysOf(t)
      <4>1. PICK i \in Mine(t) : t[i].key = k
        BY <3>1 DEF KeysOf
      <4>2. i \in Mine(r) /\ r[i].key = k
        BY <1>6, <1>8, <1>11, <4>1
      <4> QED
        BY <4>2 DEF KeysOf
    <3>2. CASE k \notin KeysOf(t)
      <4>1. PICK x \in 1..Len(a) : a[x] = Current(k)
        BY <1>3, <3>2
      <4>2. n + x \in Mine(r) /\ r[n + x].key = k
        BY <1>2, <1>7, <4>1, PieceFacts
      <4> QED
        BY <4>2 DEF KeysOf
    <3> QED
      BY <3>1, <3>2
  <2> QED
    BY <2>1, <2>2
<1>17. NotOurs(r) = NotOurs(t)
  <2>1. ASSUME NEW i \in DOMAIN t PROVE i \in NotOurs(r) <=> i \in NotOurs(t)
    <3>1. CASE i \in Mine(t)
      BY <1>2, <1>4, <1>6, <2>1, <3>1, PieceFacts DEF NotOurs
    <3>2. CASE i \notin Mine(t)
      BY <1>2, <1>4, <2>1, <3>2 DEF NotOurs
    <3> QED
      BY <3>1, <3>2
  <2>2. ASSUME NEW x \in 1..Len(a) PROVE n + x \notin NotOurs(r)
    <3>1. a[x] = Comma \/ a[x] \in Rows
      BY <1>3
    <3>2. a[x] \in Rows => a[x].key \in Owned
      BY <1>3, PieceFacts
    <3> QED
      BY <1>2, <3>1, <3>2 DEF NotOurs
  <2>3. NotOurs(r) \subseteq DOMAIN r /\ NotOurs(t) \subseteq DOMAIN t
    BY DEF NotOurs
  <2>4. \A i \in NotOurs(r) : i \in DOMAIN t
    BY <1>2, <2>2, <2>3
  <2> QED
    BY <2>1, <2>3, <2>4
<1>18. Only(r, NotOurs(r)) = Only(t, NotOurs(t))
  <2> DEFINE s == NotOurs(t)
  <2>1. s \in SUBSET (1..n) /\ \A i \in s : i \notin Mine(t)
    BY <1>1, <1>6, <1>4, PieceFacts DEF NotOurs
  <2>2. \A i \in s : r[i] = t[i]
    BY <1>1, <1>4, <2>1
  <2> HIDE DEF s
  <2>3. \A x \in 1..Cardinality(s) : Listing(s)[x] \in s
    <3>1. Listing(s) \in [1..Cardinality(s) -> s]
      BY <1>1, <2>1, ListingFacts
    <3> QED
      BY <3>1
  <2>4. Only(r, s) = Only(t, s)
    BY <2>2, <2>3 DEF Only
  <2> QED
    BY <1>17, <2>4 DEF s
<1>19. Reconciled(r) = r
  <2>1. Addition(r) = <<>>
    BY <1>1, <1>16, AdditionFacts
  <2>2. \A i \in DOMAIN r : Replaced(r)[i] = r[i]
    BY <1>10 DEF Replaced
  <2>3. Replaced(r) \in Seq(Pieces) /\ DOMAIN Replaced(r) = DOMAIN r
    BY <1>1, ReplacedFacts DEF Replaced
  <2>4. Replaced(r) = r
    BY <1>1, <2>2, <2>3 DEF Replaced
  <2> QED
    BY <1>1, <2>1, <2>4 DEF Reconciled
<1> QED
  BY <1>10, <1>15, <1>16, <1>18, <1>19 DEF r

-----------------------------------------------------------------------------
(***************************************************************************)
(* Removing.                                                               *)
(***************************************************************************)

\* What stays: the pieces that are not cut, in their order.
LEMMA OnlyFacts ==
  ASSUME NEW t \in Seq(Pieces), NEW kept \in SUBSET (1..Len(t))
  PROVE  LET r == Only(t, kept)
             l == Listing(kept)
         IN  /\ r \in Seq(Pieces) /\ DOMAIN r = DOMAIN l
             /\ \A x \in DOMAIN r : x \in Nat /\ l[x] \in kept /\ l[x] \in Nat /\ r[x] = t[l[x]]
             /\ \A x, y \in DOMAIN r : x < y <=> l[x] < l[y]
             /\ \A i \in kept : \E x \in DOMAIN r : l[x] = i
<1> DEFINE r == Only(t, kept)
           l == Listing(kept)
           m == Cardinality(kept)
<1>1. /\ m \in Nat /\ l \in [1..m -> kept]
      /\ \A x, y \in 1..m : x < y => l[x] < l[y]
      /\ \A i \in kept : \E x \in 1..m : l[x] = i
  <2>1. Len(t) \in Nat
    OBVIOUS
  <2> HIDE DEF r
  <2> QED
    BY <2>1, ListingFacts
<1>2. /\ DOMAIN r = 1..m /\ \A x \in 1..m : r[x] = t[l[x]]
      /\ r = [x \in 1..m |-> t[l[x]]]
  BY DEF Only
<1>3. \A i \in kept : i \in Nat /\ t[i] \in Pieces
  OBVIOUS
<1> HIDE DEF r, l, m
<1>4. \A x \in 1..m : x \in Nat /\ l[x] \in kept /\ l[x] \in Nat /\ t[l[x]] \in Pieces
  <2> TAKE x \in 1..m
  <2>1. l[x] \in kept
    BY <1>1
  <2>2. x \in Nat
    BY <1>1
  <2> QED
    BY <1>3, <2>1, <2>2
<1>5. r \in Seq(Pieces)
  BY <1>1, <1>2, <1>4
<1>6. \A x, y \in 1..m : x < y <=> l[x] < l[y]
  <2> SUFFICES ASSUME NEW x \in 1..m, NEW y \in 1..m, l[x] < l[y] PROVE x < y
    BY <1>1
  <2>1. l[x] \in Nat /\ l[y] \in Nat /\ x \in Nat /\ y \in Nat
    BY <1>4
  <2>2. ~(y < x) /\ x # y
    BY <1>1, <2>1
  <2> QED
    BY <2>1, <2>2
<1>7. DOMAIN l = 1..m
  BY <1>1
<1> QED
  BY <1>1, <1>2, <1>4, <1>5, <1>6, <1>7 DEF r, l, m

\* What is cut: the plugin's rows and each with a comma next to it.
LEMMA CutFacts ==
  ASSUME NEW t \in Seq(Pieces), ParseJsonc(t)
  PROVE  /\ Mine(t) \in SUBSET Cuts(t)
         /\ \A c \in Cuts(t) : c \in Significant(t) /\ (c \in Mine(t) <=> t[c] \in Rows)
         /\ \A c \in Cuts(t) : t[c] = Comma =>
              \E i \in Mine(t) : \/ Follows(t, i, c)
                                 \/ Follows(t, c, i) /\ CommaAfter(t, i) = {}
         /\ \A i \in Mine(t) : CommaAfter(t, i) \subseteq Cuts(t)
<1>1. /\ Mine(t) \in SUBSET Properties(t) /\ Properties(t) \in SUBSET Significant(t)
      /\ \A i \in Significant(t) : i \in Properties(t) <=> t[i] \in Rows
  BY TextFacts
<1>2. Mine(t) \in SUBSET Cuts(t)
  BY DEF Cuts, Cut
<1>3. \A i \in Mine(t) : CommaAfter(t, i) \subseteq Cuts(t)
  BY DEF Cuts, Cut
<1>4. ASSUME NEW c \in Cuts(t), c \notin Mine(t)
      PROVE  /\ c \in Significant(t) /\ t[c] \notin Rows
             /\ \E i \in Mine(t) : Follows(t, i, c) \/ (Follows(t, c, i) /\ CommaAfter(t, i) = {})
  <2>1. PICK i \in Mine(t) : c \in Cut(t, i)
    BY DEF Cuts
  <2>2. t[i] \in Rows /\ i \in Significant(t)
    BY <1>1
  <2>3. /\ c \in Significant(t)
        /\ Follows(t, i, c) \/ (Follows(t, c, i) /\ CommaAfter(t, i) = {})
    BY <1>4, <2>1 DEF Cut, CommaAfter, CommaBefore
  <2>4. t[c] \notin Rows
    <3>1. CASE Follows(t, i, c)
      BY <2>2, <2>3, <3>1, TakeTurns
    <3>2. CASE Follows(t, c, i)
      BY <2>2, <2>3, <3>2, TakeTurns
    <3> QED
      BY <2>3, <3>1, <3>2
  <2> QED
    BY <2>1, <2>3, <2>4
<1>5. \A c \in Mine(t) : c \in Significant(t) /\ t[c] \in Rows /\ t[c] # Comma
  BY <1>1, PieceFacts
<1> QED
  BY <1>2, <1>3, <1>4, <1>5

\* What is left parses.
LEMMA RemovedParses ==
  ASSUME NEW t \in Seq(Pieces), ParseJsonc(t)
  PROVE  ParseJsonc(Removed(t))
<1> DEFINE r == Removed(t)
           kept == (1..Len(t)) \ Cuts(t)
           l == Listing(kept)
           Left(i) == i \in Significant(t) /\ i \notin Cuts(t)
<1>1. /\ r \in Seq(Pieces)
      /\ \A x \in DOMAIN r : x \in Nat /\ l[x] \in kept /\ l[x] \in Nat /\ r[x] = t[l[x]]
      /\ \A x, y \in DOMAIN r : x < y <=> l[x] < l[y]
      /\ \A i \in kept : \E x \in DOMAIN r : l[x] = i
  <2>1. kept \in SUBSET (1..Len(t)) /\ r = Only(t, kept)
    BY TextFacts DEF Removed
  <2> HIDE DEF kept
  <2> QED
    BY <2>1, OnlyFacts
<1>2. /\ DOMAIN t = 1..Len(t)
      /\ \A i \in Significant(t) : i \in DOMAIN t /\ i \in Nat
  BY TextFacts
<1>3. /\ \A i \in Significant(t) : t[i] \in Rows <=> t[i] # Comma
      /\ \A i \in Significant(t) : (\A j \in Significant(t) : i <= j) => t[i] \in Rows
      /\ \A i, j \in Significant(t) : Follows(t, i, j) => (t[i] = Comma <=> t[j] \in Rows)
  BY TakeTurns
<1> HIDE DEF r, l
<1>4. \A x \in Significant(r) : x \in DOMAIN r /\ Left(l[x]) /\ r[x] = t[l[x]]
  BY <1>1, <1>2 DEF Significant
<1>5. \A i : Left(i) => \E x \in Significant(r) : l[x] = i
  BY <1>1, <1>2 DEF Significant
\* A comma that is left has a row before it that is left or a comma.
<1>6. ASSUME NEW j, Left(j), t[j] = Comma
      PROVE  \E k \in Significant(t) : Left(k) /\ t[k] \in Rows /\ Follows(t, k, j)
  <2>1. j \in Significant(t) /\ j \in Nat /\ t[j] \notin Rows
    BY <1>2, <1>3, <1>6
  <2>2. PICK i \in Significant(t) : i < j
    BY <1>2, <1>3, <2>1
  <2>3. PICK k \in Significant(t) : Follows(t, k, j)
    BY <2>1, <2>2, PreviousPiece
  <2>4. t[k] \in Rows
    BY <1>3, <2>1, <2>3
  <2>5. k \notin Cuts(t)
    <3> SUFFICES ASSUME k \in Cuts(t) PROVE FALSE
      OBVIOUS
    <3>1. k \in Mine(t) /\ j \in CommaAfter(t, k)
      BY <2>1, <2>3, <2>4, CutFacts DEF CommaAfter
    <3>2. j \in Cuts(t)
      BY <3>1, CutFacts
    <3> QED
      BY <1>6, <3>2
  <2> QED
    BY <2>3, <2>4, <2>5
\* A row that is left, and is not the last piece left, has its comma.
<1>7. ASSUME NEW i, NEW j, Left(i), Left(j), i < j, t[i] \in Rows
      PROVE  \E c \in Significant(t) : Left(c) /\ t[c] = Comma /\ Follows(t, i, c) /\ c <= j
  <2>1. i \in Significant(t) /\ i \in Nat /\ j \in Significant(t) /\ j \in Nat
    BY <1>2, <1>7
  <2>2. PICK c \in Significant(t) : c <= j /\ Follows(t, i, c)
    BY <1>7, <2>1, NextPiece
  <2>3. t[c] = Comma
    BY <1>3, <1>7, <2>1, <2>2
  <2>4. c \notin Cuts(t)
    <3> SUFFICES ASSUME c \in Cuts(t) PROVE FALSE
      OBVIOUS
    <3>1. PICK q \in Mine(t) : Follows(t, q, c) \/ (Follows(t, c, q) /\ CommaAfter(t, q) = {})
      BY <2>3, CutFacts
    <3>2. q \in Significant(t) /\ q \in Cuts(t) /\ q \in Nat
      BY <1>2, CutFacts
    <3>3. CASE Follows(t, q, c)
      <4>1. q = i
        BY <2>1, <2>2, <3>2, <3>3, OneNeighbour
      <4> QED
        BY <1>7, <3>2, <4>1
    <3>4. CASE Follows(t, c, q) /\ CommaAfter(t, q) = {}
      <4>1. c # j /\ c < j
        BY <1>2, <1>7, <2>1, <2>2
      <4>2. q <= j /\ q # j
        BY <1>7, <2>1, <3>2, <3>4, <4>1 DEF Follows
      <4>3. \E k \in Significant(t) : Follows(t, q, k)
        BY <2>1, <3>2, <4>2, NextPiece
      <4> QED
        BY <3>4, <4>3 DEF CommaAfter
    <3> QED
      BY <3>1, <3>3, <3>4
  <2> QED
    BY <1>7, <2>2, <2>3, <2>4
<1>8. ASSUME NEW x \in Significant(r) PROVE r[x] \in Rows \cup {Comma}
  BY <1>3, <1>4
<1>9. ASSUME NEW x \in Significant(r), \A y \in Significant(r) : x <= y PROVE r[x] \in Rows
  <2> SUFFICES ASSUME r[x] = Comma PROVE FALSE
    BY <1>8
  <2>1. PICK k \in Significant(t) : Left(k) /\ Follows(t, k, l[x])
    BY <1>4, <1>6
  <2>2. PICK y \in Significant(r) : l[y] = k
    BY <1>5, <2>1
  <2>3. l[y] < l[x] /\ x \in DOMAIN r /\ y \in DOMAIN r
    BY <1>4, <2>1, <2>2 DEF Follows
  <2>4. y < x /\ x \in Nat /\ y \in Nat
    BY <1>1, <2>3
  <2> QED
    BY <1>9, <2>4
<1>10. ASSUME NEW x \in Significant(r), NEW y \in Significant(r), Follows(r, x, y)
       PROVE  r[x] = Comma <=> r[y] \in Rows
  <2>1. /\ x < y /\ x \in DOMAIN r /\ y \in DOMAIN r /\ l[x] < l[y]
        /\ Left(l[x]) /\ Left(l[y]) /\ r[x] = t[l[x]] /\ r[y] = t[l[y]]
        /\ l[x] \in Nat /\ l[y] \in Nat
    BY <1>1, <1>4, <1>10 DEF Follows
  <2>2. \A i : Left(i) => i <= l[x] \/ l[y] <= i
    <3> SUFFICES ASSUME NEW i, Left(i) PROVE i <= l[x] \/ l[y] <= i
      OBVIOUS
    <3>1. PICK z \in Significant(r) : l[z] = i
      BY <1>5
    <3>2. z <= x \/ y <= z
      BY <1>10 DEF Follows
    <3>3. z \in DOMAIN r /\ z \in Nat /\ x \in Nat /\ y \in Nat /\ l[z] \in Nat
      BY <1>1, <1>4, <2>1
    <3>4. (z < x \/ z = x) \/ (y < z \/ y = z)
      BY <3>2, <3>3
    <3> QED
      BY <1>1, <2>1, <3>1, <3>3, <3>4
  <2>3. CASE r[x] = Comma
    <3>1. r[y] # Comma
      <4> SUFFICES ASSUME r[y] = Comma PROVE FALSE
        OBVIOUS
      <4>1. PICK k \in Significant(t) : Left(k) /\ t[k] \in Rows /\ Follows(t, k, l[y])
        BY <1>6, <2>1
      <4>2. k \in Nat /\ k < l[y] /\ (l[x] <= k \/ l[y] <= l[x])
        BY <1>2, <2>1, <4>1 DEF Follows
      <4>3. k = l[x]
        BY <2>1, <2>2, <4>1, <4>2
      <4> QED
        BY <1>3, <2>1, <2>3, <4>1, <4>3
    <3> QED
      BY <1>8, <2>3, <3>1
  <2>4. CASE r[x] # Comma
    <3>1. r[x] \in Rows
      BY <1>8, <2>4
    <3>2. PICK c \in Significant(t) : Left(c) /\ t[c] = Comma /\ Follows(t, l[x], c) /\ c <= l[y]
      BY <1>7, <2>1, <3>1
    <3>3. c \in Nat /\ l[x] < c
      BY <1>2, <3>2 DEF Follows
    <3>4. c = l[y]
      BY <2>1, <2>2, <3>2, <3>3
    <3> QED
      BY <1>3, <2>1, <2>4, <3>2, <3>4
  <2> QED
    BY <2>3, <2>4
<1>11. ParseJsonc(r)
  BY <1>8, <1>9, <1>10 DEF ParseJsonc
<1> QED
  BY <1>11 DEF r

\* Removing the plugin's rows from an accepted text leaves an accepted text
\* with all that is not the plugin's, and nothing more to remove.
LEMMA RemoveIsExact ==
  ASSUME NEW t \in Seq(Pieces), CheckedDocument(t)
  PROVE  LET r == Removed(t)
         IN  /\ r \in Seq(Pieces)
             /\ CheckedDocument(r)
             /\ Only(r, NotOurs(r)) = Only(t, NotOurs(t))
             /\ Mine(r) = {}
             /\ Removed(r) = r
<1> DEFINE r == Removed(t)
           kept == (1..Len(t)) \ Cuts(t)
           l == Listing(kept)
<1>0. ParseJsonc(t)
  BY DEF CheckedDocument
<1>1. /\ r \in Seq(Pieces) /\ DOMAIN r = DOMAIN l
      /\ \A x \in DOMAIN r : x \in Nat /\ l[x] \in kept /\ l[x] \in Nat /\ r[x] = t[l[x]]
      /\ \A x, y \in DOMAIN r : x < y <=> l[x] < l[y]
      /\ \A i \in kept : \E x \in DOMAIN r : l[x] = i
  <2>1. kept \in SUBSET (1..Len(t)) /\ r = Only(t, kept)
    BY TextFacts DEF Removed
  <2> HIDE DEF kept
  <2> QED
    BY <2>1, OnlyFacts
<1>2. DOMAIN t = 1..Len(t) /\ Len(t) \in Nat /\ \A i \in kept : i \in DOMAIN t /\ i \notin Cuts(t)
  BY TextFacts
<1>3. DOMAIN r = 1..Len(r) /\ Len(r) \in Nat
  BY <1>1, TextFacts
<1> HIDE DEF r, kept, l
\* Nothing of the plugin's is left.
<1>4. Mine(r) = {}
  <2> SUFFICES ASSUME NEW x \in Mine(r) PROVE FALSE
    OBVIOUS
  <2>1. x \in DOMAIN r /\ r[x] \in Rows /\ r[x].key \in Owned
    BY DEF Mine, Properties
  <2>2. l[x] \in kept /\ r[x] = t[l[x]]
    BY <1>1, <2>1
  <2>3. l[x] \in Mine(t)
    BY <1>2, <2>1, <2>2 DEF Mine, Properties
  <2> QED
    BY <1>0, <1>2, <2>2, <2>3, CutFacts
<1>5. CheckedDocument(r)
  <2>1. ParseJsonc(r)
    BY <1>0, RemovedParses DEF r
  <2> QED
    BY <1>4, <2>1 DEF CheckedDocument
\* What is not the plugin's is not cut.
<1>6. ASSUME NEW i \in NotOurs(t) PROVE i \in kept
  <2>1. i \in DOMAIN t /\ t[i] # Comma /\ t[i].key \notin Owned
    BY DEF NotOurs
  <2>2. i \notin Cuts(t)
    <3> SUFFICES ASSUME i \in Cuts(t) PROVE FALSE
      OBVIOUS
    <3>1. i \in Significant(t) /\ (i \in Mine(t) <=> t[i] \in Rows)
      BY <1>0, CutFacts
    <3>2. i \in Mine(t)
      BY <1>0, <2>1, <3>1, TakeTurns
    <3> QED
      BY <2>1, <3>2 DEF Mine
  <2> QED
    BY <1>2, <2>1, <2>2 DEF kept
<1>7. Only(r, NotOurs(r)) = Only(t, NotOurs(t))
  <2> DEFINE here == NotOurs(r)
             there == NotOurs(t)
             k == Listing(here)
             m == Cardinality(here)
             f == [x \in 1..m |-> l[k[x]]]
  <2>1. here \in SUBSET (1..Len(r)) /\ there \in SUBSET (1..Len(t))
    BY <1>2, <1>3 DEF NotOurs
  <2> HIDE DEF here, there
  <2>2. /\ m \in Nat /\ k \in [1..m -> here]
        /\ \A x, y \in 1..m : x < y => k[x] < k[y]
        /\ \A i \in here : \E x \in 1..m : k[x] = i
    BY <1>3, <2>1, ListingFacts
  <2> HIDE DEF k, m
  <2>3. \A x \in 1..m : k[x] \in here /\ k[x] \in DOMAIN r
    BY <1>3, <2>1, <2>2
  <2>4. ASSUME NEW x \in DOMAIN r PROVE x \in here <=> l[x] \in there
    <3>1. r[x] = t[l[x]] /\ l[x] \in DOMAIN t
      BY <1>1, <1>2
    <3> QED
      BY <3>1 DEF here, there, NotOurs
  <2>5. \A x \in 1..m : f[x] = l[k[x]] /\ l[k[x]] \in there
    BY <2>3, <2>4
  <2>6. f \in [1..m -> there]
    BY <2>5
  <2>7. \A x, y \in 1..m : x < y => f[x] < f[y]
    <3> TAKE x \in 1..m, y \in 1..m
    <3> HAVE x < y
    <3>1. k[x] < k[y] /\ k[x] \in DOMAIN r /\ k[y] \in DOMAIN r
      BY <2>2, <2>3
    <3>2. l[k[x]] < l[k[y]]
      BY <1>1, <3>1
    <3> QED
      BY <2>5, <3>2
  <2>8. \A i \in there : \E x \in 1..m : f[x] = i
    <3> TAKE i \in there
    <3>1. PICK z \in DOMAIN r : l[z] = i
      BY <1>1, <1>6 DEF there
    <3>2. PICK x \in 1..m : k[x] = z
      BY <2>2, <2>4, <3>1
    <3> QED
      BY <2>5, <3>1, <3>2
  <2>9. m = Cardinality(there) /\ f = Listing(there)
    <3>1. Len(t) \in Nat /\ m \in Nat /\ there \in SUBSET (1..Len(t))
      BY <1>2, <2>1, <2>2
    <3> HIDE DEF f
    <3> QED
      BY ONLY <2>6, <2>7, <2>8, <3>1, ListingUnique
  <2>10. \A x \in 1..m : r[k[x]] = t[Listing(there)[x]]
    <3> TAKE x \in 1..m
    <3>1. r[k[x]] = t[l[k[x]]]
      BY <1>1, <2>3
    <3> QED
      BY <2>5, <2>9, <3>1
  <2>11. Only(r, here) = [x \in 1..m |-> r[k[x]]]
    BY DEF Only, k, m
  <2>12. Only(t, there) = [x \in 1..m |-> t[Listing(there)[x]]]
    BY <2>9 DEF Only
  <2>13. Only(r, here) = Only(t, there)
    BY <2>10, <2>11, <2>12
  <2> QED
    BY <2>13 DEF here, there
\* Nothing is cut a second time.
<1>8. Removed(r) = r
  <2>1. DOMAIN r \ Cuts(r) = 1..Len(r)
    BY <1>3, <1>4 DEF Cuts
  <2>2. Removed(r) = Only(r, 1..Len(r))
    BY <2>1 DEF Removed
  <2>3. Only(r, 1..Len(r)) = [x \in 1..Len(r) |-> r[x]]
    <3>1. /\ Cardinality(1..Len(r)) = Len(r)
          /\ \A x \in 1..Len(r) : Listing(1..Len(r))[x] = x
      BY <1>3, ListingAll
    <3> QED
      BY <3>1 DEF Only
  <2> QED
    BY <1>1, <1>3, <2>2, <2>3
<1> QED
  BY <1>1, <1>4, <1>5, <1>7, <1>8 DEF r

-----------------------------------------------------------------------------
(***************************************************************************)
(* The texts an operation comes to.                                        *)
(***************************************************************************)

\* What the menu holds and what is published are rows, commas and comments,
\* and what takes the menu's place is the accepted text that was read,
\* rewritten.
MenuTexts ==
  /\ file # Nothing => file.text \in Seq(Pieces)
  /\ next \in Seq(Pieces)
  /\ phase \in {"compare", "rename"} =>
       source \in Seq(Pieces) /\ CheckedDocument(source) /\ next = Rewritten(operation, source)

LEMMA RewrittenFacts ==
  ASSUME NEW op \in Operations, NEW t \in Seq(Pieces), CheckedDocument(t)
  PROVE  LET r == Rewritten(op, t)
         IN  /\ r \in Seq(Pieces)
             /\ CheckedDocument(r)
             /\ Only(r, NotOurs(r)) = Only(t, NotOurs(t))
             /\ InspectMenu(r) = IF op = "remove" THEN "missing" ELSE "compatible"
             /\ \A i \in Mine(r) : r[i] = Current(r[i].key)
             /\ Rewritten(op, r) = r
<1>1. CASE op = "reconcile"
  <2> DEFINE r == Reconciled(t)
  <2>1. \A x : Rewritten(op, x) = Reconciled(x)
    BY <1>1 DEF Rewritten
  <2>2. r \in Seq(Pieces)
    BY ReconciledShape
  <2>3. /\ CheckedDocument(r)
        /\ Only(r, NotOurs(r)) = Only(t, NotOurs(t))
        /\ KeysOf(r) = Owned
        /\ \A i \in Mine(r) : r[i] = Current(r[i].key)
        /\ Reconciled(r) = r
    BY ReconcileIsExact
  <2> HIDE DEF r
  <2>4. InspectMenu(r) = "compatible"
    BY <2>3 DEF InspectMenu, Owned
  <2> QED
    BY <1>1, <2>1, <2>2, <2>3, <2>4 DEF r
<1>2. CASE op = "remove"
  <2> DEFINE r == Removed(t)
  <2>1. \A x : Rewritten(op, x) = Removed(x)
    BY <1>2 DEF Rewritten
  <2>2. /\ r \in Seq(Pieces)
        /\ CheckedDocument(r)
        /\ Only(r, NotOurs(r)) = Only(t, NotOurs(t))
        /\ Mine(r) = {}
        /\ Removed(r) = r
    BY RemoveIsExact
  <2> HIDE DEF r
  <2>3. KeysOf(r) = {} /\ KeysOf(r) # Owned
    BY <2>2 DEF KeysOf, Owned
  <2>4. InspectMenu(r) = "missing"
    BY <2>2, <2>3 DEF InspectMenu
  <2> QED
    BY <1>2, <2>1, <2>2, <2>4 DEF r
<1> QED
  BY <1>1, <1>2 DEF Operations

LEMMA WholeIsText == Whole \in Seq(Pieces) /\ Unread \in Seq(Pieces)
<1>1. Current("setup") \in Pieces /\ Current("system") \in Pieces /\ Comma \in Pieces
  BY PieceFacts DEF Pieces, Owned
<1> QED
  BY <1>1 DEF Whole, Unread

LEMMA TextsStep ==
  ASSUME MenuInv, MenuTexts, [MenuNext]_menuVars
  PROVE  MenuTexts'
<1>f. (file # Nothing => file.text \in Seq(Pieces)) /\ next \in Seq(Pieces)
  BY DEF MenuTexts
<1>r. phase \in {"compare", "rename"} =>
        source \in Seq(Pieces) /\ CheckedDocument(source) /\ next = Rewritten(operation, source)
  BY DEF MenuTexts
<1>e. ASSUME NEW r, End(r), file' # Nothing => file'.text \in Seq(Pieces) PROVE MenuTexts'
  BY <1>e, WholeIsText DEF End, MenuTexts
<1>d. ASSUME Decline PROVE MenuTexts'
  BY <1>d, <1>e, <1>f DEF Decline
<1>s. ASSUME file' # Nothing => file'.text \in Seq(Pieces),
             UNCHANGED <<next, source, operation>>,
             phase' \in {"compare", "rename"} => phase \in {"compare", "rename"}
      PROVE  MenuTexts'
  <2>1. next' \in Seq(Pieces)
    BY <1>f, <1>s
  <2>2. phase' \in {"compare", "rename"} =>
          source' \in Seq(Pieces) /\ CheckedDocument(source)' /\ next' = Rewritten(operation, source)'
    <3> SUFFICES ASSUME phase' \in {"compare", "rename"}
                 PROVE  /\ source' \in Seq(Pieces)
                        /\ CheckedDocument(source)'
                        /\ next' = Rewritten(operation, source)'
      OBVIOUS
    <3>1. source \in Seq(Pieces) /\ CheckedDocument(source) /\ next = Rewritten(operation, source)
      BY <1>r, <1>s
    <3>2. CheckedDocument(source)' <=> CheckedDocument(source)
      BY <1>s
    <3>3. Rewritten(operation, source)' = Rewritten(operation, source)
      BY <1>s
    <3> QED
      BY <1>s, <3>1, <3>2, <3>3
  <2> QED
    BY <1>s, <2>1, <2>2 DEF MenuTexts
<1>1. CASE \E op \in Operations : Begin(op)
  BY <1>1, <1>f DEF Begin, MenuTexts
<1>2. CASE Look
  <2>1. CASE next' = Whole /\ phase' = "link" /\ file' = file
    BY <1>f, <2>1, WholeIsText DEF MenuTexts
  <2> QED
    BY <1>2, <1>e, <1>f, <1>s, <2>1 DEF Look
<1>3. CASE Stat
  BY <1>3, <1>d, <1>f, <1>s DEF Stat
<1>4. CASE Read
  <2>1. CASE /\ phase = "read" /\ file # Nothing /\ CheckedDocument(file.text)
             /\ source' = file.text /\ next' = Rewritten(operation, file.text)
             /\ file' = file /\ operation' = operation
    <3>1. operation \in Operations /\ file.text \in Seq(Pieces)
      BY <1>f, <2>1 DEF MenuInv, MenuTypeOK
    <3>2. next' \in Seq(Pieces)
      BY <2>1, <3>1, RewrittenFacts
    <3>3. CheckedDocument(source)'
      BY <2>1
    <3>4. next' = Rewritten(operation, source)'
      BY <2>1
    <3> QED
      BY <2>1, <3>1, <3>2, <3>3, <3>4 DEF MenuTexts
  <2>2. CASE End("unchanged") /\ file' = file
    BY <1>e, <1>f, <2>2
  <2>3. \/ Decline
        \/ End("unchanged") /\ UNCHANGED <<file, versions>>
        \/ /\ phase = "read" /\ file # Nothing /\ CheckedDocument(file.text)
           /\ source' = file.text /\ next' = Rewritten(operation, file.text)
           /\ UNCHANGED <<file, versions, operation, seen, outcome, late>>
    BY <1>4, Zenon DEF Read
  <2> QED
    BY <1>d, <2>1, <2>2, <2>3
<1>5. CASE Compare
  BY <1>5, <1>d, <1>f, <1>s DEF Compare
<1>6. CASE Rename
  <2>1. file' = File(next, versions', TRUE) /\ \E r : End(r)
    BY <1>6 DEF Rename, Done
  <2>2. file'.text \in Seq(Pieces)
    BY <1>f, <2>1 DEF File
  <2> QED
    BY <1>e, <2>1, <2>2
<1>7. CASE Link
  <2>1. CASE /\ file' = File(next, versions', FALSE) /\ phase' = "unlink"
             /\ UNCHANGED <<operation, source, next>>
    <3>1. file'.text \in Seq(Pieces)
      BY <1>f, <2>1 DEF File
    <3> QED
      BY <1>s, <2>1, <3>1
  <2> QED
    BY <1>7, <1>d, <2>1 DEF Link
<1>8. CASE Unlink
  <2>1. /\ file' = IF file = Nothing THEN Nothing ELSE File(file.text, file.version, TRUE)
        /\ \E r : End(r)
    BY <1>8 DEF Unlink, Done
  <2>2. file' # Nothing => file'.text \in Seq(Pieces)
    BY <1>f, <2>1 DEF File
  <2> QED
    BY <1>e, <2>1, <2>2
<1>9. CASE Abort
  BY <1>9, <1>d DEF Abort
<1>10. CASE Write
  <2>1. PICK t \in Edits : \E s : file' = File(t, versions', s)
    BY <1>10 DEF Write
  <2>2. t \in Seq(Pieces) /\ file'.text = t
    BY <2>1, MenuAssumption DEF File
  <2> QED
    BY <1>10, <1>s, <2>2 DEF Write
<1>11. CASE Delete
  BY <1>11, <1>s DEF Delete
<1>12. CASE UNCHANGED menuVars
  BY <1>12, <1>f, <1>s DEF menuVars
<1> QED
  BY <1>1, <1>2, <1>3, <1>4, <1>5, <1>6, <1>7, <1>8, <1>9, <1>10, <1>11, <1>12
     DEF MenuNext, MenuStep

LEMMA TextsInvariant == MenuSpec => [](MenuInv /\ MenuTexts)
<1>1. MenuInit => MenuTexts
  <2> SUFFICES ASSUME MenuInit PROVE MenuTexts
    OBVIOUS
  <2>1. file # Nothing => file.text \in Texts
    BY DEF MenuInit, File
  <2> QED
    BY <2>1, MenuAssumption, WholeIsText DEF MenuInit, MenuTexts
<1>2. MenuInv /\ MenuTexts /\ [MenuNext]_menuVars => (MenuInv /\ MenuTexts)'
  BY StepInvariant, TextsStep
<1> QED
  BY <1>1, <1>2, InitInvariant, PTL DEF MenuSpec

\* Whatever others have written around the plugin's rows, however long the
\* text is, an accepted text is rewritten into one the second check accepts:
\* others' rows and comments are all there in their order, the plugin's rows
\* are there once each in their present form or not at all, and the operation
\* run again finds nothing to do (checkedDocument, reconcileMenu,
\* removeOwnedMenu).
THEOREM RewritingIsExact == MenuSpec => []RewriteIsExact
<1>1. ASSUME MenuInv, MenuTexts PROVE RewriteIsExact
  <2> SUFFICES ASSUME phase = "read", file # Nothing, CheckedDocument(file.text)
               PROVE  LET r == Rewritten(operation, file.text)
                      IN /\ CheckedDocument(r)
                         /\ Only(r, NotOurs(r)) = Only(file.text, NotOurs(file.text))
                         /\ InspectMenu(r)
                              = IF operation = "remove" THEN "missing" ELSE "compatible"
                         /\ \A i \in Mine(r) : r[i] = Current(r[i].key)
                         /\ Rewritten(operation, r) = r
    BY DEF RewriteIsExact
  <2>1. operation \in Operations /\ file.text \in Seq(Pieces)
    BY <1>1 DEF MenuInv, MenuTypeOK, MenuTexts
  <2> QED
    BY <2>1, RewrittenFacts
<1> QED
  BY <1>1, TextsInvariant, PTL

\* A publication replaces the text that was read, unless somebody wrote after
\* the last look, and keeps all in it that is not the plugin's; a menu that
\* came to be in the meantime is not replaced (writeAtomically).
THEOREM EditsKept == MenuSpec => OwnerEditsKept
<1> DEFINE Keeps ==
      /\ phase = "rename" /\ phase' = "idle" /\ file' # file /\ ~late =>
           /\ file # Nothing /\ file.text = source
           /\ Only(file'.text, NotOurs(file'.text)) = Only(file.text, NotOurs(file.text))
      /\ phase = "link" /\ phase' = "unlink" => file = Nothing
<1>1. ASSUME MenuInv, MenuTexts, [MenuNext]_menuVars PROVE Keeps
  <2>1. ASSUME phase = "rename", phase' = "idle", file' # file, ~late
        PROVE  /\ file # Nothing /\ file.text = source
               /\ Only(file'.text, NotOurs(file'.text)) = Only(file.text, NotOurs(file.text))
    <3>1. file # Nothing /\ file.text = source
      BY <1>1, <2>1 DEF MenuInv, Kept
    <3>2. ~(\E op \in Operations : Begin(op)) /\ ~Write /\ ~Delete /\ ~UNCHANGED menuVars
      BY <2>1 DEF Begin, Write, Delete, menuVars
    <3>3. MenuStep
      BY <1>1, <3>2 DEF MenuNext
    <3>4. ~Abort
      BY <2>1 DEF Abort, Decline
    <3>5. Rename
      BY <2>1, <3>3, <3>4 DEF MenuStep, Look, Stat, Read, Compare, Link, Unlink
    <3>6. file'.text = next
      BY <3>5 DEF Rename, File
    <3>7. /\ operation \in Operations
          /\ source \in Seq(Pieces) /\ CheckedDocument(source) /\ next = Rewritten(operation, source)
      BY <1>1, <2>1 DEF MenuInv, MenuTypeOK, MenuTexts
    <3>8. Only(next, NotOurs(next)) = Only(source, NotOurs(source))
      BY <3>7, RewrittenFacts
    <3> QED
      BY <3>1, <3>6, <3>8
  <2>2. ASSUME phase = "link", phase' = "unlink" PROVE file = Nothing
    <3>1. ~(\E op \in Operations : Begin(op)) /\ ~Write /\ ~Delete /\ ~UNCHANGED menuVars
      BY <2>2 DEF Begin, Write, Delete, menuVars
    <3>2. MenuStep
      BY <1>1, <3>1 DEF MenuNext
    <3>3. ~Abort
      BY <2>2 DEF Abort, Decline, End
    <3>4. Link
      BY <2>2, <3>2, <3>3 DEF MenuStep, Look, Stat, Read, Compare, Rename, Unlink
    <3> QED
      BY <2>2, <3>4 DEF Link, Decline, End
  <2> QED
    BY <2>1, <2>2
<1> QED
  BY <1>1, TextsInvariant, PTL DEF MenuSpec, OwnerEditsKept
=============================================================================
