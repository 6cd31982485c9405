---------------------------- MODULE NativeProbes ----------------------------
(***************************************************************************)
(* What plugin/bin/native-probe-lib.cjs concludes from what it is told: by *)
(* the shell, by logind, by the helper and by the files of the checkout.   *)
(* A world is one set of answers of the shell and of logind.               *)
(* Operators named Mutant... are wrong versions of the definition that     *)
(* follows them.                                                           *)
(***************************************************************************)
EXTENDS Integers

CONSTANT None    \* no answer, or one that cannot be read

-----------------------------------------------------------------------------
(***************************************************************************)
(* The helper's protocols and those a manifest asks for are ranges.        *)
(***************************************************************************)

ValidProtocol(p) == p # None /\ p.min >= 1 /\ p.max >= p.min

\* The larger of the minima is not above the smaller of the maxima.
Meet(p, q) ==
  LET low == IF p.min > q.min THEN p.min ELSE q.min
      high == IF p.max < q.max THEN p.max ELSE q.max
  IN low <= high

HelperHasProtocol(answer, protocol) ==
  ValidProtocol(answer) /\ ValidProtocol(protocol) /\ Meet(answer, protocol)

-----------------------------------------------------------------------------
(***************************************************************************)
(* logind's answers about sleep.  One that is missing makes the whole      *)
(* observation missing.                                                    *)
(***************************************************************************)

Questions == {"CanSuspend", "CanHibernate", "CanSuspendThenHibernate"}

Refusals ==
  {"no", "na", "challenge", "inhibited", "inhibitor-blocked", "challenge-inhibitor-blocked"}

\* Whatever logind says that is not yes is no.
MutantCallCan(answer) == IF answer = "yes" THEN "yes" ELSE "no"

CallCan(answer) ==
  CASE answer = "yes" -> "yes"
    [] answer \in Refusals -> "no"
    [] OTHER -> None

EvaluateCapability(w) ==
  LET can == [q \in Questions |-> CallCan(w.can[q])]
  IN IF w.block # None /\ w.boot # None /\ \A q \in Questions : can[q] # None
     THEN [can |-> can, block |-> w.block, boot |-> w.boot]
     ELSE None

-----------------------------------------------------------------------------
(***************************************************************************)
(* The contract with the shell, of which all must hold.  `wants` is what   *)
(* the manifest of a whole checkout asks for, or None; its service has the *)
(* features looked for.  `enabled` is what the shell says of the plugin.   *)
(***************************************************************************)

RequiredContracts ==
  {"shellReady", "pluginDiscovery", "pluginActivation", "manifestSchema", "ipcFeatures",
   "qmlFeatures", "idleMonitor", "helperProtocol", "userPolicy", "systemPolicy", "logind"}

Observations(w, enabled, wants, answer) ==
  [c \in RequiredContracts |->
     CASE c = "shellReady" -> w.shell
       [] c = "pluginActivation" -> w.shell /\ enabled
       [] c \in {"pluginDiscovery", "ipcFeatures", "idleMonitor"} -> w.features
       [] c \in {"manifestSchema", "qmlFeatures", "userPolicy"} -> wants # None
       [] c = "helperProtocol" -> HelperHasProtocol(answer, wants)
       [] c = "systemPolicy" -> HelperHasProtocol(answer, wants) /\ wants # None
       [] c = "logind" -> EvaluateCapability(w) # None]

EvaluateContract(w, enabled, wants, answer) ==
  LET observations == Observations(w, enabled, wants, answer)
  IN [compatible |-> \A c \in RequiredContracts : observations[c],
      majorVersion |-> w.version]
=============================================================================
