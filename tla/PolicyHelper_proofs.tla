------------------------- MODULE PolicyHelper_proofs -------------------------
(***************************************************************************)
(* Proofs about PolicyHelper, for any invocations, policies and bounds.    *)
(***************************************************************************)
EXTENDS PolicyHelper, TLAPS

USE PolicyHelperAssumption

(***************************************************************************)
(* The inductive invariant: who holds the lock, what an invocation's own   *)
(* files and memory are at each step, and, while the administrator does    *)
(* not write, what the target is.                                          *)
(***************************************************************************)
Held == Steps \ {"idle", "waiting", "exited"}
Resetting == {"moving", "moved", "verified", "removed", "restoring", "recreating", "placing"}
Undoing == {"undoing", "restoring", "recreating", "placing"}

USE DEF Held, Resetting, Undoing, Steps, Undo, files, counts

LockInv == \A h \in Helpers : lock = h <=> pc[h] \in Held

Own(h) ==
  /\ temp[h] = Partial => pc[h] \in {"filling", "cleaning", "exited"}
  /\ pc[h] \in {"filled", "checked"} => temp[h] = wanted[h]
  /\ pc[h] \in {"filling", "filled", "checked", "replaced", "undoing", "cleaning"} =>
       wanted[h] # Absent
  /\ pc[h] \in {"idle", "waiting", "moving"} => temp[h] = Absent
  /\ pc[h] = "verified" => temp[h] = previous[h]
  /\ pc[h] \in Resetting => wanted[h] = Absent /\ previous[h] # Absent
  /\ pc[h] = "placing" => recovery[h] = previous[h]
  /\ pc[h] \in Undoing => result[h] = "failed"
  /\ pc[h] = "cleaning" => result[h] \in {None, "failed"}
  /\ pc[h] \notin Undoing \cup {"cleaning", "exited"} => result[h] = None

OwnInv == \A h \in Helpers : Own(h)

Quiet(h) ==
  /\ pc[h] \in {"filling", "filled", "checked", "moving"} => target = previous[h]
  /\ pc[h] \in {"replaced", "undoing"} => target = wanted[h] /\ temp[h] = previous[h]
  /\ pc[h] = "cleaning" /\ result[h] = None => target = wanted[h] /\ temp[h] = previous[h]
  /\ pc[h] = "cleaning" /\ result[h] # None => target = previous[h] \/ faults > 1
  /\ pc[h] \in {"moved", "verified", "restoring"} => target = Absent /\ temp[h] = previous[h]
  /\ pc[h] \in {"removed", "recreating", "placing"} => target = Absent
  /\ pc[h] \in Undoing => faults > 0

QuietInv == \A h \in Helpers : lock = h /\ h \notin disturbed => Quiet(h)

HelperInv == HelperTypeOK /\ LockInv /\ OwnInv /\ QuietInv

LEMMA InitInv == HelperInit => HelperInv
<1> SUFFICES ASSUME HelperInit PROVE HelperInv
  OBVIOUS
<1>1. HelperTypeOK
  BY DEF HelperInit, HelperTypeOK, Files, Results
<1>2. LockInv /\ OwnInv
  BY DEF HelperInit, LockInv, OwnInv, Own
<1>3. QuietInv
  BY DEF HelperInit, QuietInv
<1> QED BY <1>1, <1>2, <1>3 DEF HelperInv

(***************************************************************************)
(* One lemma per step: it keeps each part of the invariant.  The parts of  *)
(* the invocations that do not move are kept because only the holder of    *)
(* the lock changes the target.                                            *)
(***************************************************************************)
LEMMA RefuseInv == ASSUME HelperInv, NEW h \in Helpers, Refuse(h) PROVE HelperInv'
<1> USE DEF HelperInv, HelperTypeOK, LockInv, OwnInv, Own, Refuse, Exit
<1>1. HelperTypeOK'
  BY DEF Results, Files
<1>2. LockInv'
  OBVIOUS
<1>3. OwnInv'
  BY DEF Results, Files
<1>4. QuietInv'
  BY DEF QuietInv, Quiet, Files
<1> QED BY <1>1, <1>2, <1>3, <1>4

LEMMA OpenInv == ASSUME HelperInv, NEW h \in Helpers, Open(h) PROVE HelperInv'
<1> USE DEF HelperInv, HelperTypeOK, LockInv, OwnInv, Own, Open, Proceed, Hold, Exit, Resets
<1>1. HelperTypeOK'
  BY DEF Results, Files
<1>2. LockInv'
  OBVIOUS
<1>3. OwnInv'
  BY DEF Results, Files
<1>4. QuietInv'
  BY DEF QuietInv, Quiet, Files
<1> QED BY <1>1, <1>2, <1>3, <1>4

LEMMA FillInv == ASSUME HelperInv, NEW h \in Helpers, Fill(h) PROVE HelperInv'
<1> USE DEF HelperInv, HelperTypeOK, LockInv, OwnInv, Own, Fill, Goto
<1>1. HelperTypeOK'
  BY DEF Results, Files
<1>2. LockInv'
  OBVIOUS
<1>3. OwnInv'
  BY DEF Results, Files
<1>4. QuietInv'
  BY DEF QuietInv, Quiet, Files
<1> QED BY <1>1, <1>2, <1>3, <1>4

LEMMA RecheckInv == ASSUME HelperInv, NEW h \in Helpers, Recheck(h) PROVE HelperInv'
<1> USE DEF HelperInv, HelperTypeOK, LockInv, OwnInv, Own, Recheck, Goto, Fail
<1>1. HelperTypeOK'
  BY DEF Results, Files
<1>2. LockInv'
  OBVIOUS
<1>3. OwnInv'
  BY DEF Results, Files
<1>4. QuietInv'
  BY DEF QuietInv, Quiet, Files
<1> QED BY <1>1, <1>2, <1>3, <1>4

LEMMA ReplaceInv == ASSUME HelperInv, NEW h \in Helpers, Replace(h) PROVE HelperInv'
<1> USE DEF HelperInv, HelperTypeOK, LockInv, OwnInv, Own, Replace, Goto, Fail, Swap
<1>1. HelperTypeOK'
  BY DEF Results, Files
<1>2. LockInv'
  OBVIOUS
<1>3. OwnInv'
  BY DEF Results, Files
<1>4. QuietInv'
  BY DEF QuietInv, Quiet, Files
<1> QED BY <1>1, <1>2, <1>3, <1>4

LEMMA ReadbackInv == ASSUME HelperInv, NEW h \in Helpers, Readback(h) PROVE HelperInv'
<1> USE DEF HelperInv, HelperTypeOK, LockInv, OwnInv, Own, Readback, Goto, Fail
<1>1. HelperTypeOK'
  BY DEF Results, Files
<1>2. LockInv'
  OBVIOUS
<1>3. OwnInv'
  BY DEF Results, Files
<1>4. QuietInv'
  BY DEF QuietInv, Quiet, Files
<1> QED BY <1>1, <1>2, <1>3, <1>4

LEMMA SwapBackInv == ASSUME HelperInv, NEW h \in Helpers, SwapBack(h) PROVE HelperInv'
<1> USE DEF HelperInv, HelperTypeOK, LockInv, OwnInv, Own, SwapBack, Goto, Swap
<1>1. HelperTypeOK'
  BY DEF Results, Files
<1>2. LockInv'
  OBVIOUS
<1>3. OwnInv'
  BY DEF Results, Files
<1>4. QuietInv'
  <2> SUFFICES ASSUME NEW k \in Helpers, lock' = k, k \notin disturbed' PROVE Quiet(k)'
    BY DEF QuietInv
  <2>1. k = h /\ Quiet(h) /\ pc'[h] = "cleaning" /\ result'[h] = "failed"
    BY DEF QuietInv
  <2>2. target = wanted[h] /\ temp[h] = previous[h]
    BY <2>1 DEF Quiet
  <2>3. target' = previous[h] /\ previous'[h] = previous[h]
    BY <2>2
  <2> QED BY <2>1, <2>3 DEF Quiet, Results
<1> QED BY <1>1, <1>2, <1>3, <1>4

LEMMA CleanUpInv == ASSUME HelperInv, NEW h \in Helpers, CleanUp(h) PROVE HelperInv'
<1> USE DEF HelperInv, HelperTypeOK, LockInv, OwnInv, Own, CleanUp, Exit, Verdict
<1>1. HelperTypeOK'
  BY DEF Results, Files
<1>2. LockInv'
  OBVIOUS
<1>3. OwnInv'
  BY DEF Results, Files
<1>4. QuietInv'
  BY DEF QuietInv, Quiet, Files
<1> QED BY <1>1, <1>2, <1>3, <1>4

LEMMA MoveInv == ASSUME HelperInv, NEW h \in Helpers, Move(h) PROVE HelperInv'
<1> USE DEF HelperInv, HelperTypeOK, LockInv, OwnInv, Own, Move, Goto, Exit
<1>1. HelperTypeOK'
  BY DEF Results, Files
<1>2. LockInv'
  OBVIOUS
<1>3. OwnInv'
  BY DEF Results, Files
<1>4. QuietInv'
  BY DEF QuietInv, Quiet, Files
<1> QED BY <1>1, <1>2, <1>3, <1>4

LEMMA VerifyInv == ASSUME HelperInv, NEW h \in Helpers, Verify(h) PROVE HelperInv'
<1> USE DEF HelperInv, HelperTypeOK, LockInv, OwnInv, Own, Verify, Goto, Fail
<1>1. HelperTypeOK'
  BY DEF Results, Files
<1>2. LockInv'
  OBVIOUS
<1>3. OwnInv'
  BY DEF Results, Files
<1>4. QuietInv'
  BY DEF QuietInv, Quiet, Files
<1> QED BY <1>1, <1>2, <1>3, <1>4

LEMMA UnlinkInv == ASSUME HelperInv, NEW h \in Helpers, Unlink(h) PROVE HelperInv'
<1> USE DEF HelperInv, HelperTypeOK, LockInv, OwnInv, Own, Unlink, Goto
<1>1. HelperTypeOK'
  BY DEF Results, Files
<1>2. LockInv'
  OBVIOUS
<1>3. OwnInv'
  BY DEF Results, Files
<1>4. QuietInv'
  BY DEF QuietInv, Quiet, Files
<1> QED BY <1>1, <1>2, <1>3, <1>4

LEMMA FinalSyncInv == ASSUME HelperInv, NEW h \in Helpers, FinalSync(h) PROVE HelperInv'
<1> USE DEF HelperInv, HelperTypeOK, LockInv, OwnInv, Own, FinalSync, Exit
<1>1. HelperTypeOK'
  BY DEF Results, Files
<1>2. LockInv'
  OBVIOUS
<1>3. OwnInv'
  BY DEF Results, Files
<1>4. QuietInv'
  BY DEF QuietInv, Quiet, Files
<1> QED BY <1>1, <1>2, <1>3, <1>4

LEMMA RestoreInv == ASSUME HelperInv, NEW h \in Helpers, Restore(h) PROVE HelperInv'
<1> USE DEF HelperInv, HelperTypeOK, LockInv, OwnInv, Own, Restore, Goto, Exit, MovedBack, Swap
<1>1. HelperTypeOK'
  BY DEF Results, Files
<1>2. LockInv'
  OBVIOUS
<1>3. OwnInv'
  BY DEF Results, Files
<1>4. QuietInv'
  BY DEF QuietInv, Quiet, Files
<1> QED BY <1>1, <1>2, <1>3, <1>4

LEMMA RecreateInv == ASSUME HelperInv, NEW h \in Helpers, Recreate(h) PROVE HelperInv'
<1> USE DEF HelperInv, HelperTypeOK, LockInv, OwnInv, Own, Recreate, Goto
<1>1. HelperTypeOK'
  BY DEF Results, Files
<1>2. LockInv'
  OBVIOUS
<1>3. OwnInv'
  BY DEF Results, Files
<1>4. QuietInv'
  BY DEF QuietInv, Quiet, Files
<1> QED BY <1>1, <1>2, <1>3, <1>4

LEMMA PlaceInv == ASSUME HelperInv, NEW h \in Helpers, Place(h) PROVE HelperInv'
<1> USE DEF HelperInv, HelperTypeOK, LockInv, OwnInv, Own, Place, Exit, Placed
<1>1. HelperTypeOK'
  BY DEF Results, Files
<1>2. LockInv'
  OBVIOUS
<1>3. OwnInv'
  BY DEF Results, Files
<1>4. QuietInv'
  BY DEF QuietInv, Quiet, Files
<1> QED BY <1>1, <1>2, <1>3, <1>4

LEMMA CallFailsInv == ASSUME HelperInv, NEW h \in Helpers, CallFails(h) PROVE HelperInv'
<1> USE DEF HelperInv, HelperTypeOK, LockInv, OwnInv, Own, CallFails, Fault, Fail, Exit
<1>1. HelperTypeOK'
  BY DEF Results, Files
<1>2. LockInv'
  OBVIOUS
<1>3. OwnInv'
  BY DEF Results, Files
<1>4. QuietInv'
  <2> SUFFICES ASSUME NEW k \in Helpers, lock' = k, k \notin disturbed' PROVE Quiet(k)'
    BY DEF QuietInv
  <2>1. k = h /\ Quiet(h) /\ result'[h] = "failed" /\ pc[h] \in DOMAIN Undo
    BY DEF QuietInv
  <2>2. pc'[h] = Undo[pc[h]] /\ faults' > 0
    BY <2>1
  <2> QED BY <2>1, <2>2 DEF Quiet, Results
<1> QED BY <1>1, <1>2, <1>3, <1>4

LEMMA RecoveryFailsInv == ASSUME HelperInv, NEW h \in Helpers, RecoveryFails(h) PROVE HelperInv'
<1> USE DEF HelperInv, HelperTypeOK, LockInv, OwnInv, Own, RecoveryFails, Fault, Goto, Exit, Verdict, MovedBack, Placed, Swap
<1>1. HelperTypeOK'
  BY DEF Results, Files
<1>2. LockInv'
  OBVIOUS
<1>3. OwnInv'
  BY DEF Results, Files
<1>4. QuietInv'
  BY DEF QuietInv, Quiet, Files
<1> QED BY <1>1, <1>2, <1>3, <1>4

LEMMA KillInv == ASSUME HelperInv, NEW h \in Helpers, Kill(h) PROVE HelperInv'
<1> USE DEF HelperInv, HelperTypeOK, LockInv, OwnInv, Own, Kill, Fault, Exit
<1>1. HelperTypeOK'
  BY DEF Results, Files
<1>2. LockInv'
  OBVIOUS
<1>3. OwnInv'
  BY DEF Results, Files
<1>4. QuietInv'
  BY DEF QuietInv, Quiet, Files
<1> QED BY <1>1, <1>2, <1>3, <1>4

LEMMA StartInv ==
  ASSUME HelperInv, NEW h \in Helpers, NEW policy \in Policies \cup {Absent}, Start(h, policy)
  PROVE  HelperInv'
<1> USE DEF HelperInv, HelperTypeOK, LockInv, OwnInv, Own, Start
<1>1. HelperTypeOK'
  BY DEF Results, Files
<1>2. LockInv'
  OBVIOUS
<1>3. OwnInv'
  BY DEF Results, Files
<1>4. QuietInv'
  BY DEF QuietInv, Quiet, Files
<1> QED BY <1>1, <1>2, <1>3, <1>4

LEMMA EditInv == ASSUME HelperInv, NEW file \in Files, Edit(file) PROVE HelperInv'
<1> USE DEF HelperInv, HelperTypeOK, LockInv, OwnInv, Own, Edit
<1>1. HelperTypeOK'
  BY DEF Results, Files
<1>2. LockInv'
  OBVIOUS
<1>3. OwnInv'
  OBVIOUS
<1>4. QuietInv'
  \* Whoever holds the lock is disturbed.
  BY DEF QuietInv
<1> QED BY <1>1, <1>2, <1>3, <1>4

LEMMA StepInv == ASSUME HelperInv, NEW h \in Helpers, HelperStep(h) PROVE HelperInv'
BY RefuseInv, OpenInv, FillInv, RecheckInv, ReplaceInv, ReadbackInv, SwapBackInv, CleanUpInv,
   MoveInv, VerifyInv, UnlinkInv, FinalSyncInv, RestoreInv, RecreateInv, PlaceInv,
   CallFailsInv, RecoveryFailsInv, KillInv
   DEF HelperStep, Work

LEMMA NextInv == HelperInv /\ [HelperNext]_helperVars => HelperInv'
<1> SUFFICES ASSUME HelperInv, [HelperNext]_helperVars PROVE HelperInv'
  OBVIOUS
<1>1. CASE HelperNext
  BY <1>1, StartInv, StepInv, EditInv DEF HelperNext
<1>2. CASE UNCHANGED helperVars
  BY <1>2 DEF HelperInv, HelperTypeOK, LockInv, OwnInv, Own, QuietInv, Quiet, helperVars, locals
<1> QED BY <1>1, <1>2

LEMMA HelperInvariant == HelperSpec => []HelperInv
BY InitInv, NextInv, PTL DEF HelperSpec

-----------------------------------------------------------------------------
\* The state of the helper is typed: in particular nothing but a recognized
\* policy, or nothing, is ever kept as what an invocation found
\* (replace_and_verify, remove_and_verify).
THEOREM HelperTypeCorrect == HelperSpec => []HelperTypeOK
BY HelperInvariant, PTL DEF HelperInv

\* Killed at any step before a reset has unlinked the policy, an invocation
\* leaves the policy it found in the directory, as the target or in one of its
\* own files (replace_and_verify, remove_and_verify).
THEOREM PolicyKept == HelperSpec => []PolicySurvivesKill
<1>1. HelperInv => PolicySurvivesKill
  <2> SUFFICES ASSUME HelperInv, NEW h \in Helpers,
                      lock = h, h \notin disturbed, faults <= 1,
                      pc[h] \notin {"removed", "recreating"}
               PROVE  previous[h] \in {Absent, target, temp[h], recovery[h]}
    BY DEF PolicySurvivesKill
  <2>1. Quiet(h) /\ Own(h) /\ pc[h] \in Held /\ faults \in Nat
    BY DEF HelperInv, HelperTypeOK, QuietInv, OwnInv, LockInv
  <2> QED BY <2>1 DEF Quiet, Own
<1> QED BY <1>1, HelperInvariant, PTL

(***************************************************************************)
(* What a step of one invocation may do to the target.                     *)
(***************************************************************************)
LEMMA OthersStay ==
  ASSUME HelperInv, NEW h \in Helpers, HelperStep(h), NEW k \in Helpers, k # h
  PROVE  pc'[k] = pc[k] /\ result'[k] = result[k]
BY DEF HelperInv, HelperTypeOK, HelperStep, Work, Refuse, CallFails, RecoveryFails, Kill, Open,
       Proceed, Fill, Recheck, Replace, Readback, SwapBack, CleanUp, Move, Verify, Unlink,
       FinalSync, Restore, Recreate, Place, Goto, Exit, Hold, Fail

\* Only a step of its own ends an invocation.
LEMMA OwnEnd ==
  ASSUME HelperInv, HelperNext, NEW h \in Helpers, NEW r, Ends(h, r)
  PROVE  HelperStep(h)
<1>1. CASE \E k \in Helpers, policy \in Policies \cup {Absent} : Start(k, policy)
  BY <1>1 DEF Ends, Start, HelperInv, HelperTypeOK
<1>2. CASE \E k \in Helpers : HelperStep(k)
  BY <1>2, OthersStay DEF Ends
<1>3. CASE \E file \in Files : Edit(file)
  BY <1>3 DEF Ends, Edit
<1> QED BY <1>1, <1>2, <1>3 DEF HelperNext

LEMMA EndOk ==
  ASSUME HelperInv, NEW h \in Helpers, HelperStep(h), Ends(h, "ok"), h \notin disturbed
  PROVE  target' = wanted[h]
<1> USE DEF HelperInv, HelperTypeOK, LockInv, OwnInv, Own, QuietInv, Quiet, Ends, Results
<1>1. CASE Open(h)
  BY <1>1 DEF Open, Proceed, Resets, Hold, Exit
<1>2. CASE CleanUp(h)
  BY <1>2 DEF CleanUp, Exit, Verdict
<1>3. CASE FinalSync(h)
  BY <1>3 DEF FinalSync, Exit
<1>4. CASE RecoveryFails(h)
  BY <1>4 DEF RecoveryFails, Goto, Exit, Verdict, Placed
<1>5. CASE Kill(h) \/ Refuse(h) \/ CallFails(h) \/ Restore(h) \/ Place(h) \/ Move(h)
  BY <1>5 DEF Kill, Refuse, CallFails, Restore, Place, Move, Exit, Goto, Fail
<1>6. CASE Fill(h) \/ Recheck(h) \/ Replace(h) \/ Readback(h) \/ SwapBack(h) \/ Verify(h)
           \/ Unlink(h) \/ Recreate(h)
  BY <1>6 DEF Fill, Recheck, Replace, Readback, SwapBack, Verify, Unlink, Recreate, Goto, Fail
<1> QED BY <1>1, <1>2, <1>3, <1>4, <1>5, <1>6 DEF HelperStep, Work

LEMMA EndFailed ==
  ASSUME HelperInv, HelperInv', NEW h \in Helpers, HelperStep(h), Ends(h, "failed"),
         lock = h, h \notin disturbed, faults' <= 1
  PROVE  target' = previous[h]
<1> USE DEF HelperInv, HelperTypeOK, LockInv, OwnInv, Own, QuietInv, Quiet, Ends, Results, Files
<1>1. CASE CleanUp(h)
  BY <1>1 DEF CleanUp, Exit, Verdict
<1>2. CASE Move(h)
  BY <1>2 DEF Move, Goto, Exit
<1>3. CASE Restore(h)
  BY <1>3 DEF Restore, MovedBack, Swap, Goto, Exit
<1>4. CASE Place(h)
  BY <1>4 DEF Place, Placed, Exit
<1>5. CASE CallFails(h)
  BY <1>5 DEF CallFails, Fault, Fail, Exit
<1>6. CASE RecoveryFails(h)
  BY <1>6 DEF RecoveryFails, Fault, Goto, Exit, Verdict
<1>7. CASE Kill(h) \/ Refuse(h) \/ Open(h) \/ FinalSync(h)
  BY <1>7 DEF Kill, Refuse, Open, FinalSync, Exit
<1>8. CASE Fill(h) \/ Recheck(h) \/ Replace(h) \/ Readback(h) \/ SwapBack(h) \/ Verify(h)
           \/ Unlink(h) \/ Recreate(h)
  BY <1>8 DEF Fill, Recheck, Replace, Readback, SwapBack, Verify, Unlink, Recreate, Goto, Fail
<1> QED BY <1>1, <1>2, <1>3, <1>4, <1>5, <1>6, <1>7, <1>8 DEF HelperStep, Work

\* An invocation that says it succeeded has put in place what it was asked
\* for, for any number of invocations, faults and edits (replace_and_verify,
\* remove_and_verify).
THEOREM SuccessIsInPlace == HelperSpec => SuccessInPlace
<1> DEFINE A == \A h \in Helpers : Ends(h, "ok") /\ h \notin disturbed => target' = wanted[h]
<1>1. HelperInv /\ [HelperNext]_helperVars => [A]_helperVars
  <2> SUFFICES ASSUME HelperInv, HelperNext PROVE A
    OBVIOUS
  <2> QED BY OwnEnd, EndOk
<1> QED BY <1>1, HelperInvariant, PTL DEF HelperSpec, SuccessInPlace

\* An invocation that says it failed, and on whose way back no call failed,
\* has put back what it found (the error paths of replace_and_verify and
\* remove_and_verify).
THEOREM FailureIsUndone == HelperSpec => FailureRestores
<1> DEFINE A == \A h \in Helpers :
                  Ends(h, "failed") /\ lock = h /\ h \notin disturbed /\ faults' <= 1 =>
                    target' = previous[h]
<1>1. HelperInv /\ [HelperNext]_helperVars => [A]_helperVars
  <2> SUFFICES ASSUME HelperInv, HelperNext PROVE A
    OBVIOUS
  <2> QED BY OwnEnd, EndFailed, NextInv
<1> QED BY <1>1, HelperInvariant, PTL DEF HelperSpec, FailureRestores

\* A reset destroys nothing but the policy it read, whatever the administrator
\* puts in its place meanwhile (remove_and_verify).
THEOREM ResetDestroysNothingElse == HelperSpec => ResetSparesOthers
<1> DEFINE A == \A h \in Helpers :
                  HelperStep(h) /\ Resets(h) =>
                    {target, temp[h]} \ {previous[h], Absent} \subseteq {target', temp'[h]}
<1>1. ASSUME HelperInv, NEW h \in Helpers, HelperStep(h), Resets(h)
      PROVE  {target, temp[h]} \ {previous[h], Absent} \subseteq {target', temp'[h]}
  <2> USE DEF HelperInv, HelperTypeOK, OwnInv, Own, Resets
  <2>1. CASE Open(h) \/ Refuse(h) \/ CallFails(h) \/ Kill(h) \/ Recheck(h) \/ Readback(h)
             \/ Verify(h) \/ FinalSync(h) \/ Recreate(h)
    BY <1>1, <2>1 DEF Open, Proceed, Refuse, CallFails, Kill, Recheck, Readback, Verify,
                      FinalSync, Recreate
  <2>2. CASE Fill(h) \/ Replace(h) \/ SwapBack(h) \/ CleanUp(h)
    BY <1>1, <2>2 DEF Fill, Replace, SwapBack, CleanUp
  <2>3. CASE Move(h)
    BY <1>1, <2>3 DEF Move
  <2>4. CASE Unlink(h)
    BY <1>1, <2>4 DEF Unlink
  <2>5. CASE Restore(h)
    BY <1>1, <2>5 DEF Restore, MovedBack, Swap
  <2>6. CASE Place(h)
    BY <1>1, <2>6 DEF Place, Placed
  <2>7. CASE RecoveryFails(h)
    BY <1>1, <2>7 DEF RecoveryFails, MovedBack, Placed, Swap
  <2> QED BY <1>1, <2>1, <2>2, <2>3, <2>4, <2>5, <2>6, <2>7 DEF HelperStep, Work
<1>2. HelperInv /\ [HelperNext]_helperVars => [A]_helperVars
  BY <1>1
<1> QED BY <1>2, HelperInvariant, PTL DEF HelperSpec, ResetSparesOthers

-----------------------------------------------------------------------------
(***************************************************************************)
(* PolicyHelper implements PolicyStore.                                    *)
(***************************************************************************)
Staged == [k \in Helpers |-> Stage(k)]

\* A step of one invocation moves its own stage only.
LEMMA StagedStep ==
  ASSUME HelperInv, NEW h \in Helpers, HelperStep(h)
  PROVE  Staged' = [Staged EXCEPT ![h] = Stage(h)']
<1>1. \A k \in Helpers \ {h} : Stage(k)' = Stage(k)
  BY OthersStay DEF Stage
<1> QED BY <1>1 DEF Staged

\* The shapes of a step, each with the step of PolicyStore that it is.
LEMMA Continues ==
  ASSUME HelperInv, NEW h \in Helpers, HelperStep(h), Stage(h)' = Stage(h),
         UNCHANGED <<target, lock, wanted, previous, disturbed>>
  PROVE  UNCHANGED Store!storeVars
<1>1. Staged' = Staged
  BY StagedStep DEF Staged
<1> QED BY <1>1 DEF Store!storeVars, Staged

LEMMA Commits ==
  ASSUME HelperInv, NEW h \in Helpers, HelperStep(h),
         Stage(h) = "holding", Stage(h)' = "committed", target' = wanted[h],
         UNCHANGED <<lock, wanted, previous, disturbed>>
  PROVE  Store!Advance(h)
<1>1. Staged[h] = "holding" /\ Staged' = [Staged EXCEPT ![h] = "committed"]
  BY StagedStep DEF Staged
<1> QED BY <1>1 DEF Store!Advance, Store!Commit, Staged

LEMMA Withdraws ==
  ASSUME HelperInv, NEW h \in Helpers, HelperStep(h),
         Stage(h) \in {"holding", "committed"}, Stage(h)' = "settled",
         target' = target \/ (Stage(h) = "committed" /\ Store!Restored(h)),
         UNCHANGED <<lock, wanted, previous, disturbed>>
  PROVE  Store!Advance(h)
<1>1. Staged[h] = Stage(h) /\ Staged' = [Staged EXCEPT ![h] = "settled"]
  BY StagedStep DEF Staged
<1> QED BY <1>1 DEF Store!Advance, Store!Withdraw, Staged

LEMMA Succeeds ==
  ASSUME HelperInv, NEW h \in Helpers, HelperStep(h), Exit(h, "ok"), UNCHANGED target,
         \/ Stage(h) = "waiting" /\ lock = None /\ wanted[h] = Absent /\ target = Absent
         \/ Stage(h) = "committed" /\ (target = wanted[h] \/ h \in disturbed)
  PROVE  Store!Advance(h)
<1>1. Stage(h)' = "ok"
  BY DEF Exit, Stage, HelperInv, HelperTypeOK
<1>2. Staged[h] = Stage(h) /\ Staged' = [Staged EXCEPT ![h] = "ok"]
  BY <1>1, StagedStep DEF Staged
<1> QED BY <1>2 DEF Store!Advance, Store!Succeed, Store!Leave, Staged, Exit

LEMMA GivesIn ==
  ASSUME HelperInv, NEW h \in Helpers, HelperStep(h), NEW r \in Results \ {"ok"}, Exit(h, r),
         pc[h] \notin {"idle", "exited"},
         target' = target \/ (Stage(h) = "committed" /\ Store!Restored(h))
  PROVE  Store!Advance(h)
<1>1. Stage(h)' = "failed"
  BY DEF Exit, Stage, HelperInv, HelperTypeOK
<1>2. Staged[h] = Stage(h) /\ Staged' = [Staged EXCEPT ![h] = "failed"]
  BY <1>1, StagedStep DEF Staged
<1>3. Stage(h) \in {"waiting", "holding", "committed", "settled"}
  BY DEF Stage, HelperInv, HelperTypeOK
<1> QED BY <1>2, <1>3 DEF Store!Advance, Store!GiveIn, Store!Leave, Staged, Exit

LEMMA OpenAdvances ==
  ASSUME HelperInv, NEW h \in Helpers, HelperStep(h), Open(h) PROVE Store!Advance(h)
<1> USE DEF HelperInv, HelperTypeOK
<1>1. Stage(h) = "waiting"
  BY DEF Open, Stage
<1>2. CASE Hold(h, "moving") \/ Hold(h, "filling")
  <2>1. Stage(h)' = "holding"
    BY <1>2 DEF Hold, Stage
  <2>2. Staged[h] = "waiting" /\ Staged' = [Staged EXCEPT ![h] = "holding"]
    BY <1>1, <2>1, StagedStep DEF Staged
  <2>3. UNCHANGED target
    BY <1>2 DEF Open, Proceed, Hold, Exit, files
  <2> QED BY <1>2, <2>2, <2>3 DEF Open, Hold, Store!Advance, Store!TakeTurn, Staged
<1>3. CASE Resets(h) /\ target = Absent /\ Exit(h, "ok") /\ UNCHANGED <<files, counts>>
  BY <1>1, <1>3, Succeeds DEF Open, Resets
<1> QED BY <1>2, <1>3 DEF Open, Proceed

LEMMA ReplacementAdvances ==
  ASSUME HelperInv, NEW h \in Helpers, HelperStep(h),
         Fill(h) \/ Recheck(h) \/ Replace(h) \/ Readback(h) \/ SwapBack(h) \/ CleanUp(h)
  PROVE  Store!Advance(h) \/ UNCHANGED Store!storeVars
<1> USE DEF HelperInv, HelperTypeOK, LockInv, OwnInv, Own, Results, Goto, Fail
<1>1. CASE Fill(h)
  <2>1. Stage(h)' = Stage(h)
    BY <1>1 DEF Fill, Stage
  <2> QED BY <1>1, <2>1, Continues DEF Fill
<1>2. CASE Recheck(h)
  <2>1. CASE pc'[h] = "checked"
    BY <1>2, <2>1, Continues DEF Recheck, Stage
  <2>2. CASE pc'[h] = "cleaning"
    BY <1>2, <2>2, Withdraws DEF Recheck, Stage
  <2> QED BY <1>2, <2>1, <2>2 DEF Recheck
<1>3. CASE Replace(h)
  <2>1. CASE pc'[h] = "replaced"
    BY <1>3, <2>1, Commits DEF Replace, Swap, Stage
  <2>2. CASE pc'[h] = "cleaning"
    BY <1>3, <2>2, Withdraws DEF Replace, Stage
  <2> QED BY <1>3, <2>1, <2>2 DEF Replace
<1>4. CASE Readback(h)
  <2>1. Stage(h)' = Stage(h)
    BY <1>4 DEF Readback, Stage
  <2> QED BY <1>4, <2>1, Continues DEF Readback
<1>5. CASE SwapBack(h)
  <2>1. Stage(h) = "committed" /\ Stage(h)' = "settled"
    BY <1>5 DEF SwapBack, Stage
  <2>2. target' \in {Absent, target, temp[h]} /\ temp[h] \in Files
    BY <1>5 DEF SwapBack, Swap, Files
  <2>3. h \notin disturbed => target' = previous[h]
    BY <1>5 DEF SwapBack, Swap, QuietInv, Quiet, Files
  <2>4. Store!Restored(h)
    BY <2>2, <2>3 DEF Store!Restored, Files, Store!Files
  <2> QED BY <1>5, <2>1, <2>4, Withdraws DEF SwapBack
<1>6. CASE CleanUp(h)
  <2>1. CASE result[h] = None
    <3>1. Stage(h) = "committed" /\ (target = wanted[h] \/ h \in disturbed)
      BY <1>6, <2>1 DEF CleanUp, Stage, QuietInv, Quiet
    <3> QED BY <1>6, <2>1, <3>1, Succeeds DEF CleanUp, Verdict
  <2>2. CASE result[h] = "failed"
    BY <1>6, <2>2, GivesIn DEF CleanUp, Verdict
  <2> QED BY <1>6, <2>1, <2>2 DEF CleanUp
<1> QED BY <1>1, <1>2, <1>3, <1>4, <1>5, <1>6

LEMMA ResetAdvances ==
  ASSUME HelperInv, NEW h \in Helpers, HelperStep(h),
         \/ Move(h) \/ Verify(h) \/ Unlink(h) \/ FinalSync(h)
         \/ Restore(h) \/ Recreate(h) \/ Place(h)
  PROVE  Store!Advance(h) \/ UNCHANGED Store!storeVars
<1> USE DEF HelperInv, HelperTypeOK, LockInv, OwnInv, Own, Results, Goto, Fail
<1>1. CASE Move(h)
  <2>1. CASE pc'[h] = "moved"
    BY <1>1, <2>1, Commits DEF Move, Stage, Exit
  <2>2. CASE target = Absent
    BY <1>1, <2>2, GivesIn DEF Move
  <2> QED BY <1>1, <2>1, <2>2 DEF Move
<1>2. CASE Verify(h) \/ Unlink(h) \/ Recreate(h)
  <2>1. Stage(h)' = Stage(h)
    BY <1>2 DEF Verify, Unlink, Recreate, Stage
  <2> QED BY <1>2, <2>1, Continues DEF Verify, Unlink, Recreate
<1>3. CASE FinalSync(h)
  <2>1. Stage(h) = "committed" /\ (target = wanted[h] \/ h \in disturbed)
    BY <1>3 DEF FinalSync, Stage, QuietInv, Quiet
  <2> QED BY <1>3, <2>1, Succeeds DEF FinalSync
<1>4. CASE Restore(h)
  <2>1. Stage(h) = "committed"
    BY <1>4 DEF Restore, Stage
  <2>2. CASE Goto(h, "recreating") /\ UNCHANGED files
    <3>1. Stage(h)' = "committed"
      BY <1>4, <2>2 DEF Restore, Stage
    <3> QED BY <2>1, <2>2, <3>1, Continues
  <2>3. CASE Exit(h, "failed") \/ Exit(h, "unrestored")
    <3>1. target' = target \/ target' = previous[h]
      BY <1>4 DEF Restore, MovedBack, Swap
    <3> QED BY <1>4, <2>1, <2>3, <3>1, GivesIn DEF Restore, Store!Restored
  <2> QED BY <1>4, <2>2, <2>3 DEF Restore
<1>5. CASE Place(h)
  <2>1. Stage(h) = "committed"
    BY <1>5 DEF Place, Stage
  <2>2. target' = target \/ target' = previous[h]
    BY <1>5 DEF Place, Placed
  <2>3. Exit(h, "failed") \/ Exit(h, "unrestored")
    BY <1>5 DEF Place
  <2> QED BY <1>5, <2>1, <2>2, <2>3, GivesIn DEF Place, Store!Restored
<1> QED BY <1>1, <1>2, <1>3, <1>4, <1>5

LEMMA FaultAdvances ==
  ASSUME HelperInv, NEW h \in Helpers, HelperStep(h),
         Refuse(h) \/ CallFails(h) \/ RecoveryFails(h) \/ Kill(h)
  PROVE  Store!Advance(h) \/ UNCHANGED Store!storeVars
<1> USE DEF HelperInv, HelperTypeOK, LockInv, OwnInv, Own, Results
<1>1. CASE Refuse(h)
  BY <1>1, GivesIn DEF Refuse
<1>2. CASE Kill(h)
  BY <1>2, GivesIn DEF Kill
<1>3. CASE CallFails(h)
  <2>1. CASE pc[h] \in {"filling", "moving"} /\ Exit(h, "failed")
    BY <1>3, <2>1, GivesIn DEF CallFails
  <2>2. CASE pc[h] \in {"filling", "filled", "checked"} /\ Fail(h)
    <3>1. Stage(h) = "holding" /\ Stage(h)' = "settled"
      BY <2>2 DEF Fail, Stage
    <3> QED BY <1>3, <2>2, <3>1, Withdraws DEF CallFails, Fail
  <2>3. CASE pc[h] \in {"replaced", "moved", "verified", "removed"} /\ Fail(h)
    <3>1. Stage(h)' = Stage(h)
      BY <2>3 DEF Fail, Stage
    <3> QED BY <1>3, <2>3, <3>1, Continues DEF CallFails, Fail
  <2> QED BY <1>3, <2>1, <2>2, <2>3 DEF CallFails
<1>4. CASE RecoveryFails(h)
  <2>1. CASE pc[h] = "undoing" /\ Goto(h, "cleaning")
    <3>1. Stage(h) = "committed" /\ Stage(h)' = "settled"
      BY <2>1 DEF Goto, Stage
    <3>2. UNCHANGED target
      BY <1>4, <2>1 DEF RecoveryFails
    <3> QED BY <2>1, <3>1, <3>2, Withdraws DEF Goto
  <2>2. CASE pc[h] = "cleaning" /\ Exit(h, Verdict(h))
    <3>1. UNCHANGED target
      BY <1>4, <2>2 DEF RecoveryFails
    <3>2. CASE result[h] = None
      <4>1. Stage(h) = "committed" /\ (target = wanted[h] \/ h \in disturbed)
        BY <2>2, <3>2 DEF Stage, QuietInv, Quiet
      <4> QED BY <2>2, <3>1, <3>2, <4>1, Succeeds DEF Verdict
    <3>3. CASE result[h] = "failed"
      BY <2>2, <3>1, <3>3, GivesIn DEF Verdict
    <3> QED BY <2>2, <3>2, <3>3
  <2>3. CASE /\ pc[h] \in {"restoring", "recreating", "placing"}
             /\ Exit(h, "failed") \/ Exit(h, "unrestored")
    <3>1. Stage(h) = "committed"
      BY <2>3 DEF Stage
    <3>2. target' = target \/ target' = previous[h]
      BY <1>4 DEF RecoveryFails, MovedBack, Placed, Swap
    <3> QED BY <2>3, <3>1, <3>2, GivesIn DEF Store!Restored
  <2> QED BY <1>4, <2>1, <2>2, <2>3 DEF RecoveryFails
<1> QED BY <1>1, <1>2, <1>3, <1>4

LEMMA StoreAdvances ==
  ASSUME HelperInv, NEW h \in Helpers, HelperStep(h)
  PROVE  Store!Advance(h) \/ UNCHANGED Store!storeVars
BY OpenAdvances, ReplacementAdvances, ResetAdvances, FaultAdvances DEF HelperStep, Work

LEMMA StoreStarts == HelperInit => Store!StoreInit
BY DEF HelperInit, Store!StoreInit, Stage, Files, Store!Files

LEMMA StoreSteps == HelperInv /\ [HelperNext]_helperVars => [Store!StoreNext]_Store!storeVars
<1> SUFFICES ASSUME HelperInv, [HelperNext]_helperVars
             PROVE  Store!StoreNext \/ UNCHANGED Store!storeVars
  OBVIOUS
<1>1. ASSUME NEW h \in Helpers, NEW policy \in Policies \cup {Absent}, Start(h, policy)
      PROVE  Store!Begin(h, policy)
  <2>1. Staged[h] = "idle" /\ Staged' = [Staged EXCEPT ![h] = "waiting"]
    BY <1>1 DEF Start, Stage, Staged, HelperInv, HelperTypeOK
  <2> QED BY <1>1, <2>1 DEF Start, Store!Begin, Staged
<1>2. ASSUME NEW file \in Files, Edit(file) PROVE Store!Edit(file)
  <2>1. Staged' = Staged
    BY <1>2 DEF Edit, Stage, Staged
  <2> QED BY <1>2, <2>1 DEF Edit, Store!Edit, Staged
<1>3. CASE UNCHANGED helperVars
  BY <1>3 DEF helperVars, locals, Store!storeVars, Stage
<1> QED BY <1>1, <1>2, <1>3, StoreAdvances DEF HelperNext, Store!StoreNext, Files, Store!Files

\* The helper, with its two commands, its faults and kills and the
\* administrator's writes, implements the turns, the commit and the
\* restoration that PolicyStore promises (replace_and_verify,
\* remove_and_verify).
THEOREM KeepsStorePromise == HelperSpec => ImplementsPolicyStore
BY HelperInvariant, StoreStarts, StoreSteps, PTL
   DEF HelperSpec, ImplementsPolicyStore, Store!StoreSpec
=============================================================================
