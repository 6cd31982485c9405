---------------------------- MODULE PolicyHelper ----------------------------
(***************************************************************************)
(* The privileged helper (src/main.rs, src/secure_fs.rs): invocations that *)
(* replace or remove one policy drop-in under a lock on its directory,     *)
(* while an administrator, who takes no lock, writes the same name.  A     *)
(* call of the system may fail, and an invocation may be killed, at any    *)
(* step.  A file is what it holds: a policy the helper recognizes, Foreign *)
(* (any other content, owner, mode or kind), Partial, or Absent.           *)
(* Operators named Mutant... are wrong versions of the definition that     *)
(* follows them.                                                           *)
(***************************************************************************)
EXTENDS Naturals

CONSTANTS Helpers,     \* invocations
          Policies,    \* recognized_policy
          Foreign, Partial, Absent,
          None,
          MaxFaults,   \* bound: calls of the system that fail, and kills
          MaxEdits     \* bound: writes of the administrator

Files == Policies \cup {Foreign, Absent}
Results == {"ok", "failed", "unrestored", "killed"}

ASSUME PolicyHelperAssumption ==
  /\ MaxFaults \in Nat /\ MaxEdits \in Nat
  /\ Foreign \notin Policies \cup {Partial, Absent}
  /\ Partial \notin Policies \cup {Absent}
  /\ Absent \notin Policies
  /\ None \notin Helpers \cup Results \cup Files

VARIABLES
  target,     \* 90-hibermachy.conf
  temp,       \* each invocation's .tmp or .reset.tmp
  recovery,   \* each invocation's .restore-...tmp
  lock,       \* holder of the directory's flock
  pc,         \* where an invocation is
  wanted,     \* the policy to apply; Absent for a reset
  previous,   \* previous_policy
  result,     \* None while all is well and the invocation runs
  disturbed,  \* invocations during which the administrator wrote the target
  faults, edits

files == <<target, temp, recovery>>
counts == <<faults, edits>>
locals == <<lock, pc, wanted, previous, result, disturbed>>
helperVars == <<files, locals, counts>>

\* Where an invocation goes from each step that can fail with something to
\* undo.
Undo == [filling |-> "cleaning", filled |-> "cleaning", checked |-> "cleaning",
         replaced |-> "undoing", moved |-> "restoring", verified |-> "restoring",
         removed |-> "recreating"]

Steps == DOMAIN Undo \cup {"idle", "waiting", "moving", "cleaning", "undoing",
                           "restoring", "recreating", "placing", "exited"}

HelperTypeOK ==
  /\ target \in Files
  /\ temp \in [Helpers -> Files \cup {Partial}]
  /\ recovery \in [Helpers -> Policies \cup {Absent}]
  /\ lock \in Helpers \cup {None}
  /\ pc \in [Helpers -> Steps]
  /\ wanted \in [Helpers -> Policies \cup {Absent}]
  /\ previous \in [Helpers -> Policies \cup {Absent}]
  /\ result \in [Helpers -> Results \cup {None}]
  /\ disturbed \subseteq Helpers
  /\ faults \in 0..MaxFaults
  /\ edits \in 0..MaxEdits

HelperInit ==
  /\ target \in Files
  /\ temp = [h \in Helpers |-> Absent]
  /\ recovery = [h \in Helpers |-> Absent]
  /\ lock = None
  /\ pc = [h \in Helpers |-> "idle"]
  /\ wanted = [h \in Helpers |-> Absent]
  /\ previous = [h \in Helpers |-> Absent]
  /\ result = [h \in Helpers |-> None]
  /\ disturbed = {}
  /\ faults = 0
  /\ edits = 0

Resets(h) == wanted[h] = Absent

Goto(h, step) ==
  /\ pc' = [pc EXCEPT ![h] = step]
  /\ UNCHANGED <<lock, wanted, previous, result, disturbed>>

\* The invocation ends, and its lock and memory with it.
Exit(h, r) ==
  /\ pc' = [pc EXCEPT ![h] = "exited"]
  /\ result' = [result EXCEPT ![h] = r]
  /\ lock' = IF lock = h THEN None ELSE lock
  /\ wanted' = [wanted EXCEPT ![h] = Absent]
  /\ previous' = [previous EXCEPT ![h] = Absent]
  /\ disturbed' = disturbed \ {h}

\* The invocation has the lock and has read the target.
Hold(h, step) ==
  /\ pc' = [pc EXCEPT ![h] = step]
  /\ lock' = h
  /\ previous' = [previous EXCEPT ![h] = target]
  /\ UNCHANGED <<wanted, result, disturbed>>

\* The closure of replace_and_verify or remove_and_verify returns an error.
Fail(h) ==
  /\ pc' = [pc EXCEPT ![h] = Undo[pc[h]]]
  /\ result' = [result EXCEPT ![h] = "failed"]
  /\ UNCHANGED <<lock, wanted, previous, disturbed>>

-----------------------------------------------------------------------------
(***************************************************************************)
(* Both commands.                                                          *)
(***************************************************************************)

\* main: a valid command, with effective root.
Start(h, policy) ==
  /\ pc[h] = "idle"
  /\ pc' = [pc EXCEPT ![h] = "waiting"]
  /\ wanted' = [wanted EXCEPT ![h] = policy]
  /\ UNCHANGED <<files, lock, previous, result, disturbed, counts>>

\* policy_directory, flock or the creation of the temporary fails, or the
\* target that is there is not recognized.
Refuse(h) ==
  /\ pc[h] = "waiting"
  /\ Exit(h, "failed")
  /\ UNCHANGED <<files, counts>>

\* There may be nothing to reset.  What a replacement does next is create its
\* temporary.
Proceed(h) ==
  \/ /\ Resets(h) /\ target = Absent
     /\ Exit(h, "ok")
     /\ UNCHANGED <<files, counts>>
  \/ /\ Resets(h) /\ target # Absent
     /\ Hold(h, "moving")
     /\ UNCHANGED <<files, counts>>
  \/ /\ ~Resets(h)
     /\ Hold(h, "filling")
     /\ temp' = [temp EXCEPT ![h] = Partial]
     /\ UNCHANGED <<target, recovery, counts>>

MutantOpenUnlocked(h) == pc[h] = "waiting" /\ target # Foreign /\ Proceed(h)
\* The lock is taken, and a target that is recognized, or none, is read.
Open(h) == pc[h] = "waiting" /\ lock = None /\ target # Foreign /\ Proceed(h)

-----------------------------------------------------------------------------
(***************************************************************************)
(* replace_and_verify.                                                     *)
(***************************************************************************)

\* write_all, set_permissions, synchronize.
Fill(h) ==
  /\ pc[h] = "filling"
  /\ temp' = [temp EXCEPT ![h] = wanted[h]]
  /\ Goto(h, "filled")
  /\ UNCHANGED <<target, recovery, counts>>

\* The target must still be what it was.
Recheck(h) ==
  /\ pc[h] = "filled"
  /\ IF target = previous[h] THEN Goto(h, "checked") ELSE Fail(h)
  /\ UNCHANGED <<files, counts>>

Swap(h) == target' = temp[h] /\ temp' = [temp EXCEPT ![h] = target]

\* RENAME_EXCHANGE needs both names, RENAME_NOREPLACE an absent target.
Replace(h) ==
  /\ pc[h] = "checked"
  /\ IF (previous[h] = Absent) <=> (target = Absent)
       THEN Swap(h) /\ Goto(h, "replaced")
       ELSE Fail(h) /\ UNCHANGED <<target, temp>>
  /\ UNCHANGED <<recovery, counts>>

Readback(h) ==
  /\ pc[h] = "replaced"
  /\ IF target = wanted[h] THEN Goto(h, "cleaning") ELSE Fail(h)
  /\ UNCHANGED <<files, counts>>

MutantSwapBack(h) ==
  /\ pc[h] = "undoing"
  /\ target' = Absent
  /\ UNCHANGED temp
  /\ Goto(h, "cleaning")
  /\ UNCHANGED <<recovery, counts>>

\* The error after a replacement: swap back, or unlink what was created.
SwapBack(h) ==
  /\ pc[h] = "undoing"
  /\ IF previous[h] = Absent
       THEN target' = Absent /\ UNCHANGED temp
       ELSE IF target = Absent THEN UNCHANGED <<target, temp>> ELSE Swap(h)
  /\ Goto(h, "cleaning")
  /\ UNCHANGED <<recovery, counts>>

Verdict(h) == IF result[h] = None THEN "ok" ELSE result[h]

MutantCleanUp(h) ==
  /\ pc[h] = "cleaning"
  /\ temp' = [temp EXCEPT ![h] = Absent]
  /\ Exit(h, "ok")
  /\ UNCHANGED <<target, recovery, counts>>

\* The temporary goes, and the invocation with it.
CleanUp(h) ==
  /\ pc[h] = "cleaning"
  /\ temp' = [temp EXCEPT ![h] = Absent]
  /\ Exit(h, Verdict(h))
  /\ UNCHANGED <<target, recovery, counts>>

-----------------------------------------------------------------------------
(***************************************************************************)
(* remove_and_verify.                                                      *)
(***************************************************************************)

MutantMove(h) ==
  /\ pc[h] = "moving"
  /\ target' = Absent
  /\ IF target = Absent THEN Exit(h, "failed") ELSE Goto(h, "verified")
  /\ UNCHANGED <<temp, recovery, counts>>

\* The target is renamed out of the way.
Move(h) ==
  /\ pc[h] = "moving"
  /\ IF target = Absent
       THEN Exit(h, "failed") /\ UNCHANGED temp
       ELSE Goto(h, "moved") /\ temp' = [temp EXCEPT ![h] = target]
  /\ target' = Absent
  /\ UNCHANGED <<recovery, counts>>

MutantVerify(h) ==
  /\ pc[h] = "moved"
  /\ IF target = Absent THEN Goto(h, "verified") ELSE Fail(h)
  /\ UNCHANGED <<files, counts>>

\* What was moved must be what was read, and nothing be in its place.
Verify(h) ==
  /\ pc[h] = "moved"
  /\ IF temp[h] = previous[h] /\ target = Absent THEN Goto(h, "verified") ELSE Fail(h)
  /\ UNCHANGED <<files, counts>>

Unlink(h) ==
  /\ pc[h] = "verified"
  /\ temp' = [temp EXCEPT ![h] = Absent]
  /\ Goto(h, "removed")
  /\ UNCHANGED <<target, recovery, counts>>

\* The last synchronize.
FinalSync(h) ==
  /\ pc[h] = "removed"
  /\ Exit(h, "ok")
  /\ UNCHANGED <<files, counts>>

\* The temporary is still the policy, and nothing is in its place.
MovedBack(h) ==
  /\ temp[h] = previous[h]
  /\ target = Absent
  /\ Swap(h)
  /\ UNCHANGED recovery

\* The error before the temporary is unlinked.  A temporary that is not
\* recognized ends the invocation at once, with that error.
Restore(h) ==
  /\ pc[h] = "restoring"
  /\ \/ MovedBack(h) /\ Exit(h, "failed")
     \/ temp[h] = Foreign /\ Exit(h, "failed") /\ UNCHANGED files
     \/ temp[h] = previous[h] /\ target # Absent /\ Exit(h, "unrestored") /\ UNCHANGED files
     \/ temp[h] \notin {Foreign, previous[h]} /\ Goto(h, "recreating") /\ UNCHANGED files
  /\ UNCHANGED counts

\* restore_removed_policy: the recovery file is created, filled and made
\* durable; what a kill leaves of it before that is nobody's policy.
Recreate(h) ==
  /\ pc[h] = "recreating"
  /\ recovery' = [recovery EXCEPT ![h] = previous[h]]
  /\ Goto(h, "placing")
  /\ UNCHANGED <<target, temp, counts>>

Placed(h) ==
  /\ target = Absent
  /\ target' = recovery[h]
  /\ recovery' = [recovery EXCEPT ![h] = Absent]
  /\ UNCHANGED temp

\* A target that has appeared is not overwritten; the recovery file stays.
Place(h) ==
  /\ pc[h] = "placing"
  /\ \/ Placed(h) /\ Exit(h, "failed")
     \/ target # Absent /\ Exit(h, "unrestored") /\ UNCHANGED files
  /\ UNCHANGED counts

-----------------------------------------------------------------------------
(***************************************************************************)
(* What goes wrong, and who else is there.                                 *)
(***************************************************************************)

Fault == faults < MaxFaults /\ faults' = faults + 1

\* A call fails on the way.  Before the first write or rename there is nothing
\* to undo, but a temporary that was just created may be left.
CallFails(h) ==
  /\ Fault
  /\ \/ pc[h] \in DOMAIN Undo /\ Fail(h)
     \/ pc[h] \in {"filling", "moving"} /\ Exit(h, "failed")
  /\ UNCHANGED <<files, edits>>

\* A call fails on the way back: a replacement does not look at it, a reset
\* says so, except where it reads its temporary.  What was put back stays so if
\* only the last synchronize fails.
RecoveryFails(h) ==
  /\ Fault
  /\ \/ pc[h] = "undoing" /\ Goto(h, "cleaning")
     \/ pc[h] = "cleaning" /\ Exit(h, Verdict(h))
     \/ pc[h] = "restoring" /\ Exit(h, "failed")
     \/ pc[h] \in {"restoring", "recreating", "placing"} /\ Exit(h, "unrestored")
  /\ \/ UNCHANGED files
     \/ pc[h] = "restoring" /\ result'[h] = "unrestored" /\ MovedBack(h)
     \/ pc[h] = "placing" /\ Placed(h)
  /\ UNCHANGED edits

Kill(h) ==
  /\ Fault
  /\ pc[h] \notin {"idle", "exited"}
  /\ Exit(h, "killed")
  /\ UNCHANGED <<files, edits>>

\* The administrator writes or removes the target.
Edit(file) ==
  /\ edits < MaxEdits
  /\ edits' = edits + 1
  /\ target' = file
  /\ disturbed' = disturbed \cup ({lock} \ {None})
  /\ UNCHANGED <<temp, recovery, lock, pc, wanted, previous, result, faults>>

\* What an invocation does by itself.
Work(h) ==
  \/ Open(h) \/ Fill(h) \/ Recheck(h) \/ Replace(h) \/ Readback(h) \/ SwapBack(h)
  \/ CleanUp(h) \/ Move(h) \/ Verify(h) \/ Unlink(h) \/ FinalSync(h) \/ Restore(h)
  \/ Recreate(h) \/ Place(h)

HelperStep(h) == Work(h) \/ Refuse(h) \/ CallFails(h) \/ RecoveryFails(h) \/ Kill(h)

HelperNext ==
  \/ \E h \in Helpers, policy \in Policies \cup {Absent} : Start(h, policy)
  \/ \E h \in Helpers : HelperStep(h)
  \/ \E file \in Files : Edit(file)

HelperSpec == HelperInit /\ [][HelperNext]_helperVars

-----------------------------------------------------------------------------
Stage(h) ==
  CASE pc[h] \in {"idle", "waiting"} -> pc[h]
    [] pc[h] \in {"filling", "filled", "checked", "moving"} -> "holding"
    [] pc[h] = "exited" -> IF result[h] = "ok" THEN "ok" ELSE "failed"
    [] pc[h] = "cleaning" /\ result[h] # None -> "settled"
    [] OTHER -> "committed"

Store == INSTANCE PolicyStore
           WITH turn <- lock, found <- previous, stage <- [h \in Helpers |-> Stage(h)]

\* However an invocation is interrupted, fails, is killed or is disturbed, it
\* does to the policy file what PolicyStore promises, on which SystemPolicy
\* relies.
ImplementsPolicyStore == Store!StoreSpec

Ends(h, r) == pc[h] # "exited" /\ pc'[h] = "exited" /\ result'[h] = r

\* An invocation that succeeds leaves the target as it was asked to, whatever
\* other invocations do and whatever failed, unless the administrator wrote it
\* meanwhile (replace_and_verify, remove_and_verify).
SuccessInPlace ==
  [][\A h \in Helpers : Ends(h, "ok") /\ h \notin disturbed => target' = wanted[h]]_helperVars

\* One that fails leaves the target as it found it, if no call failed on the
\* way back as well (tests/apply_process.rs,
\* readback_faults_restore_the_complete_previous_policy).
FailureRestores ==
  [][\A h \in Helpers :
       Ends(h, "failed") /\ lock = h /\ h \notin disturbed /\ faults' <= 1 =>
         target' = previous[h]]_helperVars

\* Until a reset has unlinked what it was to remove, the policy an invocation
\* found is still in the directory: a kill at any step leaves it there.
PolicySurvivesKill ==
  \A h \in Helpers :
    lock = h /\ h \notin disturbed /\ faults <= 1 /\ pc[h] \notin {"removed", "recreating"} =>
      previous[h] \in {Absent, target, temp[h], recovery[h]}

\* What the administrator puts in the place of the policy while it is being
\* reset is never destroyed: it stays, or is kept under the temporary name.
ResetSparesOthers ==
  [][\A h \in Helpers :
       HelperStep(h) /\ Resets(h) =>
         {target, temp[h]} \ {previous[h], Absent} \subseteq {target', temp'[h]}]_helperVars
=============================================================================
