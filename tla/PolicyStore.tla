----------------------------- MODULE PolicyStore -----------------------------
(***************************************************************************)
(* What the privileged helper (src/main.rs, src/secure_fs.rs) promises of  *)
(* the one policy file it owns: its invocations take turns; each puts what *)
(* it was asked for in the place of what it found, at once, and may put    *)
(* that back; it says that it succeeded only if what it was asked for is   *)
(* in place.  An administrator takes no turns, and writes what he likes;   *)
(* of an invocation he disturbed less is promised.                         *)
(***************************************************************************)
CONSTANTS Helpers,     \* invocations
          Policies,    \* what the helper recognizes
          Foreign,     \* a file that it does not
          Absent,      \* no file; what a reset asks for
          None

Files == Policies \cup {Foreign, Absent}
Stages == {"idle", "waiting", "holding", "committed", "settled", "ok", "failed"}

VARIABLES
  target,     \* the policy file
  turn,       \* the invocation whose turn it is
  stage,      \* how far an invocation is
  wanted,     \* what it was asked for
  found,      \* what it found
  disturbed   \* invocations during whose turn the administrator wrote

storeVars == <<target, turn, stage, wanted, found, disturbed>>

StoreTypeOK ==
  /\ target \in Files
  /\ turn \in Helpers \cup {None}
  /\ stage \in [Helpers -> Stages]
  /\ wanted \in [Helpers -> Policies \cup {Absent}]
  /\ found \in [Helpers -> Policies \cup {Absent}]
  /\ disturbed \subseteq Helpers

StoreInit ==
  /\ target \in Files
  /\ turn = None
  /\ stage = [h \in Helpers |-> "idle"]
  /\ wanted = [h \in Helpers |-> Absent]
  /\ found = [h \in Helpers |-> Absent]
  /\ disturbed = {}

Begin(h, policy) ==
  /\ stage[h] = "idle"
  /\ stage' = [stage EXCEPT ![h] = "waiting"]
  /\ wanted' = [wanted EXCEPT ![h] = policy]
  /\ UNCHANGED <<target, turn, found, disturbed>>

\* The lock is taken and a file that is recognized is read.
TakeTurn(h) ==
  /\ stage[h] = "waiting"
  /\ turn = None
  /\ target # Foreign
  /\ turn' = h
  /\ stage' = [stage EXCEPT ![h] = "holding"]
  /\ found' = [found EXCEPT ![h] = target]
  /\ UNCHANGED <<target, wanted, disturbed>>

\* The one rename.
Commit(h) ==
  /\ stage[h] = "holding"
  /\ target' = wanted[h]
  /\ stage' = [stage EXCEPT ![h] = "committed"]
  /\ UNCHANGED <<turn, wanted, found, disturbed>>

\* It goes no further, or puts back what it found; an administrator's file it
\* has displaced may come back instead, or stay where it is.
Restored(h) == target' = found[h] \/ (h \in disturbed /\ target' \in Files)

Withdraw(h) ==
  /\ stage[h] \in {"holding", "committed"}
  /\ target' = target \/ (stage[h] = "committed" /\ Restored(h))
  /\ stage' = [stage EXCEPT ![h] = "settled"]
  /\ UNCHANGED <<turn, wanted, found, disturbed>>

Leave(h, verdict) ==
  /\ stage' = [stage EXCEPT ![h] = verdict]
  /\ turn' = IF turn = h THEN None ELSE turn
  /\ wanted' = [wanted EXCEPT ![h] = Absent]
  /\ found' = [found EXCEPT ![h] = Absent]
  /\ disturbed' = disturbed \ {h}

\* There was nothing to reset, or what was asked for is in place.
Succeed(h) ==
  /\ \/ stage[h] = "waiting" /\ turn = None /\ wanted[h] = Absent /\ target = Absent
     \/ stage[h] = "committed" /\ (target = wanted[h] \/ h \in disturbed)
  /\ Leave(h, "ok")
  /\ UNCHANGED target

\* An invocation fails, or is killed.  It may have put back what it found in
\* the same step.
GiveIn(h) ==
  /\ stage[h] \in {"waiting", "holding", "committed", "settled"}
  /\ target' = target \/ (stage[h] = "committed" /\ Restored(h))
  /\ Leave(h, "failed")

\* The administrator writes or removes the file.
Edit(file) ==
  /\ target' = file
  /\ disturbed' = disturbed \cup ({turn} \ {None})
  /\ UNCHANGED <<turn, stage, wanted, found>>

Advance(h) == TakeTurn(h) \/ Commit(h) \/ Withdraw(h) \/ Succeed(h) \/ GiveIn(h)

StoreNext ==
  \/ \E h \in Helpers, policy \in Policies \cup {Absent} : Begin(h, policy)
  \/ \E h \in Helpers : Advance(h)
  \/ \E file \in Files : Edit(file)

StoreSpec == StoreInit /\ [][StoreNext]_storeVars
=============================================================================
