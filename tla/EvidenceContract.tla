-------------------------- MODULE EvidenceContract --------------------------
(***************************************************************************)
(* What the sleep evidence observer (plugin/bin/evidence_core.py and the   *)
(* process around it) promises the sleep coordinator, whatever logind and  *)
(* systemd do: it holds one submission at a time, announces at most once   *)
(* that it is armed for it, and ends it with one terminal event.           *)
(* EvidenceObserver implements this module; StagedSleep is built on it.    *)
(***************************************************************************)
EXTENDS Sequences

CONSTANTS Submissions,   \* what the coordinator may write to the observer
          None           \* no submission, not an element of Submissions

VARIABLES held,      \* the submission the observer holds, or None
          armed,     \* it has announced that it is armed for held
          stdin,     \* submissions written and not read yet
          events     \* events emitted and not read yet by the coordinator

contractVars == <<held, armed, stdin, events>>

Outcomes == {"Completed", "Failed", "Indeterminate"}

ArmedEvent(a) == [kind |-> "attempt-armed", attempt |-> a]
TerminalEvent(a, o) == [kind |-> "terminal", attempt |-> a, outcome |-> o]

Event == [kind : {"attempt-armed"}, attempt : Submissions]
           \cup [kind : {"terminal"}, attempt : Submissions, outcome : Outcomes]

ContractTypeOK ==
  /\ held \in Submissions \cup {None}
  /\ armed \in BOOLEAN
  /\ stdin \in Seq(Submissions)
  /\ events \in Seq(Event)

ContractInit ==
  /\ held = None
  /\ armed = FALSE
  /\ stdin = <<>>
  /\ events = <<>>

(***************************************************************************)
(* The observer's steps.                                                   *)
(***************************************************************************)

\* It reads a submission and, the baseline job known, announces that it is
\* armed: evidence can be attributed from here on.  If the baseline cannot be
\* read the submission is held unarmed.  While one is held the next is refused,
\* and the refusal names no attempt, so the coordinator ignores it.
Take ==
  /\ stdin # <<>>
  /\ stdin' = Tail(stdin)
  /\ \/ /\ held # None
        /\ UNCHANGED <<held, armed, events>>
     \/ /\ held = None
        /\ held' = Head(stdin)
        /\ armed' \in BOOLEAN
        /\ events' = IF armed' THEN Append(events, ArmedEvent(held')) ELSE events

\* A completed transaction is only ever reported once armed; a failure of the
\* unit, contradictory or missing evidence may end any held submission.
Terminal(o) ==
  /\ held # None
  /\ o = "Completed" => armed
  /\ events' = Append(events, TerminalEvent(held, o))
  /\ held' = None
  /\ armed' = FALSE
  /\ UNCHANGED stdin

(***************************************************************************)
(* The coordinator's side of the two pipes.                                *)
(***************************************************************************)

Write(a) == stdin' = Append(stdin, a) /\ UNCHANGED <<held, armed, events>>

Read ==
  /\ events # <<>>
  /\ events' = Tail(events)
  /\ UNCHANGED <<held, armed, stdin>>

ContractNext ==
  \/ Take
  \/ \E o \in Outcomes : Terminal(o)
  \/ \E a \in Submissions : Write(a)
  \/ Read

ContractSpec == ContractInit /\ [][ContractNext]_contractVars
=============================================================================
