-------------------------- MODULE EvidenceObserver --------------------------
(***************************************************************************)
(* The evidence observer: the state machine of plugin/bin/evidence_core.py *)
(* and the process of plugin/bin/hibermachy-sleep-evidence-observer that   *)
(* feeds it from its standard input and from the system bus.  It watches   *)
(* logind and systemd, which put machines to sleep for other reasons too,  *)
(* and says of one submitted attempt at a time how it ended.               *)
(* The process is one main loop: a handler is one action.                  *)
(***************************************************************************)
EXTENDS Naturals, Sequences

CONSTANTS Submissions,   \* attempts the coordinator may submit, each once
          Units,         \* the sleep units of systemd
          UnitOf,        \* the unit a submission's mode selects
          MaxJobs,       \* bound: jobs of the sleep units
          MaxSleeps,     \* bound: sleep transitions of logind
          None

ASSUME ObserverAssumption ==
  /\ None \notin Submissions
  /\ UnitOf \in [Submissions -> Units]
  /\ MaxJobs \in Nat
  /\ MaxSleeps \in Nat

VARIABLES
  \* the two pipes and what the coordinator knows of (EvidenceContract)
  held,        \* self.attempt, its identity
  armed,       \* baselineJobId is not None
  stdin, events,
  \* the rest of self.attempt
  phase, baseline, job, jobDone,
  \* the bus connection: signals received and not dispatched yet
  bus,
  \* logind and systemd
  preparing,   \* PrepareForSleep(true) was sent and not yet followed by false
  running,     \* the job of a sleep unit, or None
  jobs,        \* jobs started so far; identifiers are never reused
  sleeps,      \* sleep transitions so far
  \* what the properties look at
  written,     \* submissions written
  trail        \* telling signals dispatched while held

fieldVars == <<phase, baseline, job, jobDone>>
systemVars == <<preparing, running, jobs, sleeps>>
vars == <<held, armed, stdin, events, fieldVars, bus, systemVars, written,
          trail>>

Contract == INSTANCE EvidenceContract

Phases == {"awaiting-entry", "awaiting-resume", "awaiting-unit-result"}
JobIds == 1..MaxJobs
NoJob == 0

PrepareForSleep(on) == [kind |-> "PrepareForSleep", on |-> on]
JobStarted(u, i) == [kind |-> "Job", unit |-> u, id |-> i]
JobRemoved(u, i, done) == [kind |-> "JobRemoved", unit |-> u, id |-> i, done |-> done]
\* id is the job whose result it is; the observer is not told.
UnitResult(u, i, ok) == [kind |-> "Result", unit |-> u, id |-> i, ok |-> ok]

Signal ==
  [kind : {"PrepareForSleep"}, on : BOOLEAN]
    \cup [kind : {"Job"}, unit : Units, id : JobIds]
    \cup [kind : {"JobRemoved"}, unit : Units, id : JobIds, done : BOOLEAN]
    \cup [kind : {"Result"}, unit : Units, id : JobIds, ok : BOOLEAN]

Job == [unit : Units, id : JobIds]

\* Only one job is ever credited to an attempt, only once it is armed, and
\* never the one that was running before.
TypeOK ==
  /\ Contract!ContractTypeOK
  /\ phase \in Phases
  /\ baseline \in JobIds \cup {NoJob}
  /\ job \in JobIds \cup {NoJob}
  /\ jobDone \in BOOLEAN
  /\ jobDone => job # NoJob
  /\ job # NoJob => armed /\ job # baseline
  /\ armed => held # None
  /\ bus \in Seq(Signal)
  /\ preparing \in BOOLEAN
  /\ running \in Job \cup {None}
  /\ jobs \in 0..MaxJobs
  /\ sleeps \in 0..MaxSleeps
  /\ written \subseteq Submissions
  /\ trail \in Seq(Signal)

Init ==
  /\ Contract!ContractInit
  /\ phase = "awaiting-entry"
  /\ baseline = NoJob
  /\ job = NoJob
  /\ jobDone = FALSE
  /\ bus = <<>>
  /\ preparing = FALSE
  /\ running = None
  /\ jobs = 0
  /\ sleeps = 0
  /\ written = {}
  /\ trail = <<>>

(***************************************************************************)
(* The coordinator's ends of the pipes.                                    *)
(***************************************************************************)

Write(a) ==
  /\ a \notin written
  /\ written' = written \cup {a}
  /\ Contract!Write(a)
  /\ UNCHANGED <<fieldVars, bus, systemVars, trail>>

Read ==
  /\ Contract!Read
  /\ UNCHANGED <<fieldVars, bus, systemVars, written, trail>>

(***************************************************************************)
(* logind and systemd.  They serve everybody: a job need not be ours, and  *)
(* the signals of the two are only ordered by the bus.                     *)
(***************************************************************************)

Send(signals) == bus' = bus \o signals

LogindPrepares ==
  /\ ~preparing
  /\ sleeps < MaxSleeps
  /\ sleeps' = sleeps + 1
  /\ preparing' = TRUE
  /\ Send(<<PrepareForSleep(TRUE)>>)
  /\ UNCHANGED <<running, jobs>>

JobStarts(u) ==
  /\ running = None
  /\ jobs < MaxJobs
  /\ jobs' = jobs + 1
  /\ running' = [unit |-> u, id |-> jobs']
  /\ Send(<<JobStarted(u, jobs')>>)
  /\ UNCHANGED <<preparing, sleeps>>

\* The job's removal is announced when it happens, the unit's new Result with
\* the next batch of property changes.
JobEnds(done) ==
  /\ running # None
  /\ running' = None
  /\ Send(<<JobRemoved(running.unit, running.id, done),
            UnitResult(running.unit, running.id, done)>>)
  /\ UNCHANGED <<preparing, jobs, sleeps>>

LogindResumes ==
  /\ preparing
  /\ running = None
  /\ preparing' = FALSE
  /\ Send(<<PrepareForSleep(FALSE)>>)
  /\ UNCHANGED <<running, jobs, sleeps>>

System ==
  /\ \/ LogindPrepares
     \/ \E u \in Units : JobStarts(u)
     \/ \E done \in BOOLEAN : JobEnds(done)
     \/ LogindResumes
  /\ UNCHANGED <<held, armed, stdin, events, fieldVars, written, trail>>

(***************************************************************************)
(* The state machine.  Its handlers keep the attempt, change a field of it *)
(* or end it with a terminal event.                                        *)
(***************************************************************************)

Keep == UNCHANGED <<held, armed, events>>
Ignore == Keep /\ UNCHANGED fieldVars

\* _terminal: with the attempt its fields are gone.
End(o) ==
  /\ events' = Append(events, Contract!TerminalEvent(held, o))
  /\ held' = None
  /\ armed' = FALSE
  /\ phase' = "awaiting-entry"
  /\ baseline' = NoJob
  /\ job' = NoJob
  /\ jobDone' = FALSE

\* A resume without an entry is not noticed.
MutantOnPrepareForSleep(on) ==
  IF on
    THEN Keep /\ phase' = "awaiting-resume" /\ UNCHANGED <<baseline, job, jobDone>>
    ELSE IF jobDone THEN End("Completed")
         ELSE Keep /\ phase' = "awaiting-unit-result" /\ UNCHANGED <<baseline, job, jobDone>>

OnPrepareForSleep(on) ==
  IF phase # (IF on THEN "awaiting-entry" ELSE "awaiting-resume")
    THEN End("Indeterminate")
    ELSE IF ~on /\ jobDone
      THEN End("Completed")
      ELSE /\ Keep
           /\ phase' = IF on THEN "awaiting-resume" ELSE "awaiting-unit-result"
           /\ UNCHANGED <<baseline, job, jobDone>>

\* unit_job_started: only a job that was not the baseline one counts, and only
\* one job can be the attempt's.
OnJobStarted(u, i) ==
  IF u # UnitOf[held] \/ ~armed \/ i = baseline
    THEN Ignore
    ELSE IF job # NoJob /\ job # i
      THEN End("Indeterminate")
      ELSE Keep /\ job' = i /\ UNCHANGED <<phase, baseline, jobDone>>

OnJobRemoved(u, i, done) ==
  IF u # UnitOf[held] \/ i # job
    THEN Ignore
    ELSE IF ~done
      THEN End("Failed")
      ELSE IF phase = "awaiting-unit-result"
        THEN End("Completed")
        ELSE Keep /\ jobDone' = TRUE /\ UNCHANGED <<phase, baseline, job>>

\* unit_properties: a bad Result of the unit fails the attempt.
OnUnitResult(u, ok) ==
  IF u = UnitOf[held] /\ ~ok THEN End("Failed") ELSE Ignore

Dispatch(s) ==
  CASE s.kind = "PrepareForSleep" -> OnPrepareForSleep(s.on)
    [] s.kind = "Job"             -> OnJobStarted(s.unit, s.id)
    [] s.kind = "JobRemoved"      -> OnJobRemoved(s.unit, s.id, s.done)
    [] s.kind = "Result"          -> OnUnitResult(s.unit, s.ok)

\* A signal that bears on whether the attempt's transaction completed.
Telling(s) ==
  \/ s.kind = "PrepareForSleep"
  \/ s.kind \in {"Job", "JobRemoved"} /\ s.unit = UnitOf[held]

\* The main loop dispatches a signal; without an attempt it is nothing to it.
HandleSignal ==
  /\ bus # <<>>
  /\ bus' = Tail(bus)
  /\ IF held = None THEN Ignore ELSE Dispatch(Head(bus))
  /\ trail' = IF held' = None THEN <<>>
              ELSE IF Telling(Head(bus)) THEN Append(trail, Head(bus))
              ELSE trail
  /\ UNCHANGED <<stdin, systemVars, written>>

\* The job of the unit as systemd knows it now, whatever signals about it
\* still wait to be dispatched.
CurrentJob(u) ==
  IF running # None /\ running.unit = u THEN running.id ELSE NoJob

\* submit and arm.  The property read may fail: the attempt is then held with
\* no baseline, and only a deadline or bad news ends it.
Accept(a) ==
  /\ held' = a
  /\ phase' = "awaiting-entry"
  /\ job' = NoJob
  /\ jobDone' = FALSE
  /\ \/ /\ armed' = TRUE
        /\ baseline' = CurrentJob(UnitOf[a])
        /\ events' = Append(events, Contract!ArmedEvent(a))
     \/ /\ armed' = FALSE
        /\ baseline' = NoJob
        /\ UNCHANGED events
  /\ trail' = <<>>

\* A second submission takes the place of the one that is held.
MutantReadSubmission ==
  /\ stdin # <<>>
  /\ stdin' = Tail(stdin)
  /\ Accept(Head(stdin))
  /\ UNCHANGED <<bus, systemVars, written>>

\* _stdin: a submission while another is held is refused.
ReadSubmission ==
  /\ stdin # <<>>
  /\ stdin' = Tail(stdin)
  /\ IF held = None
       THEN Accept(Head(stdin))
       ELSE Ignore /\ UNCHANGED trail
  /\ UNCHANGED <<bus, systemVars, written>>

\* The deadline that starts with the resume is never looked at.
MutantDeadline ==
  /\ held # None
  /\ phase = "awaiting-entry"
  /\ End("Indeterminate")
  /\ trail' = <<>>
  /\ UNCHANGED <<stdin, bus, systemVars, written>>

\* tick: the entry or the post-resume window is over.  While the machine is
\* expected to come back there is no deadline.
Deadline ==
  /\ held # None
  /\ phase \in {"awaiting-entry", "awaiting-unit-result"}
  /\ End("Indeterminate")
  /\ trail' = <<>>
  /\ UNCHANGED <<stdin, bus, systemVars, written>>

Next ==
  \/ \E a \in Submissions : Write(a)
  \/ Read
  \/ System
  \/ HandleSignal
  \/ ReadSubmission
  \/ Deadline

(***************************************************************************)
(* The main loop runs: signals are dispatched and deadlines noticed.  A    *)
(* sleep transition that has begun ends: logind sends a resume for every   *)
(* entry, after the job it waits for.                                      *)
(***************************************************************************)
Fairness ==
  /\ WF_vars(HandleSignal)
  /\ WF_vars(Deadline)
  /\ WF_vars(LogindResumes /\ System)
  /\ WF_vars(\E done \in BOOLEAN : JobEnds(done) /\ System)

Spec == Init /\ [][Next]_vars
FairSpec == Spec /\ Fairness

-----------------------------------------------------------------------------
(***************************************************************************)
(* Properties.                                                             *)
(***************************************************************************)

Ends(o) == held # None /\ events' = Append(events, Contract!TerminalEvent(held, o))

\* A transaction is reported as completed only if, since the attempt was
\* taken, one job of its unit other than the baseline one was seen to start
\* and to be done, and the machine was seen to go down once and then to come
\* back once, whatever else was going on (EvidenceState).
Witnesses(t) ==
  /\ \E i, j \in 1..Len(t) :
       /\ i < j
       /\ \E id \in JobIds \ {baseline} :
            /\ t[i] = JobStarted(UnitOf[held], id)
            /\ t[j] = JobRemoved(UnitOf[held], id, TRUE)
  /\ \E i, j \in 1..Len(t) :
       /\ i < j
       /\ \A k \in 1..Len(t) :
            /\ t[k] = PrepareForSleep(TRUE) <=> k = i
            /\ t[k] = PrepareForSleep(FALSE) <=> k = j

CompletedIsWitnessed ==
  [][Ends("Completed") => Witnesses(Append(trail, Head(bus)))]_vars

\* The observer keeps what the coordinator is built on (EvidenceContract).
ImplementsContract == Contract!ContractSpec

\* No attempt is held for ever: if signals arrive late, in an unlucky order or
\* belong to somebody else's sleep, a later signal or a deadline ends it.
EveryHeldAttemptEnds == held # None ~> held = None
=============================================================================
