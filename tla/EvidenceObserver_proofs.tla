----------------------- MODULE EvidenceObserver_proofs -----------------------
(***************************************************************************)
(* That the evidence observer keeps its contract with the coordinator, and *)
(* calls an attempt complete only for what it has witnessed, for any       *)
(* number of submissions, jobs and sleep transitions.                      *)
(***************************************************************************)
EXTENDS EvidenceObserver, SequenceTheorems, TLAPS

\* An empty pipe, or one with a signal more, is still a sequence of its kind.
LEMMA SignalTypes ==
  /\ <<>> \in Seq(Signal)
  /\ \A on \in BOOLEAN : PrepareForSleep(on) \in Signal
  /\ \A u \in Units, i \in JobIds : JobStarted(u, i) \in Signal
  /\ \A u \in Units, i \in JobIds, b \in BOOLEAN :
        JobRemoved(u, i, b) \in Signal /\ UnitResult(u, i, b) \in Signal
BY DEF Signal, PrepareForSleep, JobStarted, JobRemoved, UnitResult

\* What the observer emits is an event of the contract.
LEMMA EventTypes ==
  ASSUME NEW a \in Submissions
  PROVE  /\ Contract!ArmedEvent(a) \in Contract!Event
         /\ \A o \in Contract!Outcomes :
               Contract!TerminalEvent(a, o) \in Contract!Event
BY DEF Contract!Event, Contract!ArmedEvent, Contract!TerminalEvent,
       Contract!Outcomes

\* Signals sent join the bus.
LEMMA SendType ==
  ASSUME bus \in Seq(Signal), NEW s \in Seq(Signal), Send(s)
  PROVE  bus' \in Seq(Signal)
BY DEF Send

\* The part of TypeOK a step of the state machine can disturb.
AttemptOK ==
  /\ Contract!ContractTypeOK
  /\ phase \in Phases
  /\ baseline \in JobIds \cup {NoJob}
  /\ job \in JobIds \cup {NoJob}
  /\ jobDone \in BOOLEAN
  /\ jobDone => job # NoJob
  /\ job # NoJob => armed /\ job # baseline
  /\ armed => held # None

\* An attempt that ends leaves nothing of itself behind.
LEMMA EndOK ==
  ASSUME AttemptOK, held # None, NEW o \in Contract!Outcomes, End(o),
         stdin' \in Seq(Submissions)
  PROVE  AttemptOK'
<1>1. held \in Submissions
  BY DEF AttemptOK, Contract!ContractTypeOK
<1>2. events' \in Seq(Contract!Event)
  BY <1>1, EventTypes DEF End, AttemptOK, Contract!ContractTypeOK
<1> QED
  BY <1>2 DEF End, AttemptOK, Contract!ContractTypeOK, Phases

\* The contract's step when an attempt ends: nothing is reported as completed
\* that was not armed.
LEMMA EndStep ==
  ASSUME AttemptOK, held # None, NEW o \in Contract!Outcomes, End(o),
         stdin' = stdin, o = "Completed" => armed
  PROVE  Contract!Terminal(o)
BY DEF End, Contract!Terminal

\* A signal keeps the attempt well formed, and is a stutter or an end of it to
\* the coordinator.
LEMMA DispatchOK ==
  ASSUME AttemptOK, held # None, NEW s \in Signal, Dispatch(s), stdin' = stdin
  PROVE  /\ AttemptOK'
         /\ \/ UNCHANGED Contract!contractVars
            \/ \E o \in Contract!Outcomes : Contract!Terminal(o)
<1> DEFINE Good == /\ AttemptOK'
                   /\ \/ UNCHANGED Contract!contractVars
                      \/ \E o \in Contract!Outcomes : Contract!Terminal(o)
<1>0. stdin' \in Seq(Submissions)
  BY DEF AttemptOK, Contract!ContractTypeOK
<1>1. ASSUME NEW o \in Contract!Outcomes, End(o), o = "Completed" => armed
      PROVE  Good
  BY <1>0, <1>1, EndOK, EndStep
<1>2. {"Completed", "Failed", "Indeterminate"} = Contract!Outcomes
  BY DEF Contract!Outcomes
<1>3. ASSUME Keep,
             phase' \in Phases,
             baseline' = baseline,
             job' \in JobIds \cup {NoJob},
             jobDone' \in BOOLEAN,
             jobDone' => job' # NoJob,
             job' # NoJob => armed /\ job' # baseline
      PROVE  Good
  BY <1>3 DEF Keep, AttemptOK, Contract!ContractTypeOK, Contract!contractVars
<1>4. ASSUME Ignore PROVE Good
  BY <1>3, <1>4 DEF Ignore, fieldVars, AttemptOK
<1>5. CASE s.kind = "PrepareForSleep"
  <2>1. OnPrepareForSleep(s.on)
    BY <1>5 DEF Dispatch
  <2>2. CASE End("Indeterminate")
    BY <1>1, <1>2, <2>2
  <2>3. CASE jobDone /\ End("Completed")
    BY <1>1, <1>2, <2>3 DEF AttemptOK
  <2>4. CASE /\ Keep
             /\ phase' \in {"awaiting-resume", "awaiting-unit-result"}
             /\ UNCHANGED <<baseline, job, jobDone>>
    BY <1>3, <2>4 DEF AttemptOK, Phases
  <2> QED
    BY <2>1, <2>2, <2>3, <2>4 DEF OnPrepareForSleep
<1>6. CASE s.kind = "Job"
  <2>1. OnJobStarted(s.unit, s.id)
    BY <1>6 DEF Dispatch
  <2>2. s.id \in JobIds
    BY <1>6 DEF Signal
  <2>3. CASE End("Indeterminate")
    BY <1>1, <1>2, <2>3
  <2>4. CASE /\ Keep /\ job' = s.id /\ UNCHANGED <<phase, baseline, jobDone>>
             /\ armed /\ s.id # baseline
    <3>1. s.id # NoJob
      BY <2>2 DEF JobIds, NoJob
    <3> QED
      BY <1>3, <2>2, <2>4, <3>1 DEF AttemptOK
  <2> QED
    BY <1>4, <2>1, <2>3, <2>4 DEF OnJobStarted
<1>7. CASE s.kind = "JobRemoved"
  <2>1. OnJobRemoved(s.unit, s.id, s.done)
    BY <1>7 DEF Dispatch
  <2>2. s.id \in JobIds
    BY <1>7 DEF Signal
  <2>3. s.id # NoJob
    BY <2>2 DEF JobIds, NoJob
  <2>4. CASE End("Failed")
    BY <1>1, <1>2, <2>4
  <2>5. CASE s.id = job /\ End("Completed")
    BY <1>1, <1>2, <2>3, <2>5 DEF AttemptOK
  <2>6. CASE s.id = job /\ Keep /\ jobDone' = TRUE /\ UNCHANGED <<phase, baseline, job>>
    BY <1>3, <2>3, <2>6 DEF AttemptOK
  <2> QED
    BY <1>4, <2>1, <2>4, <2>5, <2>6 DEF OnJobRemoved
<1>8. CASE s.kind = "Result"
  <2>1. OnUnitResult(s.unit, s.ok)
    BY <1>8 DEF Dispatch
  <2>2. CASE End("Failed")
    BY <1>1, <1>2, <2>2
  <2> QED
    BY <1>4, <2>1, <2>2 DEF OnUnitResult
<1> QED
  BY <1>5, <1>6, <1>7, <1>8 DEF Signal

\* An accepted submission starts well formed, armed or not.
LEMMA AcceptOK ==
  ASSUME AttemptOK, NEW a \in Submissions, Accept(a), stdin' \in Seq(Submissions),
         running \in Job \cup {None}
  PROVE  AttemptOK'
<1>1. CurrentJob(UnitOf[a]) \in JobIds \cup {NoJob}
  BY DEF CurrentJob, Job
<1>2. a # None
  BY ObserverAssumption DEF ObserverAssumption
<1>3. baseline' \in JobIds \cup {NoJob} /\ armed' \in BOOLEAN
  BY <1>1 DEF Accept
<1>4. events' \in Seq(Contract!Event)
  BY EventTypes DEF Accept, AttemptOK, Contract!ContractTypeOK
<1> QED
  BY <1>2, <1>3, <1>4 DEF Accept, AttemptOK, Contract!ContractTypeOK, Phases

\* The coordinator and the system do not touch the attempt.
LEMMA SystemOK ==
  ASSUME TypeOK, System
  PROVE  TypeOK'
<1>1. AttemptOK'
  BY DEF System, fieldVars, TypeOK, AttemptOK, Contract!ContractTypeOK
<1>2. UNCHANGED <<written, trail>>
  BY DEF System
<1>3. CASE LogindPrepares
  <2>1. PrepareForSleep(TRUE) \in Signal
    BY SignalTypes
  <2>2. <<PrepareForSleep(TRUE)>> \in Seq(Signal)
    <3> DEFINE s == PrepareForSleep(TRUE)
    <3>1. s \in Signal
      BY <2>1
    <3> HIDE DEF s
    <3>2. <<s>> \in Seq(Signal)
      BY <3>1
    <3> QED
      BY <3>2 DEF s
  <2>3. bus' \in Seq(Signal)
    BY <1>3, <2>2, SendType DEF LogindPrepares, TypeOK
  <2>4. sleeps' \in 0..MaxSleeps
    BY <1>3, ObserverAssumption DEF LogindPrepares, TypeOK, ObserverAssumption
  <2> QED
    BY <1>1, <1>2, <1>3, <2>3, <2>4 DEF LogindPrepares, TypeOK, AttemptOK
<1>4. ASSUME NEW u \in Units, JobStarts(u) PROVE TypeOK'
  <2>1. jobs' \in JobIds /\ jobs' \in 0..MaxJobs
    BY <1>4, ObserverAssumption
    DEF JobStarts, TypeOK, JobIds, ObserverAssumption
  <2>2. <<JobStarted(u, jobs')>> \in Seq(Signal)
    BY <2>1, SignalTypes
  <2>3. bus' \in Seq(Signal)
    BY <1>4, <2>2 DEF JobStarts, Send, TypeOK
  <2>4. running' \in Job
    BY <1>4, <2>1 DEF JobStarts, Job
  <2> QED
    BY <1>1, <1>2, <1>4, <2>1, <2>3, <2>4 DEF JobStarts, TypeOK, AttemptOK
<1>5. ASSUME NEW done \in BOOLEAN, JobEnds(done) PROVE TypeOK'
  <2>1. running \in Job
    BY <1>5 DEF JobEnds, TypeOK
  <2>2. /\ JobRemoved(running.unit, running.id, done) \in Signal
        /\ UnitResult(running.unit, running.id, done) \in Signal
    BY <2>1, SignalTypes DEF Job
  <2>3. bus' \in Seq(Signal)
    BY <1>5, <2>2 DEF JobEnds, Send, TypeOK
  <2> QED
    BY <1>1, <1>2, <1>5, <2>3 DEF JobEnds, TypeOK, AttemptOK
<1>6. CASE LogindResumes
  <2>1. PrepareForSleep(FALSE) \in Signal
    BY SignalTypes
  <2>2. <<PrepareForSleep(FALSE)>> \in Seq(Signal)
    <3> DEFINE s == PrepareForSleep(FALSE)
    <3>1. s \in Signal
      BY <2>1
    <3> HIDE DEF s
    <3>2. <<s>> \in Seq(Signal)
      BY <3>1
    <3> QED
      BY <3>2 DEF s
  <2>3. bus' \in Seq(Signal)
    BY <1>6, <2>2, SendType DEF LogindResumes, TypeOK
  <2> QED
    BY <1>1, <1>2, <1>6, <2>3 DEF LogindResumes, TypeOK, AttemptOK
<1> QED
  BY <1>3, <1>4, <1>5, <1>6 DEF System

\* A step of the observer or of the coordinator keeps TypeOK and is a step of
\* the contract.
StepOK == TypeOK' /\ [Contract!ContractNext]_(Contract!contractVars)

\* Dispatching a signal, with or without an attempt.
LEMMA HandleSignalOK ==
  ASSUME TypeOK, HandleSignal
  PROVE  StepOK
<1>1. Head(bus) \in Signal /\ bus' \in Seq(Signal)
  BY DEF HandleSignal, TypeOK
<1>2. AttemptOK
  BY DEF TypeOK, AttemptOK
<1>3. trail' \in Seq(Signal)
  BY <1>1, SignalTypes DEF HandleSignal, TypeOK
<1>4. /\ AttemptOK'
      /\ \/ UNCHANGED Contract!contractVars
         \/ \E o \in Contract!Outcomes : Contract!Terminal(o)
  <2>1. stdin' = stdin
    BY DEF HandleSignal
  <2>2. CASE held = None
    BY <1>2, <2>1, <2>2
    DEF HandleSignal, Ignore, Keep, fieldVars, AttemptOK,
        Contract!ContractTypeOK, Contract!contractVars
  <2>3. CASE held # None
    BY <1>1, <1>2, <2>1, <2>3, DispatchOK DEF HandleSignal
  <2> QED
    BY <2>2, <2>3
<1>5. UNCHANGED <<systemVars, written>>
  BY DEF HandleSignal
<1>6. TypeOK'
  BY <1>1, <1>3, <1>4, <1>5 DEF TypeOK, AttemptOK, systemVars
<1> QED
  BY <1>4, <1>6 DEF StepOK, Contract!ContractNext

\* Reading a submission takes it, or refuses it.
LEMMA ReadSubmissionOK ==
  ASSUME TypeOK, ReadSubmission
  PROVE  StepOK
<1>1. stdin # <<>> /\ stdin' = Tail(stdin) /\ UNCHANGED <<bus, systemVars, written>>
  BY DEF ReadSubmission
<1>2. Head(stdin) \in Submissions /\ stdin' \in Seq(Submissions)
  BY <1>1 DEF TypeOK, Contract!ContractTypeOK
<1>3. AttemptOK
  BY DEF TypeOK, AttemptOK
<1>4. CASE held = None
  <2>1. Accept(Head(stdin))
    BY <1>4 DEF ReadSubmission
  <2>2. AttemptOK'
    BY <1>2, <1>3, <2>1, AcceptOK DEF TypeOK
  <2>3. trail' \in Seq(Signal)
    BY <2>1, SignalTypes DEF Accept
  <2>4. Contract!Take
    BY <1>1, <1>4, <2>1 DEF Accept, Contract!Take
  <2> QED
    BY <1>1, <2>2, <2>3, <2>4
    DEF StepOK, TypeOK, AttemptOK, systemVars, Contract!ContractNext
<1>5. CASE held # None
  <2>1. Ignore /\ trail' = trail
    BY <1>5 DEF ReadSubmission
  <2>2. Contract!Take
    BY <1>1, <1>5, <2>1 DEF Ignore, Keep, Contract!Take
  <2>3. TypeOK'
    BY <1>1, <1>2, <2>1
    DEF TypeOK, Ignore, Keep, fieldVars, systemVars, Contract!ContractTypeOK
  <2> QED
    BY <2>2, <2>3 DEF StepOK, Contract!ContractNext
<1> QED
  BY <1>4, <1>5

\* A deadline ends the attempt as indeterminate.
LEMMA DeadlineOK ==
  ASSUME TypeOK, Deadline
  PROVE  StepOK
<1>1. "Indeterminate" \in Contract!Outcomes
  BY DEF Contract!Outcomes
<1>2. AttemptOK
  BY DEF TypeOK, AttemptOK
<1>3. /\ End("Indeterminate")
      /\ held # None
      /\ trail' = <<>>
      /\ UNCHANGED <<stdin, bus, systemVars, written>>
  BY DEF Deadline
<1>4. AttemptOK'
  <2>1. stdin' \in Seq(Submissions)
    BY <1>3 DEF TypeOK, Contract!ContractTypeOK
  <2> QED
    BY <1>1, <1>2, <1>3, <2>1, EndOK
<1>5. Contract!Terminal("Indeterminate")
  BY <1>1, <1>2, <1>3, EndStep
<1>6. TypeOK'
  BY <1>3, <1>4, SignalTypes DEF TypeOK, AttemptOK, systemVars
<1> QED
  BY <1>1, <1>5, <1>6 DEF StepOK, Contract!ContractNext

\* The coordinator's two ends.
LEMMA PipesOK ==
  ASSUME TypeOK, Read \/ \E a \in Submissions : Write(a)
  PROVE  StepOK
<1>1. CASE Read
  <2>1. events' \in Seq(Contract!Event)
    BY <1>1 DEF Read, Contract!Read, TypeOK, Contract!ContractTypeOK
  <2>2. TypeOK'
    BY <1>1, <2>1
    DEF Read, Contract!Read, TypeOK, fieldVars, systemVars,
        Contract!ContractTypeOK
  <2> QED
    BY <1>1, <2>2 DEF Read, StepOK, Contract!ContractNext
<1>2. ASSUME NEW a \in Submissions, Write(a) PROVE StepOK
  <2>1. stdin' \in Seq(Submissions)
    BY <1>2 DEF Write, Contract!Write, TypeOK, Contract!ContractTypeOK
  <2>2. TypeOK'
    BY <1>2, <2>1
    DEF Write, Contract!Write, TypeOK, fieldVars, systemVars,
        Contract!ContractTypeOK
  <2> QED
    BY <1>2, <2>2 DEF Write, StepOK, Contract!ContractNext
<1> QED
  BY <1>1, <1>2

\* TypeOK is inductive, and every step is one of the contract or a stutter.
LEMMA NextOK ==
  ASSUME TypeOK, [Next]_vars
  PROVE  StepOK
<1>1. CASE System
  <2>1. UNCHANGED Contract!contractVars
    BY <1>1 DEF System, Contract!contractVars
  <2> QED
    BY <1>1, <2>1, SystemOK DEF StepOK
<1>2. CASE UNCHANGED vars
  BY <1>2
  DEF vars, fieldVars, systemVars, StepOK, TypeOK, Contract!ContractTypeOK,
      Contract!contractVars
<1> QED
  BY <1>1, <1>2, HandleSignalOK, ReadSubmissionOK, DeadlineOK, PipesOK DEF Next

\* An observer that starts is well typed and holds nothing.
LEMMA InitOK == Init => TypeOK /\ Contract!ContractInit
<1> SUFFICES ASSUME Init PROVE TypeOK /\ Contract!ContractInit
  OBVIOUS
<1>1. Contract!ContractInit
  BY DEF Init
<1>2. Contract!ContractTypeOK
  <2>1. <<>> \in Seq(Submissions) /\ <<>> \in Seq(Contract!Event)
    OBVIOUS
  <2> QED
    BY <1>1, <2>1 DEF Contract!ContractInit, Contract!ContractTypeOK
<1>3. bus \in Seq(Signal) /\ trail \in Seq(Signal)
  BY SignalTypes DEF Init
<1>4. jobs \in 0..MaxJobs /\ sleeps \in 0..MaxSleeps
  BY ObserverAssumption DEF Init, ObserverAssumption
<1>5. phase \in Phases /\ ~armed
  BY <1>1 DEF Init, Phases, Contract!ContractInit
<1> QED
  BY <1>1, <1>2, <1>3, <1>4, <1>5 DEF Init, TypeOK

\* The job credited to an attempt is one seen after arming and never the
\* baseline one; a done job is a credited one (EvidenceState).
THEOREM ObserverTypeCorrect == Spec => []TypeOK
<1>1. Init => TypeOK
  BY InitOK
<1>2. TypeOK /\ [Next]_vars => TypeOK'
  BY NextOK DEF StepOK
<1> QED
  BY <1>1, <1>2, PTL DEF Spec

\* The observer implements what the coordinator is built on: one submission
\* held at a time, armed at most once, one terminal event for it, completed
\* only if armed.
THEOREM ObserverKeepsContract == Spec => ImplementsContract
<1>1. Init => TypeOK /\ Contract!ContractInit
  BY InitOK
<1>2. TypeOK /\ [Next]_vars
        => TypeOK' /\ [Contract!ContractNext]_(Contract!contractVars)
  BY NextOK DEF StepOK
<1> QED
  BY <1>1, <1>2, PTL DEF Spec, ImplementsContract, Contract!ContractSpec

(***************************************************************************)
(* What was witnessed.  CompletedIsWitnessed speaks of the signals of the  *)
(* whole time the attempt was held, the observer remembers only a phase, a *)
(* job and a flag.  The invariant says what each of these stands for.      *)
(***************************************************************************)

\* Signal i of t, and no other, is a PrepareForSleep(on); none is if i = 0.
Once(t, i, on) == \A k \in 1..Len(t) : t[k] = PrepareForSleep(on) <=> k = i

Awake(t) == Once(t, 0, TRUE) /\ Once(t, 0, FALSE)
WentDown(t) == \E i \in 1..Len(t) : Once(t, i, TRUE) /\ Once(t, 0, FALSE)
CameBack(t) ==
  \E i, j \in 1..Len(t) : i < j /\ Once(t, i, TRUE) /\ Once(t, j, FALSE)

Started(t, u, id) == \E i \in 1..Len(t) : t[i] = JobStarted(u, id)
Done(t, u, id) ==
  \E i, j \in 1..Len(t) : /\ i < j
                          /\ t[i] = JobStarted(u, id)
                          /\ t[j] = JobRemoved(u, id, TRUE)

TrailInv ==
  held # None =>
    /\ phase = "awaiting-entry" => Awake(trail)
    /\ phase = "awaiting-resume" => WentDown(trail)
    /\ phase = "awaiting-unit-result" => CameBack(trail)
    /\ job # NoJob => Started(trail, UnitOf[held], job)
    /\ jobDone => Done(trail, UnitOf[held], job)

\* A trail with one signal more.
LEMMA AppendSignal ==
  ASSUME NEW t \in Seq(Signal), NEW x
  PROVE  /\ Len(Append(t, x)) = Len(t) + 1
         /\ Len(t) \in Nat
         /\ Append(t, x)[Len(t) + 1] = x
         /\ \A k \in 1..Len(t) : Append(t, x)[k] = t[k]
OBVIOUS

\* The only signal of its kind stays the only one, the first becomes it.
LEMMA OnceLater ==
  ASSUME NEW t \in Seq(Signal), NEW x, NEW i \in 0..Len(t), NEW on,
         Once(t, i, on)
  PROVE  /\ x # PrepareForSleep(on) => Once(Append(t, x), i, on)
         /\ x = PrepareForSleep(on) /\ i = 0 => Once(Append(t, x), Len(t) + 1, on)
BY AppendSignal DEF Once

\* A job that was seen to start, or to be done, still was after one signal
\* more; the signals say it of the job they name.
LEMMA JobLater ==
  ASSUME NEW t \in Seq(Signal), NEW x, NEW u, NEW id
  PROVE  /\ Started(t, u, id) => Started(Append(t, x), u, id)
         /\ Done(t, u, id) => Done(Append(t, x), u, id)
         /\ x = JobStarted(u, id) => Started(Append(t, x), u, id)
         /\ Started(t, u, id) /\ x = JobRemoved(u, id, TRUE)
              => Done(Append(t, x), u, id)
<1> DEFINE s == Append(t, x)
           n == Len(t) + 1
<1>1. /\ Len(s) = n
      /\ Len(t) \in Nat
      /\ s[n] = x
      /\ \A k \in 1..Len(t) : s[k] = t[k] /\ k \in 1..n /\ k < n
      /\ n \in 1..n
  BY AppendSignal
<1> HIDE DEF s, n
<1>2. Started(t, u, id) => Started(s, u, id)
  BY <1>1 DEF Started
<1>3. Done(t, u, id) => Done(s, u, id)
  BY <1>1 DEF Done
<1>4. x = JobStarted(u, id) => Started(s, u, id)
  BY <1>1 DEF Started
<1>5. Started(t, u, id) /\ x = JobRemoved(u, id, TRUE) => Done(s, u, id)
  BY <1>1 DEF Started, Done
<1> QED
  BY <1>2, <1>3, <1>4, <1>5 DEF s

\* What the machine was seen to do, after one signal more.
LEMMA PhaseLater ==
  ASSUME NEW t \in Seq(Signal), NEW x
  PROVE  /\ x \notin {PrepareForSleep(TRUE), PrepareForSleep(FALSE)} =>
              /\ Awake(t) => Awake(Append(t, x))
              /\ WentDown(t) => WentDown(Append(t, x))
              /\ CameBack(t) => CameBack(Append(t, x))
         /\ Awake(t) /\ x = PrepareForSleep(TRUE) => WentDown(Append(t, x))
         /\ WentDown(t) /\ x = PrepareForSleep(FALSE) => CameBack(Append(t, x))
<1>1. /\ Len(Append(t, x)) = Len(t) + 1
      /\ Len(t) \in Nat
      /\ 0 \in 0..Len(t)
      /\ \A i \in 1..Len(t) : i \in 0..Len(t) /\ i \in 1..(Len(t) + 1)
                              /\ i < Len(t) + 1
      /\ Len(t) + 1 \in 1..(Len(t) + 1)
  BY AppendSignal
<1>2. PrepareForSleep(TRUE) # PrepareForSleep(FALSE)
  BY DEF PrepareForSleep
<1>3. ASSUME x \notin {PrepareForSleep(TRUE), PrepareForSleep(FALSE)}
      PROVE  /\ Awake(t) => Awake(Append(t, x))
             /\ WentDown(t) => WentDown(Append(t, x))
             /\ CameBack(t) => CameBack(Append(t, x))
  <2>1. Awake(t) => Awake(Append(t, x))
    BY <1>1, <1>3, OnceLater DEF Awake
  <2>2. WentDown(t) => WentDown(Append(t, x))
    BY <1>1, <1>3, OnceLater DEF WentDown
  <2>3. CameBack(t) => CameBack(Append(t, x))
    BY <1>1, <1>3, OnceLater DEF CameBack
  <2> QED
    BY <2>1, <2>2, <2>3
<1>4. ASSUME Awake(t), x = PrepareForSleep(TRUE)
      PROVE  WentDown(Append(t, x))
  <2>1. Once(Append(t, x), Len(t) + 1, TRUE) /\ Once(Append(t, x), 0, FALSE)
    BY <1>1, <1>2, <1>4, OnceLater DEF Awake
  <2> QED
    BY <1>1, <2>1 DEF WentDown
<1>5. ASSUME WentDown(t), x = PrepareForSleep(FALSE)
      PROVE  CameBack(Append(t, x))
  <2>1. PICK i \in 1..Len(t) : Once(t, i, TRUE) /\ Once(t, 0, FALSE)
    BY <1>5 DEF WentDown
  <2>2. Once(Append(t, x), i, TRUE)
    BY <1>1, <1>2, <1>5, <2>1, OnceLater
  <2>3. Once(Append(t, x), Len(t) + 1, FALSE)
    BY <1>1, <1>5, <2>1, OnceLater
  <2> QED
    BY <1>1, <2>2, <2>3 DEF CameBack
<1> QED
  BY <1>3, <1>4, <1>5

\* What the invariant's parts say together is what a completion needs.
LEMMA WitnessesOf ==
  ASSUME NEW t, NEW id \in JobIds \ {baseline},
         Done(t, UnitOf[held], id), CameBack(t)
  PROVE  Witnesses(t)
BY DEF Done, CameBack, Once, Witnesses

\* A step that leaves the events alone or ends the attempt otherwise does not
\* report a completion.
LEMMA EndsByEnd ==
  ASSUME TypeOK, Ends("Completed")
  PROVE  /\ events' # events
         /\ \A o : End(o) => o = "Completed"
<1>1. events \in Seq(Contract!Event)
  BY DEF TypeOK, Contract!ContractTypeOK
<1>2. \A x, y : Append(events, x) = Append(events, y) => x = y
  BY <1>1
<1>3. \A x : Append(events, x) # events
  BY <1>1
<1> QED
  BY <1>2, <1>3 DEF Ends, End, Contract!TerminalEvent

\* What every handler shows: the invariant afterwards, and the witnesses of a
\* completion.
Accounts(s) ==
  /\ TrailInv'
  /\ Ends("Completed") => Witnesses(Append(trail, s))

\* Going down and coming back.
LEMMA PrepareTrail ==
  ASSUME TypeOK, TrailInv, held # None, NEW on \in BOOLEAN,
         OnPrepareForSleep(on),
         held' # None => trail' = Append(trail, PrepareForSleep(on))
  PROVE  Accounts(PrepareForSleep(on))
<1> DEFINE s == PrepareForSleep(on)
           t == Append(trail, s)
<1>0. trail \in Seq(Signal) /\ phase \in Phases /\ jobDone \in BOOLEAN
  BY DEF TypeOK
<1>1. CASE phase # (IF on THEN "awaiting-entry" ELSE "awaiting-resume")
  BY <1>1, EndsByEnd DEF OnPrepareForSleep, Accounts, TrailInv, End
<1>2. CASE /\ phase = "awaiting-resume" /\ ~on /\ jobDone
           /\ End("Completed")
  <2>1. CameBack(t)
    BY <1>0, <1>2, PhaseLater DEF TrailInv
  <2>2. Done(t, UnitOf[held], job)
    BY <1>0, <1>2, JobLater DEF TrailInv
  <2>3. job \in JobIds \ {baseline}
    BY <1>2 DEF TypeOK
  <2>4. Witnesses(t)
    BY <2>1, <2>2, <2>3, WitnessesOf
  <2> QED
    BY <1>2, <2>4 DEF Accounts, TrailInv, End
<1>3. CASE /\ phase = (IF on THEN "awaiting-entry" ELSE "awaiting-resume")
           /\ Keep
           /\ phase' = IF on THEN "awaiting-resume" ELSE "awaiting-unit-result"
           /\ UNCHANGED <<baseline, job, jobDone>>
  <2>1. held' = held /\ trail' = t
    BY <1>3 DEF Keep
  <2>2. phase' = "awaiting-resume" => WentDown(t)
    BY <1>0, <1>3, PhaseLater DEF TrailInv
  <2>3. phase' = "awaiting-unit-result" => CameBack(t)
    BY <1>0, <1>3, PhaseLater DEF TrailInv
  <2>4. /\ job # NoJob => Started(t, UnitOf[held], job)
        /\ jobDone => Done(t, UnitOf[held], job)
    BY <1>0, JobLater DEF TrailInv
  <2>5. TrailInv'
    BY <1>3, <2>1, <2>2, <2>3, <2>4 DEF TrailInv
  <2>6. ~Ends("Completed")
    BY <1>3, EndsByEnd DEF Keep
  <2> QED
    BY <2>5, <2>6 DEF Accounts
<1> QED
  BY <1>1, <1>2, <1>3 DEF OnPrepareForSleep

\* A signal that is not a PrepareForSleep and leaves the phase alone keeps the
\* invariant if what it does to the job does.
LEMMA JobTrail ==
  ASSUME TypeOK, TrailInv, held # None, NEW s \in Signal,
         s.kind # "PrepareForSleep", Keep, UNCHANGED <<phase, baseline>>,
         trail' = Append(trail, s),
         job' # NoJob => Started(Append(trail, s), UnitOf[held], job'),
         jobDone' => Done(Append(trail, s), UnitOf[held], job')
  PROVE  Accounts(s)
<1>0. trail \in Seq(Signal) /\ s \notin {PrepareForSleep(TRUE), PrepareForSleep(FALSE)}
  BY DEF TypeOK, PrepareForSleep
<1>1. /\ phase = "awaiting-entry" => Awake(trail')
      /\ phase = "awaiting-resume" => WentDown(trail')
      /\ phase = "awaiting-unit-result" => CameBack(trail')
  BY <1>0, PhaseLater DEF TrailInv
<1>2. TrailInv'
  BY <1>1 DEF TrailInv, Keep
<1>3. ~Ends("Completed")
  BY EndsByEnd DEF Keep
<1> QED
  BY <1>2, <1>3 DEF Accounts

\* A signal that is ignored, and not telling, changes nothing.
LEMMA IgnoredTrail ==
  ASSUME TypeOK, TrailInv, NEW s, Ignore, trail' = trail
  PROVE  Accounts(s)
<1>1. TrailInv'
  BY DEF Ignore, Keep, fieldVars, TrailInv
<1>2. ~Ends("Completed")
  BY EndsByEnd DEF Ignore, Keep
<1> QED
  BY <1>1, <1>2 DEF Accounts

\* An attempt that ends otherwise than completed leaves no trail.
LEMMA EndedTrail ==
  ASSUME TypeOK, NEW s, NEW o \in {"Failed", "Indeterminate"}, End(o)
  PROVE  Accounts(s)
BY EndsByEnd DEF Accounts, TrailInv, End

\* Jobs and results.
LEMMA DispatchTrail ==
  ASSUME TypeOK, TrailInv, held # None, NEW s \in Signal, Dispatch(s),
         trail' = IF held' = None THEN <<>>
                  ELSE IF Telling(s) THEN Append(trail, s) ELSE trail
  PROVE  Accounts(s)
<1>0. trail \in Seq(Signal) /\ job \in JobIds \cup {NoJob}
      /\ held \in Submissions
  BY DEF TypeOK, Contract!ContractTypeOK
<1>k. Keep => held' # None
  BY DEF Keep
<1>1. CASE s.kind = "PrepareForSleep"
  <2>1. s.on \in BOOLEAN /\ s = PrepareForSleep(s.on)
    BY <1>1 DEF Signal, PrepareForSleep
  <2>2. OnPrepareForSleep(s.on) /\ Telling(s)
    BY <1>1 DEF Dispatch, Telling
  <2> QED
    BY <2>1, <2>2, PrepareTrail
<1>2. CASE s.kind = "Job"
  <2>1. OnJobStarted(s.unit, s.id) /\ s = JobStarted(s.unit, s.id) /\ s.id \in JobIds
    BY <1>2 DEF Dispatch, Signal, JobStarted
  <2>2. Telling(s) <=> s.unit = UnitOf[held]
    BY <1>2 DEF Telling
  <2>3. CASE End("Indeterminate")
    BY <2>3, EndedTrail
  <2>4. CASE Ignore /\ s.unit # UnitOf[held]
    BY <1>k, <2>2, <2>4, IgnoredTrail DEF Ignore
  <2>5. CASE Ignore /\ s.unit = UnitOf[held]
    <3>1. trail' = Append(trail, s) /\ Keep
          /\ UNCHANGED <<phase, baseline, job, jobDone>>
      BY <1>k, <2>2, <2>5 DEF Ignore, fieldVars
    <3>2. /\ job # NoJob => Started(Append(trail, s), UnitOf[held], job)
          /\ jobDone => Done(Append(trail, s), UnitOf[held], job)
      BY <1>0, JobLater DEF TrailInv
    <3> QED
      BY <1>2, <3>1, <3>2, JobTrail
  <2>6. CASE /\ s.unit = UnitOf[held] /\ (job = NoJob \/ job = s.id)
             /\ Keep /\ job' = s.id /\ UNCHANGED <<phase, baseline, jobDone>>
    <3>1. trail' = Append(trail, s)
      BY <1>k, <2>2, <2>6
    <3>2. Started(Append(trail, s), UnitOf[held], s.id)
      BY <1>0, <2>1, <2>6, JobLater
    <3>3. jobDone => job = s.id /\ Done(Append(trail, s), UnitOf[held], s.id)
      BY <1>0, <2>6, JobLater DEF TrailInv, TypeOK
    <3> QED
      BY <1>2, <2>6, <3>1, <3>2, <3>3, JobTrail
  <2> QED
    BY <2>1, <2>3, <2>4, <2>5, <2>6 DEF OnJobStarted
<1>3. CASE s.kind = "JobRemoved"
  <2>1. /\ OnJobRemoved(s.unit, s.id, s.done)
        /\ s = JobRemoved(s.unit, s.id, s.done)
        /\ s.id \in JobIds /\ s.done \in BOOLEAN
    BY <1>3 DEF Dispatch, Signal, JobRemoved
  <2>2. Telling(s) <=> s.unit = UnitOf[held]
    BY <1>3 DEF Telling
  <2>3. CASE End("Failed")
    BY <2>3, EndedTrail
  <2>4. CASE Ignore /\ s.unit # UnitOf[held]
    BY <1>k, <2>2, <2>4, IgnoredTrail DEF Ignore
  <2>5. CASE Ignore /\ s.unit = UnitOf[held]
    <3>1. trail' = Append(trail, s) /\ Keep
          /\ UNCHANGED <<phase, baseline, job, jobDone>>
      BY <1>k, <2>2, <2>5 DEF Ignore, fieldVars
    <3>2. /\ job # NoJob => Started(Append(trail, s), UnitOf[held], job)
          /\ jobDone => Done(Append(trail, s), UnitOf[held], job)
      BY <1>0, JobLater DEF TrailInv
    <3> QED
      BY <1>3, <3>1, <3>2, JobTrail
  <2>6. CASE s.unit = UnitOf[held] /\ s.id = job /\ s.done
    <3>1. job # NoJob /\ job \in JobIds \ {baseline}
      BY <2>1, <2>6 DEF TypeOK, JobIds, NoJob
    <3>2. /\ Started(Append(trail, s), UnitOf[held], job)
          /\ Done(Append(trail, s), UnitOf[held], job)
      BY <1>0, <2>1, <2>6, <3>1, JobLater DEF TrailInv
    <3>3. CASE phase = "awaiting-unit-result" /\ End("Completed")
      <4>1. s \notin {PrepareForSleep(TRUE), PrepareForSleep(FALSE)}
        BY <1>3 DEF PrepareForSleep
      <4>2. CameBack(Append(trail, s))
        BY <1>0, <3>3, <4>1, PhaseLater DEF TrailInv
      <4>3. Witnesses(Append(trail, s))
        BY <3>1, <3>2, <4>2, WitnessesOf
      <4> QED
        BY <3>3, <4>3 DEF Accounts, TrailInv, End
    <3>4. CASE Keep /\ jobDone' = TRUE /\ UNCHANGED <<phase, baseline, job>>
      <4>1. trail' = Append(trail, s)
        BY <1>k, <2>2, <2>6, <3>4
      <4> QED
        BY <1>3, <3>2, <3>4, <4>1, JobTrail
    <3> QED
      BY <2>1, <2>6, <3>3, <3>4 DEF OnJobRemoved
  <2> QED
    BY <2>1, <2>3, <2>4, <2>5, <2>6 DEF OnJobRemoved
<1>4. CASE s.kind = "Result"
  <2>1. OnUnitResult(s.unit, s.ok) /\ ~Telling(s)
    BY <1>4 DEF Dispatch, Telling
  <2>2. CASE End("Failed")
    BY <2>2, EndedTrail
  <2>3. CASE Ignore
    BY <1>k, <2>1, <2>3, IgnoredTrail DEF Ignore
  <2> QED
    BY <2>1, <2>2, <2>3 DEF OnUnitResult
<1> QED
  BY <1>1, <1>2, <1>3, <1>4 DEF Signal

\* TrailInv is inductive, and a completion is witnessed.
LEMMA NextTrail ==
  ASSUME TypeOK, TrailInv, [Next]_vars
  PROVE  /\ TrailInv'
         /\ Ends("Completed") => Witnesses(Append(trail, Head(bus)))
<1>1. CASE HandleSignal
  <2>1. Head(bus) \in Signal
    BY <1>1 DEF HandleSignal, TypeOK
  <2>2. CASE held = None
    BY <1>1, <2>2 DEF HandleSignal, Ignore, Keep, TrailInv, Ends
  <2>3. CASE held # None
    <3>1. Dispatch(Head(bus))
          /\ trail' = IF held' = None THEN <<>>
                      ELSE IF Telling(Head(bus)) THEN Append(trail, Head(bus))
                      ELSE trail
      BY <1>1, <2>3 DEF HandleSignal
    <3> QED
      BY <2>1, <2>3, <3>1, DispatchTrail DEF Accounts
  <2> QED
    BY <2>2, <2>3
<1>2. CASE ReadSubmission
  <2>1. CASE held = None
    <3>1. Accept(Head(stdin))
      BY <1>2, <2>1 DEF ReadSubmission
    <3>2. Len(<<>>) = 0
      OBVIOUS
    <3>3. Awake(<<>>)
      BY <3>2 DEF Awake, Once
    <3>4. TrailInv'
      BY <3>1, <3>3 DEF Accept, TrailInv
    <3> QED
      BY <2>1, <3>4 DEF Ends
  <2>2. CASE held # None
    <3>1. Ignore /\ trail' = trail
      BY <1>2, <2>2 DEF ReadSubmission
    <3> QED
      BY <3>1, IgnoredTrail DEF Accounts
  <2> QED
    BY <2>1, <2>2
<1>3. CASE Deadline
  BY <1>3, EndedTrail DEF Deadline, Accounts
<1>4. CASE Read
  <2>1. /\ UNCHANGED <<held, fieldVars, trail>>
        /\ events # <<>>
        /\ events' = Tail(events)
    BY <1>4 DEF Read, Contract!Read
  <2>2. events \in Seq(Contract!Event)
    BY DEF TypeOK, Contract!ContractTypeOK
  <2>3. \A x : Tail(events) # Append(events, x)
    <3> TAKE x
    <3>1. Len(Tail(events)) = Len(events) - 1 /\ Len(events) \in Nat
      BY <2>1, <2>2
    <3>2. Len(Append(events, x)) = Len(events) + 1
      BY <2>2
    <3> QED
      BY <3>1, <3>2
  <2> QED
    BY <2>1, <2>3 DEF Ends, TrailInv, fieldVars
<1>5. CASE System \/ (\E a \in Submissions : Write(a)) \/ UNCHANGED vars
  <2>1. UNCHANGED <<held, events, fieldVars, trail>>
    BY <1>5 DEF System, Write, Contract!Write, vars
  <2>2. ~Ends("Completed")
    BY <2>1, EndsByEnd
  <2> QED
    BY <2>1, <2>2 DEF TrailInv, fieldVars
<1> QED
  BY <1>1, <1>2, <1>3, <1>4, <1>5 DEF Next

\* A transaction is reported as completed only if one job of the attempt's
\* unit was seen to start and to be done, and the machine to go down once and
\* to come back once, since the attempt was taken: for any number of jobs,
\* units and sleep transitions, whoever asked for them (EvidenceState).
THEOREM CompletionIsWitnessed == Spec => CompletedIsWitnessed
<1>1. Init => TypeOK /\ TrailInv
  BY InitOK DEF Contract!ContractInit, TrailInv
<1>2. TypeOK /\ TrailInv /\ [Next]_vars => TypeOK' /\ TrailInv'
  BY NextOK, NextTrail DEF StepOK
<1>3. TypeOK /\ TrailInv /\ [Next]_vars
        => [Ends("Completed") => Witnesses(Append(trail, Head(bus)))]_vars
  BY NextTrail
<1> QED
  BY <1>1, <1>2, <1>3, PTL DEF Spec, CompletedIsWitnessed
=============================================================================
