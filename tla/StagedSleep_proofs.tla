------------------------- MODULE StagedSleep_proofs -------------------------
(***************************************************************************)
(* What is proved of StagedSleep for every value of its constants: types   *)
(* and bounds, one request and one outcome per attempt, whatever happens;  *)
(* that the open slot and the durable record follow the attempt in flight, *)
(* that evidence is about the attempt it is used for and that a recorded   *)
(* sleep was asked for, as far as they hold; and that the coordinator      *)
(* implements SingleFlight.                                                *)
(***************************************************************************)
EXTENDS StagedSleep, SequenceTheorems, TLAPS

(***************************************************************************)
(* The history.                                                            *)
(***************************************************************************)

\* trimHistory keeps at least one outcome, at most HistoryLimit of them, and
\* invents none.
LEMMA TrimmedType ==
  ASSUME NEW s \in Seq(Entry), NEW kept \in Trimmed(s)
  PROVE  kept \in Seq(Entry) /\ Len(kept) <= HistoryLimit
<1>1. PICK i \in 1..Len(s) :
        Len(s) - i < HistoryLimit /\ kept = SubSeq(s, i, Len(s))
  BY DEF Trimmed
<1>2. Len(s) \in Nat /\ \A j \in i..Len(s) : s[j] \in Entry
  OBVIOUS
<1>3. SubSeq(s, i, Len(s)) \in Seq(Entry)
      /\ Len(SubSeq(s, i, Len(s))) = IF i <= Len(s) THEN Len(s) - i + 1 ELSE 0
  BY <1>2, SubSeqProperties
<1> QED
  BY <1>1, <1>2, <1>3, StagedSleepAssumption DEF StagedSleepAssumption

\* An outcome appended to a document gives a document with nothing open, in
\* memory and, unless writing is blocked, in the hands of the writer.
LEMMA AppendTerminalType ==
  ASSUME NEW d \in Document, NEW a \in Attempt \cup {None}, NEW o \in Outcome,
         writing \in Document \cup {None}, closed \subseteq 1..MaxAttempts,
         AppendTerminal(d, a, o)
  PROVE  /\ doc' \in Document
         /\ doc'.open = None
         /\ writing' \in Document \cup {None}
         /\ closed' \subseteq 1..MaxAttempts
<1> DEFINE entry == [attempt |-> a, outcome |-> o]
<1>1. PICK kept \in Trimmed(Append(d.outcomes, entry)) :
        /\ doc' = [open |-> None, outcomes |-> kept]
        /\ Persist(doc')
        /\ closed' = IF a = None THEN closed ELSE closed \cup {a.serial}
  BY DEF AppendTerminal
<1>2. d.outcomes \in Seq(Entry) /\ entry \in Entry
  BY DEF Document, Entry
<1>3. Append(d.outcomes, entry) \in Seq(Entry)
  BY <1>2
<1>4. kept \in Seq(Entry) /\ Len(kept) <= HistoryLimit
  BY <1>3, TrimmedType
<1>5. doc' \in Document /\ doc'.open = None
  BY <1>1, <1>4 DEF Document
<1>6. writing' \in Document \cup {None}
  BY <1>1, <1>5 DEF Persist
<1>7. closed' \subseteq 1..MaxAttempts
  BY <1>1 DEF Attempt
<1> QED
  BY <1>5, <1>6, <1>7

\* The history of a service that has read nothing yet is a document.
LEMMA EmptyHistoryType == EmptyHistory \in Document
BY StagedSleepAssumption DEF StagedSleepAssumption, EmptyHistory, Document

\* An event of the observer, a timer or a child ends the attempt in flight or
\* changes nothing of it.
LEMMA FinishIfCurrentType ==
  ASSUME TypeOK, NEW a \in Attempt \cup {None}, NEW o \in Obs!Outcomes,
         FinishIfCurrent(a, o)
  PROVE  /\ doc' \in Document
         /\ writing' \in Document \cup {None}
         /\ closed' \subseteq 1..MaxAttempts
         /\ current' = current
         /\ awaiting' \in Attempt \cup {None}
         /\ executing' \in BOOLEAN
         /\ dispatched' \in BOOLEAN
         /\ \/ UNCHANGED <<executing, dispatched>>
            \/ executing /\ current # None /\ ~executing' /\ ~dispatched'
<1>1. CASE executing /\ current # None /\ a # None /\ SameId(a, current)
  <2> DEFINE said == IF o = "Completed" /\ current.fallback THEN "Degraded" ELSE o
  <2>1. AppendTerminal(doc, current, said) /\ awaiting' = None
        /\ dispatched' = FALSE /\ executing' = FALSE /\ current' = current
    BY <1>1 DEF FinishIfCurrent, Finish
  <2>2. said \in Outcome
    BY DEF Obs!Outcomes, Outcome
  <2>3. /\ doc \in Document
        /\ current \in Attempt \cup {None}
        /\ writing \in Document \cup {None}
        /\ closed \subseteq 1..MaxAttempts
    BY DEF TypeOK
  <2> QED
    BY <1>1, <2>1, <2>2, <2>3, AppendTerminalType
<1>2. CASE ~(executing /\ current # None /\ a # None /\ SameId(a, current))
  BY <1>2 DEF FinishIfCurrent, TypeOK, historyVars
<1> QED
  BY <1>1, <1>2

(***************************************************************************)
(* The type invariant: one lemma per group of actions.                     *)
(***************************************************************************)

\* A service that starts is well typed.
LEMMA InitTypeOK == Init => TypeOK
<1> SUFFICES ASSUME Init PROVE TypeOK
  OBVIOUS
<1>1. Obs!ContractTypeOK
  <2>1. held = None /\ armed = FALSE /\ stdin = <<>> /\ events = <<>>
    BY DEF Init, Obs!ContractInit
  <2>2. <<>> \in Seq(Attempt)
    OBVIOUS
  <2>3. <<>> \in Seq(Obs!Event)
    OBVIOUS
  <2> QED
    BY <2>1, <2>2, <2>3 DEF Obs!ContractTypeOK
<1>2. requests \in [1..MaxAttempts -> Nat]
  BY DEF Init
<1>3. /\ nextNumber \in Nat \ {0}
      /\ serial \in 0..MaxAttempts
      /\ reloads \in 0..MaxReloads
      /\ resets \in 0..MaxResets
  BY StagedSleepAssumption DEF StagedSleepAssumption, Init
<1> QED
  BY <1>1, <1>2, <1>3, EmptyHistoryType DEF Init, TypeOK

\* A step that touches neither pipe leaves the observer's variables typed.
LEMMA ContractUnchanged ==
  ASSUME TypeOK, UNCHANGED <<held, armed, stdin, events>>
  PROVE  Obs!ContractTypeOK'
BY DEF TypeOK, Obs!ContractTypeOK

\* What a reload leaves of the two pipes.
LEMMA ContractEmptied ==
  ASSUME held' = None, armed' = FALSE, stdin' = <<>>,
         events' \in Seq(Obs!Event)
  PROVE  Obs!ContractTypeOK'
<1>1. <<>> \in Seq(Attempt)
  OBVIOUS
<1> QED
  BY <1>1 DEF Obs!ContractTypeOK

\* loadHistory takes over a document, or blocks; what it closes and the next
\* number keep their types.
LEMMA LoadHistoryTypeOK ==
  ASSUME TypeOK, LoadHistory
  PROVE  TypeOK'
<1> USE DEF TypeOK
<1>1. PICK raw \in Reads :
        IF raw = Malformed
          THEN /\ blocked' = TRUE
               /\ UNCHANGED <<historyVars, executing, nextNumber>>
          ELSE LET read == IF raw = Absent THEN doc ELSE raw IN
               /\ IF read.open = None
                    THEN doc' = read /\ UNCHANGED <<writing, closed, executing>>
                    ELSE /\ AppendTerminal(read, read.open, "Indeterminate")
                         /\ executing' = FALSE
               /\ nextNumber' = IF nextNumber > Len(doc'.outcomes)
                                  THEN nextNumber ELSE Len(doc'.outcomes) + 1
               /\ UNCHANGED blocked
  BY DEF LoadHistory
<1> DEFINE read == IF raw = Absent THEN doc ELSE raw
<1>2. /\ loaded' = TRUE
      /\ UNCHANGED <<observerVars, disk, current, awaiting, dispatched, armTimer,
                    ready, systemctl, countVars>>
  BY DEF LoadHistory
<1>3. raw \in Document \cup {Absent, Malformed}
  BY DEF Reads
<1>0. Obs!ContractTypeOK'
  BY <1>2, ContractUnchanged DEF observerVars
<1>4. CASE raw = Malformed
  BY <1>1, <1>2, <1>4, <1>0 DEF historyVars, observerVars, countVars
<1>5. CASE raw # Malformed
  <2>1. read \in Document
    BY <1>3, <1>5
  <2>2. read.open \in Attempt \cup {None}
    BY <2>1 DEF Document
  <2>3. /\ doc' \in Document
        /\ writing' \in Document \cup {None}
        /\ closed' \subseteq 1..MaxAttempts
        /\ executing' \in BOOLEAN
    <3>1. CASE read.open = None
      BY <1>1, <1>5, <2>1, <3>1
    <3>2. CASE read.open # None
      <4>1. AppendTerminal(read, read.open, "Indeterminate") /\ executing' = FALSE
        BY <1>1, <1>5, <3>2
      <4>2. "Indeterminate" \in Outcome
        BY DEF Outcome
      <4> QED
        BY <2>1, <2>2, <4>1, <4>2, AppendTerminalType
    <3> QED
      BY <3>1, <3>2
  <2>4. nextNumber' \in Nat \ {0}
    <3>1. Len(doc'.outcomes) \in Nat
      BY <2>3 DEF Document
    <3> QED
      BY <1>1, <1>5, <3>1
  <2> QED
    BY <1>1, <1>2, <1>5, <1>0, <2>3, <2>4 DEF observerVars, countVars
<1> QED
  BY <1>4, <1>5

\* The writer's two ends, a reset and a refusal before an attempt exists keep
\* every variable's type.
LEMMA HistoryTypeOK ==
  ASSUME TypeOK,
         FlushHistory \/ FlushFails \/ ResetHistory \/ RefuseBeforeSubmission
  PROVE  TypeOK'
<1> USE DEF TypeOK, observerVars, attemptVars, countVars
<1>0. Obs!ContractTypeOK'
  BY ContractUnchanged
  DEF FlushHistory, FlushFails, ResetHistory, RefuseBeforeSubmission
<1>1. CASE FlushHistory
  BY <1>1, <1>0 DEF FlushHistory
<1>2. CASE FlushFails
  BY <1>2, <1>0 DEF FlushFails
<1>3. CASE ResetHistory
  <2>1. resets' \in 0..MaxResets /\ nextNumber' \in Nat \ {0}
    BY <1>3, StagedSleepAssumption DEF StagedSleepAssumption, ResetHistory
  <2> QED
    BY <1>3, <1>0, <2>1, EmptyHistoryType DEF ResetHistory
<1>4. CASE RefuseBeforeSubmission
  <2>1. "Refused" \in Outcome /\ None \in Attempt \cup {None}
    BY DEF Outcome
  <2>2. AppendTerminal(doc, None, "Refused")
    BY <1>4 DEF RefuseBeforeSubmission
  <2>3. /\ doc' \in Document
        /\ writing' \in Document \cup {None}
        /\ closed' \subseteq 1..MaxAttempts
    BY <2>1, <2>2, AppendTerminalType
  <2> QED
    BY <1>4, <1>0, <2>3 DEF RefuseBeforeSubmission
<1> QED
  BY <1>1, <1>2, <1>3, <1>4

\* The attempt a request creates is one, and takes the open slot.
LEMMA NewAttemptType ==
  ASSUME TypeOK, NEW o \in Origins, NEW f \in Fallbacks,
         OpenAttempt(NewAttempt(o, f))
  PROVE  /\ NewAttempt(o, f) \in Attempt
         /\ NewAttempt(o, f).serial = serial + 1
         /\ doc' \in Document
         /\ doc'.open = NewAttempt(o, f)
         /\ serial' \in 1..MaxAttempts
         /\ nextNumber' \in Nat \ {0}
<1>1. serial + 1 \in 1..MaxAttempts /\ nextNumber + 1 \in Nat \ {0}
  BY StagedSleepAssumption DEF StagedSleepAssumption, TypeOK, OpenAttempt
<1>2. NewAttempt(o, f) \in Attempt /\ NewAttempt(o, f).serial = serial + 1
  BY <1>1 DEF NewAttempt, Attempt, TypeOK
<1>3. doc' \in Document /\ doc'.open = NewAttempt(o, f)
  BY <1>2 DEF OpenAttempt, TypeOK, Document
<1> QED
  BY <1>1, <1>2, <1>3 DEF OpenAttempt

\* An attempt, accepted or burnt, keeps every variable's type.
LEMMA RequestTypeOK ==
  ASSUME TypeOK, NEW o \in Origins, NEW f \in Fallbacks,
         Submit(o, f) \/ SubmitUnpersisted(o, f)
  PROVE  TypeOK'
<1> USE DEF TypeOK, observerVars, attemptVars
<1> DEFINE a == NewAttempt(o, f)
<1>1. OpenAttempt(a)
  BY DEF Submit, SubmitUnpersisted
<1>2. /\ a \in Attempt
      /\ doc' \in Document
      /\ serial' \in 0..MaxAttempts
      /\ nextNumber' \in Nat \ {0}
  BY <1>1, NewAttemptType
<1> HIDE DEF a
<1>3. CASE Submit(o, f)
  <2>1. /\ Persist(doc')
        /\ executing' = TRUE
        /\ current' = a
        /\ awaiting' = a
        /\ dispatched' = FALSE
        /\ stdin' = IF observer = "running" THEN Append(stdin, a) ELSE stdin
        /\ armTimer' = TRUE
        /\ UNCHANGED <<held, armed, events, observer, disk, closed, loaded,
                      blocked, ready, systemctl, requests, reloads, resets>>
    BY <1>3 DEF Submit, a
  <2>2. Obs!ContractTypeOK'
    BY <1>2, <2>1 DEF Obs!ContractTypeOK
  <2>3. writing' \in Document \cup {None}
    BY <1>2, <2>1 DEF Persist
  <2> QED
    BY <1>2, <2>1, <2>2, <2>3
<1>4. CASE SubmitUnpersisted(o, f)
  <2>1. Obs!ContractTypeOK'
    BY <1>4, ContractUnchanged DEF SubmitUnpersisted
  <2> QED
    BY <1>2, <1>4, <2>1 DEF SubmitUnpersisted
<1> QED
  BY <1>3, <1>4

\* The observer's steps, its death and its exit keep every variable's type.
LEMMA ObserverTypeOK ==
  ASSUME TypeOK,
         ObserverStep \/ ObserverReady \/ ObserverDies \/ ObserverExited
  PROVE  TypeOK'
<1> USE DEF TypeOK, attemptVars, countVars, historyVars, restOfService
<1>1. CASE ObserverStep
  <2>1. UNCHANGED <<observer, disk, historyVars, attemptVars, restOfService,
                    systemctl, countVars>>
    BY <1>1 DEF ObserverStep
  <2>2. Obs!ContractTypeOK'
    <3> USE DEF Obs!ContractTypeOK
    <3>1. CASE Obs!Take
      <4>1. Head(stdin) \in Attempt /\ Tail(stdin) \in Seq(Attempt)
        BY <3>1, HeadTailProperties DEF Obs!Take
      <4>2. held' \in Attempt \cup {None} /\ armed' \in BOOLEAN
        BY <3>1, <4>1 DEF Obs!Take
      <4>3. held = None => Obs!ArmedEvent(held') \in Obs!Event
        BY <3>1, <4>1 DEF Obs!Take, Obs!ArmedEvent, Obs!Event
      <4>4. events' \in Seq(Obs!Event)
        <5>1. \/ events' = events
              \/ held = None /\ events' = Append(events, Obs!ArmedEvent(held'))
          BY <3>1 DEF Obs!Take
        <5> QED
          BY <4>3, <5>1
      <4> QED
        BY <3>1, <4>1, <4>2, <4>4 DEF Obs!Take
    <3>2. ASSUME NEW o \in Obs!Outcomes, Obs!Terminal(o)
          PROVE  Obs!ContractTypeOK'
      <4>1. Obs!TerminalEvent(held, o) \in Obs!Event
        BY <3>2 DEF Obs!Terminal, Obs!TerminalEvent, Obs!Event
      <4>2. events' \in Seq(Obs!Event)
        BY <3>2, <4>1 DEF Obs!Terminal
      <4> QED
        BY <3>2, <4>2 DEF Obs!Terminal
    <3> QED
      BY <1>1, <3>1, <3>2 DEF ObserverStep
  <2> QED
    BY <2>1, <2>2
<1>2. CASE ObserverReady
  BY <1>2, ContractUnchanged DEF ObserverReady, observerVars
<1>3. CASE ObserverDies
  <2>1. events' \in Seq(Obs!Event)
    BY <1>3 DEF ObserverDies, Obs!ContractTypeOK
  <2>2. Obs!ContractTypeOK'
    BY <1>3, <2>1, ContractEmptied DEF ObserverDies
  <2> QED
    BY <1>3, <2>2 DEF ObserverDies
<1>4. CASE ObserverExited
  <2> DEFINE o == IF dispatched THEN "Indeterminate" ELSE "Failed"
  <2>1. FinishIfCurrent(current, o) /\ o \in Obs!Outcomes
    BY <1>4 DEF ObserverExited, Obs!Outcomes
  <2> HIDE DEF o
  <2>2. current \in Attempt \cup {None}
    OBVIOUS
  <2>3. /\ doc' \in Document
        /\ writing' \in Document \cup {None}
        /\ closed' \subseteq 1..MaxAttempts
        /\ current' = current
        /\ awaiting' \in Attempt \cup {None}
        /\ executing' \in BOOLEAN
        /\ dispatched' \in BOOLEAN
    BY <2>1, <2>2, FinishIfCurrentType
  <2> QED
    BY <1>4, <2>3, ContractUnchanged DEF ObserverExited
<1> QED
  BY <1>1, <1>2, <1>3, <1>4

\* Handling a line of the observer keeps every variable's type.
LEMMA EventTypeOK ==
  ASSUME TypeOK, HandleArmed \/ HandleTerminal
  PROVE  TypeOK'
<1> USE DEF TypeOK, countVars, historyVars, restOfService
<1>1. events # <<>> /\ Obs!Read
  BY DEF HandleArmed, HandleTerminal
<1>2. Head(events) \in Obs!Event /\ Obs!ContractTypeOK'
  BY <1>1, HeadTailProperties DEF Obs!Read, Obs!ContractTypeOK
<1>3. CASE HandleArmed
  <2>1. \/ Dispatch /\ current # None
        \/ UNCHANGED <<armTimer, dispatched, systemctl, requests>>
    BY <1>3 DEF HandleArmed
  <2>2. UNCHANGED <<observer, disk, historyVars, executing, current, awaiting,
                    restOfService, serial, reloads, resets>>
    BY <1>3 DEF HandleArmed
  <2>3. /\ armTimer' \in BOOLEAN
        /\ dispatched' \in BOOLEAN
        /\ systemctl' \in Attempt \cup {None}
        /\ requests' \in [1..MaxAttempts -> Nat]
    <3>1. CASE Dispatch /\ current # None
      <4>1. current \in Attempt /\ current.serial \in 1..MaxAttempts
        BY <3>1 DEF Attempt
      <4>2. requests' = requests
            \/ requests' = [requests EXCEPT ![current.serial] = @ + 1]
        BY <3>1 DEF Dispatch
      <4>3. requests' \in [1..MaxAttempts -> Nat]
        BY <4>1, <4>2
      <4> QED
        BY <3>1, <4>1, <4>3 DEF Dispatch
    <3> QED
      BY <2>1, <3>1
  <2> QED
    BY <1>2, <2>2, <2>3
<1>4. CASE HandleTerminal
  <2> DEFINE e == Head(events)
  <2>1. e \in Obs!Event /\ e.kind = "terminal"
    BY <1>2, <1>4 DEF HandleTerminal
  <2>2. e.attempt \in Attempt \cup {None} /\ e.outcome \in Obs!Outcomes
    BY <2>1 DEF Obs!Event
  <2>3. FinishIfCurrent(e.attempt, e.outcome)
    BY <1>4 DEF HandleTerminal
  <2>4. /\ doc' \in Document
        /\ writing' \in Document \cup {None}
        /\ closed' \subseteq 1..MaxAttempts
        /\ current' = current
        /\ awaiting' \in Attempt \cup {None}
        /\ executing' \in BOOLEAN
        /\ dispatched' \in BOOLEAN
    BY <2>2, <2>3, FinishIfCurrentType
  <2> QED
    BY <1>2, <1>4, <2>4 DEF HandleTerminal
<1> QED
  BY <1>3, <1>4

\* The arm timer and the exit of systemctl keep every variable's type.
LEMMA TimerAndChildTypeOK ==
  ASSUME TypeOK,
         ArmTimeout \/ \E success \in BOOLEAN : SystemctlExits(success)
  PROVE  TypeOK'
<1> USE DEF TypeOK, countVars, historyVars, observerVars
<1>0. Obs!ContractTypeOK'
  BY ContractUnchanged DEF ArmTimeout, SystemctlExits
<1>1. "Failed" \in Obs!Outcomes
  BY DEF Obs!Outcomes
<1>2. CASE ArmTimeout
  <2>1. FinishIfCurrent(awaiting, "Failed") /\ awaiting \in Attempt \cup {None}
    BY <1>2 DEF ArmTimeout
  <2>2. /\ doc' \in Document
        /\ writing' \in Document \cup {None}
        /\ closed' \subseteq 1..MaxAttempts
        /\ current' = current
        /\ awaiting' \in Attempt \cup {None}
        /\ executing' \in BOOLEAN
        /\ dispatched' \in BOOLEAN
    BY <1>1, <2>1, FinishIfCurrentType
  <2> QED
    BY <1>2, <1>0, <2>2 DEF ArmTimeout
<1>3. ASSUME NEW success \in BOOLEAN, SystemctlExits(success)
      PROVE  TypeOK'
  <2>1. CASE success
    BY <1>3, <1>0, <2>1 DEF SystemctlExits
  <2>2. CASE ~success
    <3>1. FinishIfCurrent(current, "Failed") /\ current \in Attempt \cup {None}
      BY <1>3, <2>2 DEF SystemctlExits
    <3>2. /\ doc' \in Document
          /\ writing' \in Document \cup {None}
          /\ closed' \subseteq 1..MaxAttempts
          /\ current' = current
          /\ awaiting' \in Attempt \cup {None}
          /\ executing' \in BOOLEAN
          /\ dispatched' \in BOOLEAN
      BY <1>1, <3>1, FinishIfCurrentType
    <3> QED
      BY <1>3, <1>0, <3>2 DEF SystemctlExits
  <2> QED
    BY <2>1, <2>2
<1> QED
  BY <1>2, <1>3

\* A reload keeps every variable's type.
LEMMA ReloadTypeOK ==
  ASSUME TypeOK, Reload
  PROVE  TypeOK'
<1>1. <<>> \in Seq(Obs!Event)
  OBVIOUS
<1>2. Obs!ContractTypeOK'
  BY <1>1, ContractEmptied DEF Reload
<1>3. reloads' \in 0..MaxReloads /\ nextNumber' \in Nat \ {0}
  BY StagedSleepAssumption DEF StagedSleepAssumption, TypeOK, Reload
<1> QED
  BY <1>2, <1>3, EmptyHistoryType DEF TypeOK, Reload

\* TypeOK is inductive.
LEMMA NextTypeOK ==
  ASSUME TypeOK, [Next]_vars
  PROVE  TypeOK'
<1>1. CASE Next
  BY <1>1, LoadHistoryTypeOK, HistoryTypeOK, RequestTypeOK, ObserverTypeOK,
     EventTypeOK, TimerAndChildTypeOK, ReloadTypeOK
  DEF Next
<1>2. CASE UNCHANGED vars
  BY <1>2 DEF TypeOK, Obs!ContractTypeOK, vars, observerVars, historyVars,
              attemptVars, countVars
<1> QED
  BY <1>1, <1>2

\* Every history the service holds, hands to the writer or leaves on disk is a
\* document of at most HistoryLimit outcomes, and every other variable has its
\* type, whatever the bounds.
THEOREM TypeCorrect == Spec => []TypeOK
<1>1. Init => TypeOK
  BY InitTypeOK
<1>2. TypeOK /\ [Next]_vars => TypeOK'
  BY NextTypeOK
<1> QED
  BY <1>1, <1>2, PTL DEF Spec

(***************************************************************************)
(* What a step does to the flight.  Of the state, only the five variables  *)
(* below say which attempt flies and what was asked for it; every action   *)
(* moves them in one of five ways.                                         *)
(***************************************************************************)

StaysPut ==
  /\ UNCHANGED <<executing, serial, requests>>
  /\ executing => UNCHANGED <<current, dispatched>>

TakesOff ==
  /\ ~executing
  /\ executing'
  /\ current' \in Attempt
  /\ current'.serial = serial + 1
  /\ serial' = serial + 1
  /\ ~dispatched'
  /\ UNCHANGED requests

BurnsNumber ==
  /\ ~executing
  /\ ~executing'
  /\ serial' = serial + 1
  /\ UNCHANGED requests

AsksOnce ==
  /\ executing
  /\ executing'
  /\ current \in Attempt
  /\ ~dispatched
  /\ dispatched'
  /\ \/ UNCHANGED requests
     \/ requests' = [requests EXCEPT ![current.serial] = @ + 1]
  /\ UNCHANGED <<current, serial>>

Lands ==
  /\ executing
  /\ ~executing'
  /\ UNCHANGED <<serial, requests>>

FlightStep == StaysPut \/ TakesOff \/ BurnsNumber \/ AsksOnce \/ Lands

\* An event that ends the attempt in flight lands it, any other leaves it be.
LEMMA FinishIfCurrentFlight ==
  ASSUME TypeOK, NEW a \in Attempt \cup {None}, NEW o \in Obs!Outcomes,
         FinishIfCurrent(a, o), UNCHANGED <<serial, requests>>
  PROVE  FlightStep
BY FinishIfCurrentType DEF FlightStep, StaysPut, Lands

\* Every step of the coordinator is one of the five kinds above.
LEMMA NextFlightStep ==
  ASSUME TypeOK, [Next]_vars
  PROVE  FlightStep
<1> USE DEF FlightStep, attemptVars, countVars, restOfService, historyVars
<1>1. CASE LoadHistory
  <2>1. UNCHANGED executing \/ executing' = FALSE
    BY <1>1 DEF LoadHistory
  <2>2. UNCHANGED <<current, dispatched, serial, requests>>
    BY <1>1 DEF LoadHistory
  <2> QED
    BY <2>1, <2>2 DEF StaysPut, Lands, TypeOK
<1>2. CASE FlushHistory \/ FlushFails \/ ResetHistory \/ RefuseBeforeSubmission
  BY <1>2 DEF StaysPut, FlushHistory, FlushFails, ResetHistory,
              RefuseBeforeSubmission
<1>3. ASSUME NEW o \in Origins, NEW f \in Fallbacks, Submit(o, f)
      PROVE  FlightStep
  <2>1. OpenAttempt(NewAttempt(o, f))
    BY <1>3 DEF Submit
  <2>2. /\ NewAttempt(o, f) \in Attempt
        /\ NewAttempt(o, f).serial = serial + 1
    BY <2>1, NewAttemptType
  <2>3. ~executing /\ serial' = serial + 1
    BY <2>1 DEF OpenAttempt, RequestsArrive
  <2>4. /\ executing' = TRUE
        /\ current' = NewAttempt(o, f)
        /\ dispatched' = FALSE
        /\ requests' = requests
    BY <1>3 DEF Submit
  <2> QED
    BY <2>2, <2>3, <2>4 DEF TakesOff
<1>4. ASSUME NEW o \in Origins, NEW f \in Fallbacks, SubmitUnpersisted(o, f)
      PROVE  FlightStep
  BY <1>4 DEF BurnsNumber, SubmitUnpersisted, OpenAttempt, RequestsArrive
<1>5. CASE ObserverStep \/ ObserverReady \/ ObserverDies
  BY <1>5 DEF StaysPut, ObserverStep, ObserverReady, ObserverDies
<1>6. CASE ObserverExited
  <2> DEFINE o == IF dispatched THEN "Indeterminate" ELSE "Failed"
  <2>1. FinishIfCurrent(current, o) /\ o \in Obs!Outcomes
        /\ UNCHANGED <<serial, requests>>
    BY <1>6 DEF ObserverExited, Obs!Outcomes
  <2>2. current \in Attempt \cup {None}
    BY DEF TypeOK
  <2> QED
    BY <2>1, <2>2, FinishIfCurrentFlight
<1>7. CASE HandleArmed
  <2>1. UNCHANGED <<executing, current, serial>>
    BY <1>7 DEF HandleArmed
  <2>2. CASE executing /\ current # None /\ ~dispatched /\ Dispatch
    BY <2>1, <2>2 DEF AsksOnce, Dispatch, TypeOK
  <2>3. CASE UNCHANGED <<dispatched, requests>>
    BY <2>1, <2>3 DEF StaysPut
  <2> QED
    BY <1>7, <2>2, <2>3 DEF HandleArmed
<1>8. CASE HandleTerminal
  <2> DEFINE e == Head(events)
  <2>1. e \in Obs!Event /\ e.kind = "terminal"
    BY <1>8, HeadTailProperties
    DEF HandleTerminal, TypeOK, Obs!ContractTypeOK
  <2>2. e.attempt \in Attempt \cup {None} /\ e.outcome \in Obs!Outcomes
    BY <2>1 DEF Obs!Event
  <2>3. FinishIfCurrent(e.attempt, e.outcome) /\ UNCHANGED <<serial, requests>>
    BY <1>8 DEF HandleTerminal
  <2> QED
    BY <2>2, <2>3, FinishIfCurrentFlight
<1>9. CASE ArmTimeout
  <2>1. FinishIfCurrent(awaiting, "Failed") /\ UNCHANGED <<serial, requests>>
    BY <1>9 DEF ArmTimeout
  <2>2. awaiting \in Attempt \cup {None} /\ "Failed" \in Obs!Outcomes
    BY DEF TypeOK, Obs!Outcomes
  <2> QED
    BY <2>1, <2>2, FinishIfCurrentFlight
<1>10. ASSUME NEW success \in BOOLEAN, SystemctlExits(success)
       PROVE  FlightStep
  <2>1. UNCHANGED <<serial, requests>>
    BY <1>10 DEF SystemctlExits
  <2>2. CASE success
    BY <1>10, <2>1, <2>2 DEF StaysPut, SystemctlExits
  <2>3. CASE ~success
    <3>1. FinishIfCurrent(current, "Failed")
      BY <1>10, <2>3 DEF SystemctlExits
    <3>2. current \in Attempt \cup {None} /\ "Failed" \in Obs!Outcomes
      BY DEF TypeOK, Obs!Outcomes
    <3> QED
      BY <2>1, <3>1, <3>2, FinishIfCurrentFlight
  <2> QED
    BY <2>2, <2>3
<1>11. CASE Reload
  BY <1>11 DEF StaysPut, Lands, Reload, TypeOK
<1>12. CASE UNCHANGED vars
  BY <1>12 DEF StaysPut, vars
<1> QED
  BY <1>1, <1>2, <1>3, <1>4, <1>5, <1>6, <1>7, <1>8, <1>9, <1>10, <1>11, <1>12
  DEF Next

(***************************************************************************)
(* One request per attempt.  RequestAtMostOnce is not inductive: a request *)
(* may go out for the attempt in flight while it is not dispatched, so the *)
(* count of an undispatched flight must be known to be zero, and that of a *)
(* new flight is zero because nothing was ever asked for a serial that was *)
(* not handed out.                                                         *)
(***************************************************************************)

FlightInv ==
  /\ executing => current \in Attempt /\ current.serial = serial
  /\ executing /\ ~dispatched => requests[serial] = 0
  /\ \A s \in 1..MaxAttempts : s > serial => requests[s] = 0
  /\ RequestAtMostOnce

\* No request has been made when the first service starts.
LEMMA InitFlightInv == Init => FlightInv
BY StagedSleepAssumption
DEF StagedSleepAssumption, Init, FlightInv, RequestAtMostOnce

\* FlightInv is inductive, by the kind of step alone.
LEMMA NextFlightInv ==
  ASSUME TypeOK, TypeOK', FlightInv, FlightStep
  PROVE  FlightInv'
<1> USE DEF FlightInv, RequestAtMostOnce
<1>1. /\ requests \in [1..MaxAttempts -> Nat]
      /\ serial \in 0..MaxAttempts
      /\ serial' \in 0..MaxAttempts
      /\ MaxAttempts \in Nat
  BY StagedSleepAssumption DEF StagedSleepAssumption, TypeOK
<1>2. CASE StaysPut
  BY <1>2 DEF StaysPut
<1>3. CASE TakesOff
  <2>1. requests[serial + 1] = 0 /\ serial + 1 \in 1..MaxAttempts
    BY <1>1, <1>3 DEF TakesOff
  <2>2. \A s \in 1..MaxAttempts : s > serial + 1 => requests[s] = 0
    BY <1>1
  <2> QED
    BY <1>3, <2>1, <2>2 DEF TakesOff
<1>4. CASE BurnsNumber
  BY <1>1, <1>4 DEF BurnsNumber
<1>5. CASE AsksOnce
  <2>1. current.serial = serial /\ serial \in 1..MaxAttempts
        /\ requests[serial] = 0
    BY <1>5 DEF AsksOnce, Attempt
  <2>2. \A s \in 1..MaxAttempts :
          requests'[s] = requests[s] \/ (s = serial /\ requests'[s] = 1)
    BY <1>1, <1>5, <2>1 DEF AsksOnce
  <2> QED
    BY <1>1, <1>5, <2>1, <2>2 DEF AsksOnce
<1>6. CASE Lands
  BY <1>6 DEF Lands
<1> QED
  BY <1>2, <1>3, <1>4, <1>5, <1>6 DEF FlightStep

\* However the handlers interleave, whatever is lost and however often the
\* service is reloaded or its history reset, systemctl is started at most once
\* for an attempt (dispatchObservedSleepRequest).
THEOREM OneRequestPerAttempt == Spec => []RequestAtMostOnce
<1>1. Init => TypeOK /\ FlightInv
  BY InitTypeOK, InitFlightInv
<1>2. TypeOK /\ FlightInv /\ [Next]_vars => TypeOK' /\ FlightInv'
  BY NextTypeOK, NextFlightStep, NextFlightInv
<1>3. FlightInv => RequestAtMostOnce
  BY DEF FlightInv
<1> QED
  BY <1>1, <1>2, <1>3, PTL DEF Spec

\* The coordinator implements SingleFlight: attempts fly one at a time, a
\* number is never handed out twice, the system is asked to sleep once per
\* flight, and a flight that is over never comes back.
THEOREM ImplementsSingleFlight == Spec => SingleFlightSpec
<1>1. Init => Flight!FlightInit
  BY DEF Init, Flight!FlightInit
<1>2. TypeOK /\ FlightInv /\ [Next]_vars
        => [Flight!FlightNext]_(Flight!flightVars)
  <2> SUFFICES ASSUME TypeOK, TypeOK', FlightInv, FlightStep
               PROVE  [Flight!FlightNext]_(Flight!flightVars)
    BY NextTypeOK, NextFlightStep
  <2> USE DEF Flight!FlightNext, Flight!flightVars
  <2>1. serial \in Nat /\ executing \in BOOLEAN /\ dispatched \in BOOLEAN
        /\ executing' \in BOOLEAN
    BY StagedSleepAssumption DEF StagedSleepAssumption, TypeOK
  <2>2. executing => current.serial = serial /\ serial # 0
    BY DEF FlightInv, Attempt
  <2>3. CASE StaysPut
    BY <2>3 DEF StaysPut
  <2>4. CASE TakesOff
    BY <2>1, <2>4 DEF TakesOff, Flight!Begin
  <2>5. CASE BurnsNumber
    BY <2>5 DEF BurnsNumber, Flight!Burn
  <2>6. CASE AsksOnce
    BY <2>6 DEF AsksOnce, Flight!Request
  <2>7. CASE Lands
    BY <2>2, <2>7 DEF Lands, Flight!Land
  <2> QED
    BY <2>3, <2>4, <2>5, <2>6, <2>7 DEF FlightStep
<1>3. Init => TypeOK /\ FlightInv
  BY InitTypeOK, InitFlightInv
<1>4. TypeOK /\ FlightInv /\ [Next]_vars => TypeOK' /\ FlightInv'
  BY NextTypeOK, NextFlightStep, NextFlightInv
<1> QED
  BY <1>1, <1>2, <1>3, <1>4, PTL
  DEF Spec, SingleFlightSpec, Flight!FlightSpec

(***************************************************************************)
(* The open slot.  Nothing is in flight, nothing is open and nothing is    *)
(* being written before the history is loaded, if requests wait for that;  *)
(* a blocked history has been loaded from a file that is rejected and not  *)
(* replaced, and nothing flies over it.                                    *)
(***************************************************************************)

SlotFollows ==
  /\ executing => current # None /\ doc.open = current
  /\ ~executing /\ doc.open # None => blocked

SlotInv ==
  /\ executing => loaded /\ ~blocked
  /\ blocked => loaded /\ disk = Malformed /\ writing = None
  /\ ~loaded => doc = EmptyHistory /\ writing = None
  /\ SlotFollows

slotVars == <<executing, current, doc, loaded, blocked, disk, writing>>

\* An event about the attempt in flight empties the slot as it ends it.
LEMMA FinishIfCurrentSlot ==
  ASSUME TypeOK, SlotInv, NEW a \in Attempt \cup {None}, NEW o \in Obs!Outcomes,
         FinishIfCurrent(a, o), UNCHANGED <<loaded, blocked, disk>>
  PROVE  SlotInv'
<1> USE DEF SlotInv, SlotFollows
<1>1. CASE executing /\ current # None /\ a # None /\ SameId(a, current)
  <2> DEFINE said == IF o = "Completed" /\ current.fallback THEN "Degraded" ELSE o
  <2>1. AppendTerminal(doc, current, said) /\ executing' = FALSE
    BY <1>1 DEF FinishIfCurrent, Finish
  <2>2. said \in Outcome
    BY DEF Obs!Outcomes, Outcome
  <2>3. doc'.open = None
    BY <2>1, <2>2, AppendTerminalType DEF TypeOK
  <2> QED
    BY <1>1, <2>1, <2>3
<1>2. CASE ~(executing /\ current # None /\ a # None /\ SameId(a, current))
  BY <1>2 DEF FinishIfCurrent, historyVars
<1> QED
  BY <1>1, <1>2

\* SlotInv is inductive when no request precedes the loading of the history.
LEMMA NextSlotInv ==
  ASSUME ~EarlyRequests, TypeOK, SlotInv, [Next]_vars
  PROVE  SlotInv'
<1> USE DEF SlotInv, SlotFollows
<1>1. CASE UNCHANGED slotVars
  BY <1>1 DEF slotVars
<1>2. CASE LoadHistory
  <2>1. ~loaded /\ ~blocked /\ loaded' = TRUE /\ ~executing /\ disk' = disk
    BY <1>2 DEF LoadHistory
  <2>2. PICK raw \in Reads :
          IF raw = Malformed
            THEN blocked' = TRUE /\ UNCHANGED <<historyVars, executing, nextNumber>>
            ELSE LET read == IF raw = Absent THEN doc ELSE raw IN
                 /\ IF read.open = None
                      THEN doc' = read /\ UNCHANGED <<writing, closed, executing>>
                      ELSE /\ AppendTerminal(read, read.open, "Indeterminate")
                           /\ executing' = FALSE
                 /\ nextNumber' = IF nextNumber > Len(doc'.outcomes)
                                    THEN nextNumber ELSE Len(doc'.outcomes) + 1
                 /\ UNCHANGED blocked
    BY <1>2 DEF LoadHistory
  <2>3. CASE raw = Malformed
    <3>1. disk = Malformed
      BY <2>3, NoneIsNothing DEF Reads, NoneIsNothing
    <3> QED
      BY <2>1, <2>2, <2>3, <3>1 DEF historyVars
  <2>4. CASE raw # Malformed
    <3> DEFINE read == IF raw = Absent THEN doc ELSE raw
    <3>1. read \in Document /\ read.open \in Attempt \cup {None}
      BY <2>4 DEF Reads, TypeOK, Document
    <3>2. CASE read.open = None
      BY <2>1, <2>2, <2>4, <3>2
    <3>3. CASE read.open # None
      <4>1. AppendTerminal(read, read.open, "Indeterminate") /\ executing' = FALSE
        BY <2>2, <2>4, <3>3
      <4>2. "Indeterminate" \in Outcome /\ writing \in Document \cup {None}
            /\ closed \subseteq 1..MaxAttempts
        BY DEF Outcome, TypeOK
      <4>3. doc'.open = None
        BY <3>1, <4>1, <4>2, AppendTerminalType
      <4>4. ~blocked'
        BY <2>1, <2>2, <2>4
      <4> QED
        BY <2>1, <4>1, <4>3, <4>4
    <3> QED
      BY <3>2, <3>3
  <2> QED
    BY <2>3, <2>4
<1>3. CASE ResetHistory
  BY <1>3 DEF ResetHistory, RequestsArrive, EmptyHistory, attemptVars
<1>4. CASE RefuseBeforeSubmission
  <2>1. AppendTerminal(doc, None, "Refused") /\ "Refused" \in Outcome
        /\ None \in Attempt \cup {None}
    BY <1>4 DEF RefuseBeforeSubmission, Outcome
  <2>2. doc'.open = None
    BY <2>1, AppendTerminalType DEF TypeOK
  <2>3. writing' = IF blocked THEN writing ELSE doc'
    BY <2>1 DEF AppendTerminal, Persist
  <2> QED
    BY <1>4, <2>2, <2>3 DEF RefuseBeforeSubmission, RequestsArrive, attemptVars
<1>5. ASSUME NEW o \in Origins, NEW f \in Fallbacks, Submit(o, f)
      PROVE  SlotInv'
  <2>1. OpenAttempt(NewAttempt(o, f))
    BY <1>5 DEF Submit
  <2>2. NewAttempt(o, f) \in Attempt /\ doc'.open = NewAttempt(o, f)
    BY <2>1, NewAttemptType
  <2>3. loaded /\ ~blocked /\ executing' = TRUE /\ current' = NewAttempt(o, f)
        /\ UNCHANGED <<loaded, blocked>>
    BY <1>5, <2>1 DEF Submit, OpenAttempt, RequestsArrive
  <2> QED
    BY <2>2, <2>3, NoneIsNothing DEF NoneIsNothing
<1>6. ASSUME NEW o \in Origins, NEW f \in Fallbacks, SubmitUnpersisted(o, f)
      PROVE  SlotInv'
  BY <1>6 DEF SubmitUnpersisted, OpenAttempt, RequestsArrive, attemptVars
<1>7. CASE ObserverExited
  <2> DEFINE o == IF dispatched THEN "Indeterminate" ELSE "Failed"
  <2>1. FinishIfCurrent(current, o) /\ o \in Obs!Outcomes
        /\ UNCHANGED <<loaded, blocked, disk>>
    BY <1>7 DEF ObserverExited, Obs!Outcomes
  <2>2. current \in Attempt \cup {None}
    BY DEF TypeOK
  <2> QED
    BY <2>1, <2>2, FinishIfCurrentSlot
<1>8. CASE HandleTerminal
  <2> DEFINE e == Head(events)
  <2>1. e \in Obs!Event /\ e.kind = "terminal"
    BY <1>8, HeadTailProperties
    DEF HandleTerminal, TypeOK, Obs!ContractTypeOK
  <2>2. e.attempt \in Attempt \cup {None} /\ e.outcome \in Obs!Outcomes
    BY <2>1 DEF Obs!Event
  <2>3. FinishIfCurrent(e.attempt, e.outcome) /\ UNCHANGED <<loaded, blocked, disk>>
    BY <1>8 DEF HandleTerminal
  <2> QED
    BY <2>2, <2>3, FinishIfCurrentSlot
<1>9. CASE ArmTimeout
  <2>1. FinishIfCurrent(awaiting, "Failed") /\ UNCHANGED <<loaded, blocked, disk>>
    BY <1>9 DEF ArmTimeout
  <2>2. awaiting \in Attempt \cup {None} /\ "Failed" \in Obs!Outcomes
    BY DEF TypeOK, Obs!Outcomes
  <2> QED
    BY <2>1, <2>2, FinishIfCurrentSlot
<1>10. ASSUME NEW success \in BOOLEAN, SystemctlExits(success)
       PROVE  SlotInv'
  <2>1. UNCHANGED <<loaded, blocked, disk>>
    BY <1>10 DEF SystemctlExits
  <2>2. CASE success
    BY <1>1, <1>10, <2>1, <2>2 DEF SystemctlExits, historyVars, slotVars
  <2>3. CASE ~success
    <3>1. FinishIfCurrent(current, "Failed")
      BY <1>10, <2>3 DEF SystemctlExits
    <3>2. current \in Attempt \cup {None} /\ "Failed" \in Obs!Outcomes
      BY DEF TypeOK, Obs!Outcomes
    <3> QED
      BY <2>1, <3>1, <3>2, FinishIfCurrentSlot
  <2> QED
    BY <2>2, <2>3
<1>11. CASE Reload
  BY <1>11 DEF Reload, EmptyHistory
<1>12. CASE FlushHistory \/ FlushFails
  BY <1>1, <1>12 DEF slotVars, FlushHistory, FlushFails, attemptVars
<1>13. CASE ObserverStep \/ ObserverReady \/ ObserverDies
  BY <1>1, <1>13
  DEF slotVars, ObserverStep, ObserverReady, ObserverDies, attemptVars,
      historyVars, restOfService
<1>14. CASE HandleArmed
  BY <1>1, <1>14 DEF slotVars, HandleArmed, historyVars, restOfService
<1>15. CASE UNCHANGED vars
  BY <1>1, <1>15 DEF slotVars, vars, historyVars, attemptVars
<1> QED
  BY <1>2, <1>3, <1>4, <1>5, <1>6, <1>7, <1>8, <1>9, <1>10, <1>11, <1>12, <1>13,
     <1>14, <1>15
  DEF Next

(***************************************************************************)
(* What a step does to the records: the document in memory, the one with   *)
(* the writer and the one on disk.  The steps of the observer, the timer   *)
(* and the child either leave them alone or record the outcome of the      *)
(* attempt in flight.                                                      *)
(***************************************************************************)

LeavesRecords ==
  UNCHANGED <<doc, writing, disk, closed, loaded, blocked, executing, current,
              serial>>

RecordsOutcome ==
  /\ executing
  /\ ~executing'
  /\ current \in Attempt
  /\ \E o \in Outcome : AppendTerminal(doc, current, o)
  /\ UNCHANGED <<disk, loaded, blocked, current, serial>>

RecordStep ==
  \/ LeavesRecords
  \/ RecordsOutcome
  \/ FlushHistory
  \/ FlushFails
  \/ LoadHistory
  \/ ResetHistory
  \/ RefuseBeforeSubmission
  \/ \E o \in Origins, f \in Fallbacks : Submit(o, f) \/ SubmitUnpersisted(o, f)
  \/ Reload

\* An event about the attempt in flight records its outcome, any other leaves
\* the records alone.
LEMMA FinishIfCurrentRecord ==
  ASSUME TypeOK, NEW a \in Attempt \cup {None}, NEW o \in Obs!Outcomes,
         FinishIfCurrent(a, o), UNCHANGED <<disk, loaded, blocked, serial>>
  PROVE  LeavesRecords \/ RecordsOutcome
<1>1. CASE executing /\ current # None /\ a # None /\ SameId(a, current)
  <2> DEFINE said == IF o = "Completed" /\ current.fallback THEN "Degraded" ELSE o
  <2>1. AppendTerminal(doc, current, said) /\ executing' = FALSE
        /\ current' = current
    BY <1>1 DEF FinishIfCurrent, Finish
  <2>2. said \in Outcome
    BY DEF Obs!Outcomes, Outcome
  <2>3. current \in Attempt
    BY <1>1 DEF TypeOK
  <2> QED
    BY <1>1, <2>1, <2>2, <2>3 DEF RecordsOutcome
<1>2. CASE ~(executing /\ current # None /\ a # None /\ SameId(a, current))
  BY <1>2 DEF FinishIfCurrent, LeavesRecords, historyVars
<1> QED
  BY <1>1, <1>2

\* Every step of the coordinator is a record step.
LEMMA NextRecordStep ==
  ASSUME TypeOK, [Next]_vars
  PROVE  RecordStep
<1>1. CASE ObserverStep \/ ObserverReady \/ ObserverDies
  BY <1>1 DEF ObserverStep, ObserverReady, ObserverDies, RecordStep,
      LeavesRecords, historyVars, attemptVars, restOfService, countVars
<1>2. CASE ObserverExited
  <2> DEFINE o == IF dispatched THEN "Indeterminate" ELSE "Failed"
  <2>1. FinishIfCurrent(current, o) /\ o \in Obs!Outcomes
        /\ UNCHANGED <<disk, loaded, blocked, serial>>
    BY <1>2 DEF ObserverExited, Obs!Outcomes, countVars
  <2>2. current \in Attempt \cup {None}
    BY DEF TypeOK
  <2> QED
    BY <2>1, <2>2, FinishIfCurrentRecord DEF RecordStep
<1>3. CASE HandleArmed
  BY <1>3 DEF HandleArmed, RecordStep, LeavesRecords, historyVars, restOfService
<1>4. CASE HandleTerminal
  <2> DEFINE e == Head(events)
  <2>1. e \in Obs!Event /\ e.kind = "terminal"
    BY <1>4, HeadTailProperties
    DEF HandleTerminal, TypeOK, Obs!ContractTypeOK
  <2>2. e.attempt \in Attempt \cup {None} /\ e.outcome \in Obs!Outcomes
    BY <2>1 DEF Obs!Event
  <2>3. FinishIfCurrent(e.attempt, e.outcome)
        /\ UNCHANGED <<disk, loaded, blocked, serial>>
    BY <1>4 DEF HandleTerminal, countVars
  <2> QED
    BY <2>2, <2>3, FinishIfCurrentRecord DEF RecordStep
<1>5. CASE ArmTimeout
  <2>1. FinishIfCurrent(awaiting, "Failed")
        /\ UNCHANGED <<disk, loaded, blocked, serial>>
    BY <1>5 DEF ArmTimeout, countVars
  <2>2. awaiting \in Attempt \cup {None} /\ "Failed" \in Obs!Outcomes
    BY DEF TypeOK, Obs!Outcomes
  <2> QED
    BY <2>1, <2>2, FinishIfCurrentRecord DEF RecordStep
<1>6. ASSUME NEW success \in BOOLEAN, SystemctlExits(success)
      PROVE  RecordStep
  <2>1. UNCHANGED <<disk, loaded, blocked, serial>>
    BY <1>6 DEF SystemctlExits, countVars
  <2>2. CASE success
    BY <1>6, <2>1, <2>2
    DEF SystemctlExits, RecordStep, LeavesRecords, historyVars
  <2>3. CASE ~success
    <3>1. FinishIfCurrent(current, "Failed")
      BY <1>6, <2>3 DEF SystemctlExits
    <3>2. current \in Attempt \cup {None} /\ "Failed" \in Obs!Outcomes
      BY DEF TypeOK, Obs!Outcomes
    <3> QED
      BY <2>1, <3>1, <3>2, FinishIfCurrentRecord DEF RecordStep
  <2> QED
    BY <2>2, <2>3
<1>7. CASE UNCHANGED vars
  BY <1>7 DEF vars, RecordStep, LeavesRecords, historyVars, attemptVars, countVars
<1> QED
  BY <1>1, <1>2, <1>3, <1>4, <1>5, <1>6, <1>7 DEF Next, RecordStep

(***************************************************************************)
(* One outcome per attempt.  HistoriesCloseOnce is not inductive: the      *)
(* outcome of the attempt in flight is appended to whatever is in memory,  *)
(* which was read from a file that was written by an earlier service.  So  *)
(* in all three records the serials are ones that were handed out, and     *)
(* none of the outcomes is one of the attempt in flight.                   *)
(***************************************************************************)

InFlight == IF executing THEN current.serial ELSE 0

Fits(d, last, flight) ==
  /\ ClosedOnce(d)
  /\ d.open # None => d.open.serial <= last
  /\ \A i \in Entries(d) : /\ d.outcomes[i].attempt.serial <= last
                           /\ d.outcomes[i].attempt.serial # flight

RecordInv ==
  /\ Fits(doc, serial, InFlight)
  /\ writing # None => Fits(writing, serial, InFlight)
  /\ disk \notin {Absent, Malformed} => Fits(disk, serial, InFlight)

\* The entries of a document are of attempts that were handed a serial.
LEMMA EntryType ==
  ASSUME NEW d \in Document, NEW i \in Entries(d)
  PROVE  /\ i \in 1..Len(d.outcomes)
         /\ d.outcomes[i].attempt \in Attempt
         /\ d.outcomes[i].attempt.serial \in Nat \ {0}
<1>1. d.outcomes[i] \in Entry /\ d.outcomes[i].attempt # None
      /\ i \in 1..Len(d.outcomes)
  BY DEF Document, Entries
<1>2. d.outcomes[i].attempt \in Attempt
  BY <1>1 DEF Entry
<1> QED
  BY <1>1, <1>2, StagedSleepAssumption DEF Attempt, StagedSleepAssumption

\* A record that fits still does when the attempt in flight has ended, or when
\* a serial is handed out that none of its entries has.
LEMMA FitsLater ==
  ASSUME NEW d \in Document, NEW last \in Nat, NEW flight \in Nat,
         Fits(d, last, flight), NEW later \in Nat, last <= later,
         NEW next \in Nat, next = flight \/ next = 0 \/ last < next
  PROVE  Fits(d, later, next)
<1>1. ASSUME NEW i \in Entries(d)
      PROVE  /\ d.outcomes[i].attempt.serial <= later
             /\ d.outcomes[i].attempt.serial # next
  <2>1. d.outcomes[i].attempt.serial \in Nat \ {0}
    BY EntryType
  <2> QED
    BY <2>1 DEF Fits
<1>2. d.open # None => d.open.serial <= later
  <2>1. d.open # None => d.open.serial \in Nat
    BY StagedSleepAssumption DEF Document, Attempt, StagedSleepAssumption
  <2> QED
    BY <2>1 DEF Fits
<1> QED
  BY <1>1, <1>2 DEF Fits

\* The empty history fits.
LEMMA EmptyFits ==
  ASSUME NEW last, NEW flight
  PROVE  Fits(EmptyHistory, last, flight)
BY DEF Fits, ClosedOnce, Entries, EmptyHistory

\* appendTerminal shifts the outcomes and puts the new one last; what goes to
\* the writer, if anything, is the document in memory.
LEMMA AppendTerminalEntries ==
  ASSUME NEW d \in Document, NEW a \in Attempt \cup {None}, NEW o \in Outcome,
         AppendTerminal(d, a, o)
  PROVE  /\ doc'.open = None
         /\ writing' = writing \/ writing' = doc'
         /\ closed' = IF a = None THEN closed ELSE closed \cup {a.serial}
         /\ \E k \in 0..Len(d.outcomes) :
              /\ Len(doc'.outcomes) = Len(d.outcomes) + 1 - k
              /\ \A i \in 1..Len(doc'.outcomes) :
                   doc'.outcomes[i] =
                     IF i + k = Len(d.outcomes) + 1
                       THEN [attempt |-> a, outcome |-> o]
                       ELSE d.outcomes[i + k]
<1> DEFINE entry == [attempt |-> a, outcome |-> o]
           s == Append(d.outcomes, entry)
<1>1. PICK kept \in Trimmed(s) :
        /\ doc' = [open |-> None, outcomes |-> kept]
        /\ Persist(doc')
        /\ closed' = IF a = None THEN closed ELSE closed \cup {a.serial}
  BY DEF AppendTerminal
<1>2. d.outcomes \in Seq(Entry) /\ entry \in Entry
  BY DEF Document, Entry
<1>3. /\ s \in Seq(Entry)
      /\ Len(s) = Len(d.outcomes) + 1
      /\ Len(d.outcomes) \in Nat
      /\ \A i \in 1..Len(s) :
           s[i] = IF i = Len(d.outcomes) + 1 THEN entry ELSE d.outcomes[i]
  BY <1>2
<1> HIDE DEF entry, s
<1>4. PICK j \in 1..Len(s) : kept = SubSeq(s, j, Len(s))
  BY <1>1 DEF Trimmed
<1>5. /\ Len(kept) = Len(s) - j + 1
      /\ \A i \in 1..Len(kept) : kept[i] = s[i + j - 1]
  BY <1>3, <1>4
<1> DEFINE k == j - 1
<1>6. k \in 0..Len(d.outcomes) /\ Len(kept) = Len(d.outcomes) + 1 - k
  BY <1>3, <1>5
<1>7. ASSUME NEW i \in 1..Len(kept)
      PROVE  kept[i] = IF i + k = Len(d.outcomes) + 1 THEN entry
                       ELSE d.outcomes[i + k]
  <2>1. i + k \in 1..Len(s) /\ kept[i] = s[i + k]
    BY <1>3, <1>5, <1>6
  <2> QED
    BY <1>3, <2>1
<1> QED
  BY <1>1, <1>6, <1>7 DEF Persist, entry

\* Recording the outcome of an attempt that has none in the document, and is
\* not in flight any more, leaves a document that fits.
LEMMA AppendFits ==
  ASSUME NEW d \in Document, NEW a \in Attempt \cup {None}, NEW o \in Outcome,
         AppendTerminal(d, a, o),
         NEW last \in Nat, NEW flight \in Nat, Fits(d, last, flight),
         NEW next \in {flight, 0},
         a # None => /\ a.serial <= last
                     /\ a.serial # next
                     /\ \A i \in Entries(d) :
                          d.outcomes[i].attempt.serial # a.serial
  PROVE  Fits(doc', last, next)
<1> DEFINE n == Len(d.outcomes)
<1>1. PICK k \in 0..n :
        /\ Len(doc'.outcomes) = n + 1 - k
        /\ \A i \in 1..Len(doc'.outcomes) :
             doc'.outcomes[i] = IF i + k = n + 1
                                  THEN [attempt |-> a, outcome |-> o]
                                  ELSE d.outcomes[i + k]
  BY AppendTerminalEntries
<1>2. doc'.open = None
  BY AppendTerminalEntries
<1>3. n \in Nat
  BY DEF Document
<1>4. ASSUME NEW i \in Entries(doc')
      PROVE  /\ i \in 1..(n + 1 - k)
             /\ \/ i + k = n + 1 /\ doc'.outcomes[i].attempt = a /\ a # None
                \/ i + k \in Entries(d)
                   /\ doc'.outcomes[i].attempt = d.outcomes[i + k].attempt
  <2>1. i \in 1..(n + 1 - k) /\ doc'.outcomes[i].attempt # None
    BY <1>1 DEF Entries
  <2>2. CASE i + k = n + 1
    BY <1>1, <2>1, <2>2
  <2>3. CASE i + k # n + 1
    <3>0. i \in 1..Len(doc'.outcomes)
      BY <1>1, <2>1
    <3>1. doc'.outcomes[i] = d.outcomes[i + k] /\ i + k \in 1..n
      <4>1. doc'.outcomes[i] = d.outcomes[i + k]
        BY <1>1, <2>3, <3>0
      <4>2. i + k \in 1..n
        <5> HIDE DEF n
        <5> QED
          BY <1>3, <2>1, <2>3
      <4> QED
        BY <4>1, <4>2
    <3>2. doc'.outcomes[i].attempt = d.outcomes[i + k].attempt
          /\ d.outcomes[i + k].attempt # None
      BY <2>1, <3>1
    <3>3. i + k \in Entries(d)
      BY <3>1, <3>2 DEF Entries
    <3> QED
      BY <2>1, <3>2, <3>3
  <2> QED
    BY <2>2, <2>3
<1>5. ASSUME NEW i \in Entries(doc')
      PROVE  /\ doc'.outcomes[i].attempt.serial <= last
             /\ doc'.outcomes[i].attempt.serial # next
  <2>1. CASE i + k \in Entries(d)
             /\ doc'.outcomes[i].attempt = d.outcomes[i + k].attempt
    <3>1. d.outcomes[i + k].attempt.serial \in Nat \ {0}
      BY <2>1, EntryType
    <3> QED
      BY <2>1, <3>1 DEF Fits
  <2> QED
    BY <1>4, <2>1
<1>6. ASSUME NEW i \in Entries(doc'), NEW j \in Entries(doc'),
             doc'.outcomes[i].attempt.serial = doc'.outcomes[j].attempt.serial
      PROVE  i = j
  <2>1. i \in 1..(n + 1 - k) /\ j \in 1..(n + 1 - k)
    BY <1>4
  <2>2. CASE i + k \in Entries(d) /\ j + k \in Entries(d)
             /\ doc'.outcomes[i].attempt = d.outcomes[i + k].attempt
             /\ doc'.outcomes[j].attempt = d.outcomes[j + k].attempt
    <3>1. i + k = j + k
      BY <1>6, <2>2 DEF Fits, ClosedOnce
    <3> QED
      BY <1>1, <2>1, <3>1
  <2>3. CASE i + k = n + 1 /\ j + k = n + 1
    BY <1>1, <1>3, <2>1, <2>3
  <2>4. CASE i + k = n + 1 /\ doc'.outcomes[i].attempt = a /\ a # None
             /\ j + k \in Entries(d)
             /\ doc'.outcomes[j].attempt = d.outcomes[j + k].attempt
    BY <1>6, <2>4
  <2>5. CASE j + k = n + 1 /\ doc'.outcomes[j].attempt = a /\ a # None
             /\ i + k \in Entries(d)
             /\ doc'.outcomes[i].attempt = d.outcomes[i + k].attempt
    BY <1>6, <2>5
  <2> QED
    BY <1>4, <2>2, <2>3, <2>4, <2>5
<1> QED
  BY <1>2, <1>5, <1>6 DEF Fits, ClosedOnce

\* The types RecordInv's proof keeps needing.
LEMMA FlightType ==
  ASSUME TypeOK, FlightInv
  PROVE  /\ serial \in Nat
         /\ InFlight \in Nat
         /\ InFlight <= serial
         /\ executing => InFlight = serial /\ serial # 0
BY StagedSleepAssumption
DEF StagedSleepAssumption, TypeOK, FlightInv, InFlight, Attempt

\* loadHistory closes what the file holds open, once; what it was asked
\* before, and is still in flight, is not among the outcomes of the file.
LEMMA LoadHistoryRecord ==
  ASSUME TypeOK, FlightInv, RecordInv, LoadHistory
  PROVE  RecordInv'
<1> USE DEF RecordInv
<1>1. PICK raw \in Reads :
        IF raw = Malformed
          THEN /\ blocked' = TRUE
               /\ UNCHANGED <<historyVars, executing, nextNumber>>
          ELSE LET read == IF raw = Absent THEN doc ELSE raw IN
               /\ IF read.open = None
                    THEN doc' = read /\ UNCHANGED <<writing, closed, executing>>
                    ELSE /\ AppendTerminal(read, read.open, "Indeterminate")
                         /\ executing' = FALSE
               /\ nextNumber' = IF nextNumber > Len(doc'.outcomes)
                                  THEN nextNumber ELSE Len(doc'.outcomes) + 1
               /\ UNCHANGED blocked
  BY DEF LoadHistory
<1>2. UNCHANGED <<disk, current, serial>>
  BY DEF LoadHistory, countVars
<1>3. CASE UNCHANGED <<historyVars, executing>>
  BY <1>2, <1>3 DEF historyVars, InFlight
<1>4. CASE raw # Malformed
  <2> DEFINE read == IF raw = Absent THEN doc ELSE raw
  <2>1. read \in Document /\ read.open \in Attempt \cup {None}
        /\ Fits(read, serial, InFlight)
    BY <1>4 DEF Reads, TypeOK, Document
  <2>2. /\ IF read.open = None
             THEN doc' = read /\ UNCHANGED <<writing, closed, executing>>
             ELSE /\ AppendTerminal(read, read.open, "Indeterminate")
                  /\ executing' = FALSE
    BY <1>1, <1>4
  <2> HIDE DEF read
  <2>3. CASE read.open = None
    BY <1>2, <2>1, <2>2, <2>3 DEF InFlight
  <2>4. CASE read.open # None
    <3> DEFINE a == read.open
    <3>1. AppendTerminal(read, a, "Indeterminate") /\ InFlight' = 0
          /\ serial' = serial
      BY <1>2, <2>2, <2>4 DEF InFlight
    <3>2. a \in Attempt /\ a.serial \in Nat \ {0} /\ a.serial <= serial
          /\ \A i \in Entries(read) : read.outcomes[i].attempt.serial # a.serial
      BY <2>1, <2>4, StagedSleepAssumption
      DEF Attempt, Fits, ClosedOnce, StagedSleepAssumption
    <3>3. "Indeterminate" \in Outcome
      BY DEF Outcome
    <3>4. Fits(doc', serial, 0)
      BY <2>1, <3>1, <3>2, <3>3, FlightType, AppendFits
    <3>5. writing' = writing \/ writing' = doc'
      BY <2>1, <3>1, <3>3, AppendTerminalEntries
    <3>6. /\ writing # None => Fits(writing, serial, 0)
          /\ disk \notin {Absent, Malformed} => Fits(disk, serial, 0)
      BY FlightType, FitsLater DEF TypeOK
    <3> QED
      BY <1>2, <3>1, <3>4, <3>5, <3>6
  <2> QED
    BY <2>3, <2>4
<1> QED
  BY <1>1, <1>3, <1>4

\* RecordInv is inductive.
LEMMA NextRecordInv ==
  ASSUME TypeOK, TypeOK', FlightInv, FlightInv', RecordInv, RecordStep
  PROVE  RecordInv'
<1> USE DEF RecordInv
<1>1. CASE LeavesRecords
  BY <1>1 DEF LeavesRecords, InFlight
<1>2. CASE RecordsOutcome
  <2>1. PICK o \in Outcome : AppendTerminal(doc, current, o)
    BY <1>2 DEF RecordsOutcome
  <2>2. /\ current \in Attempt
        /\ UNCHANGED <<disk, serial>>
        /\ InFlight = current.serial
        /\ InFlight' = 0
        /\ current.serial = serial
        /\ current.serial # 0
        /\ serial \in Nat
        /\ InFlight \in Nat
    BY <1>2, FlightType DEF RecordsOutcome, InFlight, FlightInv
  <2>3. doc \in Document /\ current \in Attempt \cup {None}
    BY DEF TypeOK
  <2>4. \A i \in Entries(doc) : doc.outcomes[i].attempt.serial # current.serial
    BY <2>2 DEF Fits
  <2>5. Fits(doc', serial, 0)
    BY <2>1, <2>2, <2>3, <2>4, AppendFits
  <2>6. writing' = writing \/ writing' = doc'
    BY <2>1, <2>3, AppendTerminalEntries
  <2>7. /\ writing # None => Fits(writing, serial, 0)
        /\ disk \notin {Absent, Malformed} => Fits(disk, serial, 0)
    BY <2>2, FitsLater DEF TypeOK
  <2> QED
    BY <2>2, <2>5, <2>6, <2>7
<1>3. CASE FlushHistory \/ FlushFails
  BY <1>3 DEF FlushHistory, FlushFails, attemptVars, countVars, InFlight
<1>4. CASE LoadHistory
  BY <1>4, LoadHistoryRecord
<1>5. CASE ResetHistory
  BY <1>5, EmptyFits DEF ResetHistory, attemptVars, InFlight
<1>6. CASE RefuseBeforeSubmission
  <2>1. /\ AppendTerminal(doc, None, "Refused")
        /\ UNCHANGED <<disk, executing, current, serial>>
    BY <1>6 DEF RefuseBeforeSubmission, attemptVars, countVars
  <2>2. "Refused" \in Outcome /\ None \in Attempt \cup {None}
        /\ doc \in Document
    BY DEF Outcome, TypeOK
  <2>3. Fits(doc', serial, InFlight)
    BY <2>1, <2>2, FlightType, AppendFits
  <2>4. writing' = writing \/ writing' = doc'
    BY <2>1, <2>2, AppendTerminalEntries
  <2> QED
    BY <2>1, <2>3, <2>4 DEF InFlight
<1>7. ASSUME NEW o \in Origins, NEW f \in Fallbacks,
             Submit(o, f) \/ SubmitUnpersisted(o, f)
      PROVE  RecordInv'
  <2> DEFINE a == NewAttempt(o, f)
  <2>1. OpenAttempt(a)
    BY <1>7 DEF Submit, SubmitUnpersisted
  <2>2. /\ a \in Attempt
        /\ a.serial = serial + 1
        /\ doc' = [doc EXCEPT !.open = a]
        /\ serial' = serial + 1
        /\ ~executing
    BY <2>1, NewAttemptType DEF OpenAttempt, RequestsArrive
  <2>3. /\ writing' = writing \/ writing' = doc'
        /\ disk' = disk
        /\ InFlight' \in {0, serial + 1}
        /\ InFlight = 0
    BY <1>7, <2>2
    DEF Submit, SubmitUnpersisted, Persist, InFlight, attemptVars
  <2>4. serial \in Nat /\ serial + 1 \in Nat /\ InFlight' \in Nat
    BY <2>3, FlightType
  <2> HIDE DEF a
  <2>5. /\ Fits(doc, serial + 1, InFlight')
        /\ writing # None => Fits(writing, serial + 1, InFlight')
        /\ disk \notin {Absent, Malformed} => Fits(disk, serial + 1, InFlight')
    BY <2>3, <2>4, FitsLater DEF TypeOK
  <2>6. doc' \in Document /\ doc'.outcomes = doc.outcomes /\ doc'.open = a
    BY <2>2 DEF TypeOK, Document
  <2>7. \A i \in Entries(doc) : doc.outcomes[i].attempt.serial # a.serial
    <3> TAKE i \in Entries(doc)
    <3>1. doc.outcomes[i].attempt.serial \in Nat \ {0}
      BY EntryType DEF TypeOK
    <3> QED
      BY <2>2, <2>4, <3>1 DEF Fits
  <2>8. Fits(doc', serial + 1, InFlight')
    BY <2>2, <2>4, <2>5, <2>6, <2>7 DEF Fits, ClosedOnce, Entries
  <2> QED
    BY <2>2, <2>3, <2>5, <2>8
<1>8. CASE Reload
  <2>1. /\ doc' = EmptyHistory
        /\ writing' = None
        /\ UNCHANGED <<disk, serial>>
        /\ InFlight' = 0
    BY <1>8 DEF Reload, InFlight
  <2>2. disk \notin {Absent, Malformed} => Fits(disk, serial, 0)
    BY FlightType, FitsLater DEF TypeOK
  <2> QED
    BY <2>1, <2>2, EmptyFits
<1> QED
  BY <1>1, <1>2, <1>3, <1>4, <1>5, <1>6, <1>7, <1>8 DEF RecordStep

\* No history, in memory, on its way to disk or on disk, records two outcomes
\* for one attempt, or one for the attempt it still calls open, whatever is
\* lost, reloaded, reset or asked for before the history is loaded
\* (appendTerminal, reconcileRecoveredAttempt).
THEOREM OneOutcomePerAttempt == Spec => []HistoriesCloseOnce
<1>1. Init => TypeOK /\ FlightInv /\ RecordInv
  <2> SUFFICES ASSUME Init PROVE RecordInv
    BY InitTypeOK, InitFlightInv
  <2> QED
    BY EmptyFits DEF Init, RecordInv
<1>2. TypeOK /\ FlightInv /\ RecordInv /\ [Next]_vars
        => TypeOK' /\ FlightInv' /\ RecordInv'
  BY NextTypeOK, NextFlightStep, NextFlightInv, NextRecordStep, NextRecordInv
<1>3. RecordInv => HistoriesCloseOnce
  BY DEF RecordInv, HistoriesCloseOnce, Fits
<1> QED
  BY <1>1, <1>2, <1>3, PTL DEF Spec

(***************************************************************************)
(* A slot taken by a request whose record was refused.  Its serial is the  *)
(* youngest handed out when it is taken, so nothing was asked for it or    *)
(* recorded of it before, and nothing is while no attempt executes.        *)
(***************************************************************************)

UnpersistedInv ==
  /\ \A s \in closed : s <= serial
  /\ ~executing /\ doc.open # None =>
       requests[doc.open.serial] = 0 /\ doc.open.serial \notin closed

\* UnpersistedInv is inductive beside the invariants of flight, slot and
\* records.
LEMMA NextUnpersistedInv ==
  ASSUME ~EarlyRequests, TypeOK, FlightInv, SlotInv, RecordInv, UnpersistedInv,
         [Next]_vars
  PROVE  UnpersistedInv'
<1> USE DEF UnpersistedInv
<1>1. RecordStep /\ FlightStep
  BY NextRecordStep, NextFlightStep
<1>2. serial \in 0..MaxAttempts /\ MaxAttempts \in Nat
      /\ closed \subseteq 1..MaxAttempts
  BY StagedSleepAssumption DEF StagedSleepAssumption, TypeOK
<1>3. CASE LeavesRecords
  BY <1>1, <1>3 DEF LeavesRecords, FlightStep, StaysPut, TakesOff, BurnsNumber,
     AsksOnce, Lands
<1>4. CASE RecordsOutcome
  <2>1. PICK o \in Outcome : AppendTerminal(doc, current, o)
    BY <1>4 DEF RecordsOutcome
  <2>2. current \in Attempt /\ current # None /\ current.serial = serial
        /\ serial' = serial
    BY <1>4, NoneIsNothing DEF RecordsOutcome, FlightInv, NoneIsNothing
  <2>3. doc'.open = None /\ closed' = closed \cup {serial}
    BY <2>1, <2>2 DEF AppendTerminal
  <2> QED
    BY <1>2, <2>2, <2>3
<1>5. CASE FlushHistory \/ FlushFails
  BY <1>5 DEF FlushHistory, FlushFails, attemptVars, countVars
<1>6. CASE LoadHistory
  <2>1. doc = EmptyHistory /\ serial' = serial /\ requests' = requests
        /\ executing = FALSE
    BY <1>6 DEF LoadHistory, SlotInv, countVars, TypeOK
  <2>2. PICK raw \in Reads :
          IF raw = Malformed
            THEN UNCHANGED <<historyVars, executing>>
            ELSE LET read == IF raw = Absent THEN doc ELSE raw IN
                 IF read.open = None
                   THEN doc' = read /\ UNCHANGED closed
                   ELSE AppendTerminal(read, read.open, "Indeterminate")
    BY <1>6 DEF LoadHistory
  <2>3. CASE raw = Malformed
    BY <2>1, <2>2, <2>3 DEF historyVars
  <2>4. CASE raw # Malformed
    <3> DEFINE read == IF raw = Absent THEN doc ELSE raw
    <3>1. CASE read.open = None
      BY <2>1, <2>2, <2>4, <3>1
    <3>2. CASE read.open # None
      <4>1. raw = disk /\ disk \notin {Absent, Malformed}
        BY <2>1, <2>4, <3>2 DEF Reads, EmptyHistory
      <4>2. disk.open.serial <= serial
        BY <3>2, <4>1 DEF RecordInv, Fits
      <4>3. AppendTerminal(disk, disk.open, "Indeterminate") /\ disk.open # None
        BY <2>2, <2>4, <3>2, <4>1
      <4>4. doc'.open = None /\ closed' = closed \cup {disk.open.serial}
        BY <4>3 DEF AppendTerminal
      <4> QED
        BY <2>1, <4>2, <4>4
    <3> QED
      BY <3>1, <3>2
  <2> QED
    BY <2>3, <2>4
<1>7. CASE ResetHistory
  BY <1>7 DEF ResetHistory, EmptyHistory
<1>8. CASE RefuseBeforeSubmission
  BY <1>8 DEF RefuseBeforeSubmission, AppendTerminal, countVars
<1>9. ASSUME NEW o \in Origins, NEW f \in Fallbacks, Submit(o, f)
      PROVE  UnpersistedInv'
  BY <1>2, <1>9 DEF Submit, OpenAttempt
<1>10. ASSUME NEW o \in Origins, NEW f \in Fallbacks, SubmitUnpersisted(o, f)
       PROVE  UnpersistedInv'
  <2>1. /\ serial < MaxAttempts
        /\ serial' = serial + 1
        /\ doc'.open = NewAttempt(o, f)
        /\ UNCHANGED <<closed, requests>>
    BY <1>10, NewAttemptType DEF SubmitUnpersisted, OpenAttempt
  <2>2. NewAttempt(o, f).serial = serial + 1
    BY DEF NewAttempt
  <2>3. requests[serial + 1] = 0
    BY <1>2, <2>1 DEF FlightInv
  <2> QED
    BY <1>2, <2>1, <2>2, <2>3
<1>11. CASE Reload
  BY <1>11 DEF Reload, EmptyHistory
<1> QED
  BY <1>1, <1>3, <1>4, <1>5, <1>6, <1>7, <1>8, <1>9, <1>10, <1>11 DEF RecordStep

\* When requests wait for the history to be loaded, the open slot names the
\* attempt in flight or, while nothing is in flight, a request whose record
\* was refused: over a rejected file, never asked for, never closed, never
\* written (_coordinateStagedSleep, persistHistory, resetHistory).
THEOREM OpenSlotIsKnown ==
  ASSUME ~EarlyRequests
  PROVE  Spec => []OpenSlotAccountedFor
<1> DEFINE Inv == TypeOK /\ FlightInv /\ SlotInv /\ RecordInv /\ UnpersistedInv
<1>1. Init => Inv
  BY InitTypeOK, InitFlightInv, EmptyFits
  DEF Init, SlotInv, SlotFollows, EmptyHistory, RecordInv, UnpersistedInv
<1>2. Inv /\ [Next]_vars => Inv'
  BY NextTypeOK, NextFlightStep, NextFlightInv, NextSlotInv, NextRecordStep,
     NextRecordInv, NextUnpersistedInv
<1>3. Inv => OpenSlotAccountedFor
  BY DEF SlotInv, SlotFollows, UnpersistedInv, OpenSlotAccountedFor
<1> QED
  BY <1>1, <1>2, <1>3, PTL DEF Spec

(***************************************************************************)
(* The durable open record.  DurableOpenIsClosed is not inductive: the     *)
(* file is replaced by what the writer has, which is an older state of the *)
(* document in memory.  So an attempt that is durably open, and that no    *)
(* service has closed, is the open one in memory once the file has been    *)
(* read, and of what the writer has; and what the writer has open is open  *)
(* in memory.                                                              *)
(***************************************************************************)

Unclosed(a) == a # None /\ a.serial \notin closed

DurableInv ==
  /\ loaded /\ Unclosed(OpenOnDisk) => doc.open = OpenOnDisk
  /\ writing # None /\ Unclosed(OpenOnDisk) => writing.open = OpenOnDisk
  /\ writing # None /\ Unclosed(writing.open) => doc.open = writing.open

\* A document is not one of the marks for a file that is none.
LEMMA DocumentIsNoMark ==
  ASSUME NEW d \in Document
  PROVE  d \notin {None, Absent, Malformed}
BY NoneIsNothing DEF NoneIsNothing

\* An outcome recorded while a history may be replaced goes to the writer.
LEMMA AppendTerminalWrites ==
  ASSUME NEW d, NEW a, NEW o, AppendTerminal(d, a, o)
  PROVE  /\ doc'.open = None
         /\ writing' = IF blocked THEN writing ELSE doc'
         /\ closed \subseteq closed'
         /\ a # None => a.serial \in closed'
BY DEF AppendTerminal, Persist

\* What the service reads from a file that can be read, it closes or takes
\* over.
LEMMA LoadHistoryDurable ==
  ASSUME ~Unreadable, TypeOK, SlotInv, DurableInv, LoadHistory
  PROVE  DurableInv'
<1> USE DEF DurableInv, Unclosed, OpenOnDisk
<1>1. /\ ~loaded
      /\ loaded' = TRUE
      /\ disk' = disk
      /\ writing = None
      /\ ~blocked
      /\ doc = EmptyHistory
  BY DEF LoadHistory, SlotInv
<1>2. IF disk = Malformed
        THEN blocked' = TRUE /\ UNCHANGED historyVars
        ELSE LET read == IF disk = Absent THEN doc ELSE disk IN
             /\ IF read.open = None
                  THEN doc' = read /\ UNCHANGED <<writing, closed, executing>>
                  ELSE AppendTerminal(read, read.open, "Indeterminate")
             /\ UNCHANGED blocked
  BY DEF LoadHistory, Reads
<1>3. CASE disk = Malformed
  BY <1>1, <1>2, <1>3 DEF historyVars
<1>4. CASE disk = Absent
  BY <1>1, <1>2, <1>4, NoneIsNothing DEF EmptyHistory, NoneIsNothing
<1>5. CASE disk \notin {Absent, Malformed}
  <2>1. CASE disk.open = None
    BY <1>1, <1>2, <1>5, <2>1
  <2>2. CASE disk.open # None
    <3>1. AppendTerminal(disk, disk.open, "Indeterminate") /\ blocked' = FALSE
      BY <1>1, <1>2, <1>5, <2>2 DEF TypeOK
    <3>2. /\ doc'.open = None
          /\ writing' = doc'
          /\ disk.open.serial \in closed'
      BY <1>1, <2>2, <3>1, AppendTerminalWrites
    <3> QED
      BY <1>1, <1>5, <2>2, <3>1, <3>2
  <2> QED
    BY <2>1, <2>2
<1> QED
  BY <1>3, <1>4, <1>5

\* DurableInv is inductive when the history file can be read and is read
\* before the first request.
LEMMA NextDurableInv ==
  ASSUME ~EarlyRequests, ~Unreadable, TypeOK, SlotInv, DurableInv, RecordStep
  PROVE  DurableInv'
<1> USE DEF DurableInv, Unclosed, OpenOnDisk
<1>0. blocked => disk = Malformed /\ writing = None
  BY DEF SlotInv
<1>1. CASE LeavesRecords
  BY <1>1 DEF LeavesRecords
<1>2. CASE RecordsOutcome
  <2>1. PICK o \in Outcome : AppendTerminal(doc, current, o)
    BY <1>2 DEF RecordsOutcome
  <2>2. /\ current # None
        /\ UNCHANGED <<disk, loaded, blocked>>
        /\ loaded
        /\ ~blocked => doc.open = current
    BY <1>2, NoneIsNothing
    DEF RecordsOutcome, SlotInv, SlotFollows, NoneIsNothing
  <2>3. /\ doc'.open = None
        /\ writing' = IF blocked THEN writing ELSE doc'
        /\ closed \subseteq closed'
        /\ current.serial \in closed'
    BY <2>1, <2>2, AppendTerminalWrites
  <2> QED
    BY <1>0, <2>2, <2>3
<1>3. CASE FlushHistory \/ FlushFails
  <2>1. /\ writing # None
        /\ disk' = writing \/ disk' = disk
        /\ writing' = None
        /\ UNCHANGED <<doc, closed, loaded, blocked>>
    BY <1>3 DEF FlushHistory, FlushFails
  <2>2. writing \notin {Absent, Malformed}
    BY <2>1, DocumentIsNoMark DEF TypeOK
  <2> QED
    BY <2>1, <2>2
<1>4. CASE LoadHistory
  BY <1>4, LoadHistoryDurable
<1>5. CASE ResetHistory
  BY <1>5 DEF ResetHistory, RequestsArrive, EmptyHistory
<1>6. CASE RefuseBeforeSubmission
  <2>1. /\ AppendTerminal(doc, None, "Refused")
        /\ UNCHANGED <<disk, loaded, blocked>>
        /\ loaded
        /\ ~blocked => doc.open = None
    BY <1>6 DEF RefuseBeforeSubmission, RequestsArrive, SlotInv, SlotFollows
  <2>2. /\ doc'.open = None
        /\ writing' = IF blocked THEN writing ELSE doc'
        /\ closed \subseteq closed'
    BY <2>1, AppendTerminalWrites
  <2> QED
    BY <1>0, <2>1, <2>2
<1>7. ASSUME NEW o \in Origins, NEW f \in Fallbacks,
             Submit(o, f) \/ SubmitUnpersisted(o, f)
      PROVE  DurableInv'
  <2>1. /\ loaded
        /\ ~executing
        /\ UNCHANGED <<disk, loaded, blocked, closed>>
        /\ writing' = IF blocked THEN writing ELSE doc'
    BY <1>7
    DEF Submit, SubmitUnpersisted, OpenAttempt, RequestsArrive, Persist
  <2>2. ~blocked => doc.open = None
    BY <2>1 DEF SlotInv, SlotFollows
  <2> QED
    BY <1>0, <2>1, <2>2
<1>8. CASE Reload
  BY <1>8 DEF Reload
<1> QED
  BY <1>1, <1>2, <1>3, <1>4, <1>5, <1>6, <1>7, <1>8 DEF RecordStep

\* If the history file can be read, an attempt that is durably open leaves the
\* open slot of the file only after an outcome for it was recorded
\* (loadHistory, persistHistory).
THEOREM DurableOpenGetsOutcome ==
  ASSUME ~EarlyRequests, ~Unreadable
  PROVE  Spec => DurableOpenIsClosed
<1>1. Init => TypeOK /\ SlotInv /\ DurableInv
  <2> SUFFICES ASSUME Init PROVE SlotInv /\ DurableInv
    BY InitTypeOK
  <2>1. SlotInv
    BY DEF Init, SlotInv, SlotFollows, EmptyHistory
  <2>2. DurableInv
    BY DEF Init, DurableInv, Unclosed, OpenOnDisk
  <2> QED
    BY <2>1, <2>2
<1>2. TypeOK /\ SlotInv /\ DurableInv /\ [Next]_vars
        => TypeOK' /\ SlotInv' /\ DurableInv'
  BY NextTypeOK, NextSlotInv, NextRecordStep, NextDurableInv
<1>3. TypeOK /\ DurableInv /\ [Next]_vars
        => [OpenOnDisk # None /\ disk' # disk =>
              disk'.open = OpenOnDisk \/ OpenOnDisk.serial \in closed]_vars
  <2> SUFFICES ASSUME TypeOK, DurableInv, RecordStep,
                      OpenOnDisk # None, disk' # disk
               PROVE  disk'.open = OpenOnDisk \/ OpenOnDisk.serial \in closed
    BY NextRecordStep
  <2>1. writing # None /\ disk' = writing
    BY DEF RecordStep, LeavesRecords, RecordsOutcome, FlushHistory, FlushFails,
       LoadHistory, ResetHistory, RefuseBeforeSubmission, Submit,
       SubmitUnpersisted, Reload
  <2> QED
    BY <2>1 DEF DurableInv, Unclosed
<1> QED
  BY <1>1, <1>2, <1>3, PTL DEF Spec, DurableOpenIsClosed

(***************************************************************************)
(* What a step does to the pipes and to the attempt the service waits for. *)
(* Most steps leave the pipes alone, and none but a request changes what   *)
(* is in flight otherwise than by ending it.  A reset, which is the one    *)
(* thing that hands out numbers again, is left out from here on.           *)
(***************************************************************************)

KeepsPipes ==
  /\ UNCHANGED <<held, armed, stdin, events, current>>
  /\ awaiting' \in {awaiting, None}
  /\ nextNumber <= nextNumber'
  /\ executing' => UNCHANGED <<executing, awaiting, dispatched>>

PipeStep ==
  \/ KeepsPipes
  \/ \E o \in Origins, f \in Fallbacks : Submit(o, f)
  \/ ObserverStep
  \/ ObserverDies
  \/ HandleArmed
  \/ HandleTerminal
  \/ Reload

\* An event ends what it is about or changes nothing.
LEMMA FinishIfCurrentKeeps ==
  ASSUME NEW a, NEW o, FinishIfCurrent(a, o)
  PROVE  /\ current' = current
         /\ awaiting' \in {awaiting, None}
         /\ executing' => UNCHANGED <<executing, awaiting, dispatched>>
BY DEF FinishIfCurrent, Finish

\* Every step but a reset is a pipe step.
LEMMA NextPipeStep ==
  ASSUME MaxResets = 0, TypeOK, TypeOK', [Next]_vars
  PROVE  PipeStep
<1> USE DEF PipeStep, observerVars, attemptVars, countVars, historyVars
<1>0. nextNumber \in Nat /\ nextNumber' \in Nat /\ executing \in BOOLEAN
      /\ executing' \in BOOLEAN
  BY DEF TypeOK
<1>1. CASE LoadHistory
  <2>1. /\ UNCHANGED <<held, armed, stdin, events, current, awaiting, dispatched>>
        /\ UNCHANGED executing \/ executing' = FALSE
    BY <1>1 DEF LoadHistory
  <2>2. nextNumber <= nextNumber'
    <3>1. Len(doc'.outcomes) \in Nat
      BY DEF TypeOK, Document
    <3>2. \/ UNCHANGED nextNumber
          \/ nextNumber' = IF nextNumber > Len(doc'.outcomes)
                             THEN nextNumber ELSE Len(doc'.outcomes) + 1
      BY <1>1 DEF LoadHistory
    <3> QED
      BY <1>0, <3>1, <3>2
  <2> QED
    BY <2>1, <2>2 DEF KeepsPipes
<1>2. CASE FlushHistory \/ FlushFails \/ RefuseBeforeSubmission \/ ObserverReady
  BY <1>0, <1>2
  DEF FlushHistory, FlushFails, RefuseBeforeSubmission, ObserverReady, KeepsPipes
<1>3. CASE ResetHistory
  BY <1>3 DEF ResetHistory, TypeOK
<1>4. ASSUME NEW o \in Origins, NEW f \in Fallbacks, SubmitUnpersisted(o, f)
      PROVE  PipeStep
  BY <1>0, <1>4 DEF SubmitUnpersisted, OpenAttempt, KeepsPipes
<1>5. CASE ObserverExited
  BY <1>0, <1>5, FinishIfCurrentKeeps DEF ObserverExited, KeepsPipes
<1>6. CASE ArmTimeout
  BY <1>0, <1>6, FinishIfCurrentKeeps DEF ArmTimeout, KeepsPipes
<1>7. ASSUME NEW success \in BOOLEAN, SystemctlExits(success)
      PROVE  PipeStep
  BY <1>0, <1>7, FinishIfCurrentKeeps DEF SystemctlExits, KeepsPipes
<1>8. CASE UNCHANGED vars
  BY <1>0, <1>8 DEF vars, KeepsPipes
<1> QED
  BY <1>1, <1>2, <1>3, <1>4, <1>5, <1>6, <1>7, <1>8 DEF Next

(***************************************************************************)
(* Identifiers.  The code knows an attempt by origin and number only.      *)
(* Until a history is reset, all that one life of the service has in its   *)
(* pipes or remembers has numbers that were handed out in that life, so an *)
(* identifier names one attempt.                                           *)
(***************************************************************************)

InStdin == {stdin[i] : i \in 1..Len(stdin)}
InEvents == {events[i].attempt : i \in 1..Len(events)}

Known == ({held, current, awaiting} \cup InStdin \cup InEvents) \ {None}

IdentityInv ==
  \A a, b \in Known : a.number < nextNumber /\ (SameId(a, b) => a = b)

\* What the service knows are attempts.
LEMMA KnownType ==
  ASSUME TypeOK
  PROVE  Known \subseteq Attempt
<1>1. InStdin \subseteq Attempt
  BY DEF InStdin, TypeOK, Obs!ContractTypeOK
<1>2. InEvents \subseteq Attempt
  <2>1. ASSUME NEW i \in 1..Len(events)
        PROVE  events[i].attempt \in Attempt
    <3>1. events[i] \in Obs!Event
      BY DEF TypeOK, Obs!ContractTypeOK
    <3> QED
      BY <3>1 DEF Obs!Event
  <2> QED
    BY <2>1 DEF InEvents
<1> QED
  BY <1>1, <1>2 DEF Known, TypeOK, Obs!ContractTypeOK

\* The rest of a pipe once its head was taken, one place further on.
LEMMA TailShifts ==
  ASSUME NEW S, NEW s \in Seq(S), s # <<>>
  PROVE  /\ Len(s) \in Nat \ {0}
         /\ Head(s) = s[1]
         /\ Tail(s) \in Seq(S)
         /\ Len(Tail(s)) = Len(s) - 1
         /\ \A i \in 1..Len(Tail(s)) : Tail(s)[i] = s[i + 1] /\ i + 1 \in 1..Len(s)
OBVIOUS

\* A pipe after something was written to it.
LEMMA AppendExtends ==
  ASSUME NEW S, NEW s \in Seq(S), NEW x
  PROVE  /\ Len(Append(s, x)) = Len(s) + 1
         /\ Len(s) \in Nat
         /\ Append(s, x)[Len(s) + 1] = x
         /\ \A i \in 1..Len(s) : Append(s, x)[i] = s[i]
OBVIOUS

\* The observer's steps and the lines that are handled bring nothing that was
\* not known.
LEMMA PipesForget ==
  ASSUME TypeOK, ObserverStep \/ ObserverDies \/ HandleArmed \/ HandleTerminal
  PROVE  /\ Known' \subseteq Known
         /\ nextNumber' = nextNumber
<1> USE DEF Known
<1>0. stdin \in Seq(Attempt) /\ events \in Seq(Obs!Event)
  BY DEF TypeOK, Obs!ContractTypeOK
<1>1. CASE ObserverStep
  <2>0. UNCHANGED <<current, awaiting, nextNumber>>
    BY <1>1 DEF ObserverStep, attemptVars, restOfService
  <2>1. CASE Obs!Take
    <3>1. /\ stdin # <<>>
          /\ stdin' = Tail(stdin)
          /\ \/ held # None /\ UNCHANGED <<held, events>>
             \/ /\ held' = Head(stdin)
                /\ \/ events' = events
                   \/ events' = Append(events, Obs!ArmedEvent(held'))
      BY <2>1 DEF Obs!Take
    <3>2. InStdin' \subseteq InStdin /\ Head(stdin) \in InStdin
      BY <1>0, <3>1, TailShifts DEF InStdin
    <3>3. CASE events' = events
      BY <2>0, <3>1, <3>2, <3>3 DEF InEvents
    <3>4. CASE /\ held' = Head(stdin)
               /\ events' = Append(events, Obs!ArmedEvent(held'))
      <4>1. InEvents' \subseteq InEvents \cup {held'}
        BY <1>0, <3>4, AppendExtends DEF InEvents, Obs!ArmedEvent
      <4> QED
        BY <2>0, <3>2, <3>4, <4>1
    <3> QED
      BY <3>1, <3>3, <3>4
  <2>2. ASSUME NEW o \in Obs!Outcomes, Obs!Terminal(o)
        PROVE  Known' \subseteq Known
    <3>1. /\ events' = Append(events, Obs!TerminalEvent(held, o))
          /\ held' = None
          /\ stdin' = stdin
      BY <2>2 DEF Obs!Terminal
    <3>2. InEvents' \subseteq InEvents \cup {held}
      BY <1>0, <3>1, AppendExtends DEF InEvents, Obs!TerminalEvent
    <3> QED
      BY <2>0, <3>1, <3>2 DEF InStdin
  <2> QED
    BY <1>1, <2>0, <2>1, <2>2 DEF ObserverStep
<1>2. CASE ObserverDies
  <2>1. /\ held' = None /\ stdin' = <<>>
        /\ UNCHANGED <<events, current, awaiting, nextNumber>>
    BY <1>2 DEF ObserverDies, attemptVars, restOfService
  <2>2. InStdin' = {} /\ InEvents' = InEvents
    BY <2>1 DEF InStdin, InEvents
  <2> QED
    BY <2>1, <2>2
<1>3. CASE HandleArmed \/ HandleTerminal
  <2>1. /\ events # <<>>
        /\ events' = Tail(events)
        /\ UNCHANGED <<held, stdin>>
        /\ current' = current
        /\ awaiting' \in {awaiting, None}
        /\ nextNumber' = nextNumber
    BY <1>3, FinishIfCurrentKeeps
    DEF HandleArmed, HandleTerminal, Obs!Read, restOfService
  <2>2. InEvents' \subseteq InEvents
    BY <1>0, <2>1, TailShifts DEF InEvents
  <2> QED
    BY <2>1, <2>2 DEF InStdin
<1> QED
  BY <1>1, <1>2, <1>3

\* A request makes one attempt known, under a number no other has.
LEMMA SubmitNames ==
  ASSUME TypeOK, NEW o \in Origins, NEW f \in Fallbacks, Submit(o, f)
  PROVE  /\ current' = NewAttempt(o, f)
         /\ current' \in Attempt
         /\ current'.number = nextNumber
         /\ Known' \subseteq Known \cup {current'}
         /\ nextNumber' = nextNumber + 1
<1>1. OpenAttempt(NewAttempt(o, f))
  BY DEF Submit
<1>2. NewAttempt(o, f) \in Attempt /\ NewAttempt(o, f).number = nextNumber
  BY <1>1, NewAttemptType DEF NewAttempt
<1>3. /\ current' = NewAttempt(o, f)
      /\ awaiting' = current'
      /\ UNCHANGED <<held, events>>
      /\ stdin' = stdin \/ stdin' = Append(stdin, current')
  BY DEF Submit
<1>4. InStdin' \subseteq InStdin \cup {current'}
  <2>1. stdin \in Seq(Attempt)
    BY DEF TypeOK, Obs!ContractTypeOK
  <2> QED
    BY <1>3, <2>1, AppendExtends DEF InStdin
<1>5. InEvents' = InEvents
  BY <1>3 DEF InEvents
<1> QED
  BY <1>1, <1>2, <1>3, <1>4, <1>5 DEF OpenAttempt, Known

\* IdentityInv is inductive.
LEMMA NextIdentityInv ==
  ASSUME TypeOK, TypeOK', IdentityInv, PipeStep
  PROVE  IdentityInv'
<1>0. nextNumber \in Nat /\ nextNumber' \in Nat
  BY DEF TypeOK
<1>1. Known \subseteq Attempt
  BY KnownType
<1>2. CASE Known' \subseteq Known /\ nextNumber <= nextNumber'
  <2>1. \A a \in Known : a.number \in Nat
    BY <1>1 DEF Attempt
  <2> QED
    BY <1>0, <1>2, <2>1 DEF IdentityInv
<1>3. CASE KeepsPipes
  <2>1. Known' \subseteq Known /\ nextNumber <= nextNumber'
    BY <1>3 DEF KeepsPipes, Known, InStdin, InEvents
  <2> QED
    BY <1>2, <2>1
<1>4. ASSUME NEW o \in Origins, NEW f \in Fallbacks, Submit(o, f)
      PROVE  IdentityInv'
  <2>1. /\ current'.number = nextNumber
        /\ Known' \subseteq Known \cup {current'}
        /\ nextNumber' = nextNumber + 1
    BY <1>4, SubmitNames
  <2>2. \A a \in Known : a.number \in Nat /\ a.number < nextNumber
    BY <1>1 DEF Attempt, IdentityInv
  <2>3. ASSUME NEW a \in Known', NEW b \in Known'
        PROVE  a.number < nextNumber' /\ (SameId(a, b) => a = b)
    <3>1. a \in Known \/ a = current'
      BY <2>1
    <3>2. b \in Known \/ b = current'
      BY <2>1
    <3>3. a.number < nextNumber'
      BY <1>0, <2>1, <2>2, <3>1
    <3>4. SameId(a, b) => a = b
      BY <1>0, <2>1, <2>2, <3>1, <3>2 DEF SameId, IdentityInv
    <3> QED
      BY <3>3, <3>4
  <2> QED
    BY <2>3 DEF IdentityInv
<1>5. CASE ObserverStep \/ ObserverDies \/ HandleArmed \/ HandleTerminal
  BY <1>0, <1>2, <1>5, PipesForget
<1>6. CASE Reload
  <2>1. Known' = {}
    BY <1>6 DEF Reload, Known, InStdin, InEvents
  <2> QED
    BY <2>1 DEF IdentityInv
<1> QED
  BY <1>3, <1>4, <1>5, <1>6 DEF PipeStep

\* TypeOK, FlightInv and IdentityInv hold together until a history is reset.
LEMMA IdentityHolds ==
  ASSUME MaxResets = 0
  PROVE  Spec => [](TypeOK /\ FlightInv /\ IdentityInv)
<1>1. Init => TypeOK /\ FlightInv /\ IdentityInv
  <2> SUFFICES ASSUME Init PROVE IdentityInv
    BY InitTypeOK, InitFlightInv
  <2>1. Known = {}
    BY DEF Init, Obs!ContractInit, Known, InStdin, InEvents
  <2> QED
    BY <2>1 DEF IdentityInv
<1>2. TypeOK /\ FlightInv /\ IdentityInv /\ [Next]_vars
        => TypeOK' /\ FlightInv' /\ IdentityInv'
  BY NextTypeOK, NextFlightStep, NextFlightInv, NextPipeStep, NextIdentityInv
<1> QED
  BY <1>1, <1>2, PTL DEF Spec

\* The line that is handled next is about an attempt the service knows.
LEMMA HeadIsKnown ==
  ASSUME TypeOK, events # <<>>
  PROVE  /\ Head(events) \in Obs!Event
         /\ Head(events) = events[1]
         /\ Len(events) \in Nat \ {0}
         /\ Head(events).attempt \in Attempt
         /\ Head(events).attempt \in Known
<1>1. events \in Seq(Obs!Event)
  BY DEF TypeOK, Obs!ContractTypeOK
<1>2. Head(events) = events[1] /\ Len(events) \in Nat \ {0}
  BY <1>1, TailShifts
<1>3. Head(events) \in Obs!Event /\ Head(events).attempt \in InEvents
  BY <1>1, <1>2 DEF InEvents
<1>4. Head(events).attempt \in Attempt
  BY <1>3 DEF Obs!Event
<1>5. Head(events).attempt # None
  BY <1>4, NoneIsNothing DEF NoneIsNothing
<1> QED
  BY <1>2, <1>3, <1>4, <1>5 DEF Known

\* Until a history is reset, what the observer says about one attempt never
\* ends another, however late it comes (finishObservedAttempt).
THEOREM EndedByItsEvidence ==
  ASSUME MaxResets = 0
  PROVE  Spec => EvidenceEndsOwnAttempt
<1>1. TypeOK /\ IdentityInv /\ [Next]_vars
        => [HandleTerminal /\ executing /\ ~executing' =>
              Head(events).attempt = current]_vars
  <2> SUFFICES ASSUME TypeOK, IdentityInv, HandleTerminal, executing, ~executing'
               PROVE  Head(events).attempt = current
    OBVIOUS
  <2>1. events # <<>>
        /\ FinishIfCurrent(Head(events).attempt, Head(events).outcome)
    BY DEF HandleTerminal
  <2>2. current # None /\ SameId(Head(events).attempt, current)
    BY <2>1 DEF FinishIfCurrent
  <2>3. current \in Known /\ Head(events).attempt \in Known
    BY <2>1, <2>2, HeadIsKnown DEF Known
  <2> QED
    BY <2>2, <2>3 DEF IdentityInv
<1> QED
  BY <1>1, IdentityHolds, PTL DEF Spec, EvidenceEndsOwnAttempt

\* An announcement that starts systemctl is about the attempt in flight.
LEMMA AnnouncedIsCurrent ==
  ASSUME TypeOK, IdentityInv, HandleArmed, requests' # requests
  PROVE  /\ executing
         /\ current \in Attempt
         /\ events # <<>>
         /\ Head(events) = Obs!ArmedEvent(current)
<1>1. /\ events # <<>>
      /\ Head(events).kind = "attempt-armed"
      /\ awaiting # None
      /\ SameId(Head(events).attempt, awaiting)
      /\ executing
      /\ current # None
      /\ SameId(awaiting, current)
  BY DEF HandleArmed
<1>2. Head(events).attempt \in Known /\ awaiting \in Known /\ current \in Known
  BY <1>1, HeadIsKnown DEF Known
<1>3. Head(events).attempt = current
  BY <1>1, <1>2 DEF IdentityInv
<1>4. Head(events) \in [kind : {"attempt-armed"}, attempt : Attempt]
  BY <1>1, HeadIsKnown DEF Obs!Event
<1> QED
  BY <1>1, <1>3, <1>4 DEF Obs!ArmedEvent, TypeOK

\* Until a history is reset, and if requests wait for the history to be
\* loaded, a request goes out only for the attempt in flight, while its record
\* is open, it has no outcome, and the observer says it is armed for it
\* (handleEvidenceObserverLine).
THEOREM RequestsAreArmed ==
  ASSUME MaxResets = 0, ~EarlyRequests
  PROVE  Spec => RequestOnlyWhileArmed
<1> DEFINE Inv == TypeOK /\ FlightInv /\ SlotInv /\ RecordInv
<1>1. Init => Inv
  BY InitTypeOK, InitFlightInv, EmptyFits
  DEF Init, SlotInv, SlotFollows, EmptyHistory, RecordInv
<1>2. Inv /\ [Next]_vars => Inv'
  BY NextTypeOK, NextFlightStep, NextFlightInv, NextSlotInv, NextRecordStep,
     NextRecordInv
<1>3. Inv /\ IdentityInv /\ [Next]_vars
        => [requests' # requests =>
              /\ executing
              /\ doc.open = current
              /\ \A i \in Entries(doc) : doc.outcomes[i].attempt # current
              /\ events # <<>>
              /\ Head(events) = Obs!ArmedEvent(current)]_vars
  <2> SUFFICES ASSUME Inv, IdentityInv, [Next]_vars, requests' # requests
               PROVE  /\ executing
                      /\ doc.open = current
                      /\ \A i \in Entries(doc) : doc.outcomes[i].attempt # current
                      /\ events # <<>>
                      /\ Head(events) = Obs!ArmedEvent(current)
    OBVIOUS
  <2>1. HandleArmed
    BY DEF Next, vars, countVars, LoadHistory, FlushHistory, FlushFails,
       ResetHistory, RefuseBeforeSubmission, Submit, SubmitUnpersisted,
       ObserverStep, ObserverReady, ObserverDies, ObserverExited,
       HandleTerminal, ArmTimeout, SystemctlExits, Reload
  <2>2. executing /\ events # <<>> /\ Head(events) = Obs!ArmedEvent(current)
    BY <2>1, AnnouncedIsCurrent
  <2>3. doc.open = current
    BY <2>2 DEF SlotInv, SlotFollows
  <2>4. \A i \in Entries(doc) : doc.outcomes[i].attempt # current
    BY <2>2 DEF RecordInv, Fits, InFlight
  <2> QED
    BY <2>2, <2>3, <2>4
<1> QED
  BY <1>1, <1>2, <1>3, IdentityHolds, PTL DEF Spec, RequestOnlyWhileArmed

(***************************************************************************)
(* Completion.  The pipe is in order: before a completed transaction of    *)
(* the attempt in flight is read, so was the announcement that made the    *)
(* service start systemctl.                                                *)
(***************************************************************************)

\* The announcement of an attempt is among the first n lines.
Announced(lines, n, a) == \E j \in 1..n : lines[j] = Obs!ArmedEvent(a)

CompletionInv ==
  executing =>
    /\ awaiting = current
    /\ held = current /\ armed
         => dispatched \/ Announced(events, Len(events), current)
    /\ \A i \in 1..Len(events) :
         events[i] = Obs!TerminalEvent(current, "Completed")
           => dispatched \/ Announced(events, i, current)

\* The observer announces before it reports.
LEMMA ObserverStepCompletion ==
  ASSUME TypeOK, FlightInv, CompletionInv, ObserverStep
  PROVE  CompletionInv'
<1> SUFFICES ASSUME executing PROVE CompletionInv'
  BY DEF CompletionInv, ObserverStep, attemptVars
<1>0. /\ UNCHANGED <<executing, current, awaiting, dispatched>>
      /\ events \in Seq(Obs!Event)
      /\ current # None
      /\ awaiting = current
      /\ held = current /\ armed
         => dispatched \/ Announced(events, Len(events), current)
      /\ \A i \in 1..Len(events) :
           events[i] = Obs!TerminalEvent(current, "Completed")
             => dispatched \/ Announced(events, i, current)
  BY NoneIsNothing
  DEF ObserverStep, attemptVars, TypeOK, Obs!ContractTypeOK, CompletionInv,
      FlightInv, NoneIsNothing
<1>1. CASE UNCHANGED <<held, armed, events>>
  BY <1>0, <1>1 DEF CompletionInv, Announced
<1>2. CASE events' = events /\ ~armed'
  BY <1>0, <1>2 DEF CompletionInv, Announced
<1>3. ASSUME NEW x, events' = Append(events, x),
             x = Obs!TerminalEvent(current, "Completed")
               => dispatched \/ Announced(events, Len(events), current),
             held' = current /\ armed' => x = Obs!ArmedEvent(current)
      PROVE  CompletionInv'
  <2>1. /\ Len(events') = Len(events) + 1
        /\ Len(events) \in Nat
        /\ events'[Len(events) + 1] = x
        /\ \A i \in 1..Len(events) : events'[i] = events[i]
    BY <1>0, <1>3, AppendExtends
  <2>2. \A n \in 1..Len(events) :
          Announced(events, n, current) => Announced(events', n, current')
    BY <1>0, <2>1 DEF Announced
  <2>3. Announced(events, Len(events), current)
          => Announced(events', Len(events'), current')
    BY <1>0, <2>1 DEF Announced
  <2>4. held' = current' /\ armed'
          => dispatched' \/ Announced(events', Len(events'), current')
    BY <1>0, <1>3, <2>1 DEF Announced
  <2>5. ASSUME NEW i \in 1..Len(events'),
               events'[i] = Obs!TerminalEvent(current, "Completed")
        PROVE  dispatched' \/ Announced(events', i, current')
    <3>1. CASE i \in 1..Len(events)
      BY <1>0, <2>1, <2>2, <2>5, <3>1
    <3>2. CASE i = Len(events')
      BY <1>0, <1>3, <2>1, <2>3, <2>5, <3>2
    <3> QED
      BY <2>1, <3>1, <3>2
  <2> QED
    BY <1>0, <2>4, <2>5 DEF CompletionInv
<1>4. CASE Obs!Take
  <2>1. \/ UNCHANGED <<held, armed, events>>
        \/ events' = events /\ ~armed'
        \/ events' = Append(events, Obs!ArmedEvent(held'))
    BY <1>4 DEF Obs!Take
  <2>2. CASE events' = Append(events, Obs!ArmedEvent(held'))
    BY <1>3, <2>2 DEF Obs!ArmedEvent, Obs!TerminalEvent
  <2> QED
    BY <1>1, <1>2, <2>1, <2>2
<1>5. ASSUME NEW o \in Obs!Outcomes, Obs!Terminal(o)
      PROVE  CompletionInv'
  <2>1. /\ events' = Append(events, Obs!TerminalEvent(held, o))
        /\ o = "Completed" => armed
        /\ ~armed'
    BY <1>5 DEF Obs!Terminal
  <2>2. Obs!TerminalEvent(held, o) = Obs!TerminalEvent(current, "Completed")
          => held = current /\ o = "Completed"
    BY DEF Obs!TerminalEvent
  <2> QED
    BY <1>0, <1>3, <2>1, <2>2
<1> QED
  BY <1>4, <1>5 DEF ObserverStep

\* A line that was handled and left the attempt in flight was not the
\* announcement of it, unless systemctl has been started.
LEMMA LineHandledCompletion ==
  ASSUME TypeOK, FlightInv, CompletionInv, executing, events # <<>>, Obs!Read,
         UNCHANGED <<executing, current, awaiting>>,
         dispatched => dispatched',
         Head(events) = Obs!ArmedEvent(current) => dispatched'
  PROVE  CompletionInv'
<1>1. /\ events' = Tail(events)
      /\ UNCHANGED <<held, armed>>
      /\ events \in Seq(Obs!Event)
  BY DEF Obs!Read, TypeOK, Obs!ContractTypeOK
<1>2. /\ Len(events) \in Nat \ {0}
      /\ Head(events) = events[1]
      /\ Len(events') = Len(events) - 1
      /\ \A i \in 1..Len(events') :
           events'[i] = events[i + 1] /\ i + 1 \in 1..Len(events)
  BY <1>1, TailShifts
<1>3. ASSUME ~dispatched', NEW n \in 0..Len(events'),
             Announced(events, n + 1, current)
      PROVE  Announced(events', n, current')
  <2>1. PICK j \in 1..(n + 1) : events[j] = Obs!ArmedEvent(current)
    BY <1>3 DEF Announced
  <2>2. j # 1
    BY <1>2, <1>3, <2>1
  <2>3. j - 1 \in 1..n /\ j - 1 \in 1..Len(events')
    BY <1>2, <2>2
  <2>4. events'[j - 1] = Obs!ArmedEvent(current)
    BY <1>2, <2>1, <2>3
  <2> QED
    BY <2>3, <2>4 DEF Announced
<1>4. held = current /\ armed
        => dispatched' \/ Announced(events', Len(events'), current')
  BY <1>2, <1>3 DEF CompletionInv
<1>5. ASSUME NEW i \in 1..Len(events'),
             events'[i] = Obs!TerminalEvent(current, "Completed")
      PROVE  dispatched' \/ Announced(events', i, current')
  <2>1. dispatched \/ Announced(events, i + 1, current)
    BY <1>2, <1>5 DEF CompletionInv
  <2> QED
    BY <1>2, <1>3, <2>1
<1> QED
  BY <1>1, <1>4, <1>5 DEF CompletionInv, Announced

\* CompletionInv is inductive while an identifier names one attempt.
LEMMA NextCompletionInv ==
  ASSUME TypeOK, FlightInv, IdentityInv, CompletionInv, PipeStep
  PROVE  CompletionInv'
<1>1. CASE KeepsPipes
  <2>1. SUFFICES ASSUME executing' PROVE CompletionInv'
    BY DEF CompletionInv
  <2>2. UNCHANGED <<held, armed, events, current, executing, awaiting, dispatched>>
    BY <1>1, <2>1 DEF KeepsPipes
  <2> QED
    BY <2>1, <2>2 DEF CompletionInv
<1>2. ASSUME NEW o \in Origins, NEW f \in Fallbacks, Submit(o, f)
      PROVE  CompletionInv'
  <2>1. /\ current' \in Attempt
        /\ current'.number = nextNumber
        /\ awaiting' = current'
        /\ UNCHANGED <<held, armed, events>>
    BY <1>2, SubmitNames DEF Submit
  <2>2. nextNumber \in Nat /\ Known \subseteq Attempt
    BY KnownType DEF TypeOK
  <2>3. current' \notin Known
    BY <2>1, <2>2 DEF IdentityInv
  <2>4. current' # None
    BY <2>1, NoneIsNothing DEF NoneIsNothing
  <2>5. held # current'
    BY <2>3, <2>4 DEF Known
  <2>6. \A i \in 1..Len(events) :
          events[i] # Obs!TerminalEvent(current', "Completed")
    BY <2>3, <2>4 DEF Known, InEvents, Obs!TerminalEvent
  <2> QED
    BY <2>1, <2>5, <2>6 DEF CompletionInv
<1>3. CASE ObserverStep
  BY <1>3, ObserverStepCompletion
<1>4. CASE ObserverDies
  BY <1>4 DEF ObserverDies, attemptVars, CompletionInv, Announced
<1>5. CASE HandleArmed
  <2>1. /\ events # <<>>
        /\ Obs!Read
        /\ UNCHANGED <<executing, current, awaiting>>
        /\ dispatched => dispatched'
    BY <1>5 DEF HandleArmed, Dispatch
  <2>2. CASE executing
    <3>1. awaiting = current /\ current # None
      BY <2>2, NoneIsNothing DEF CompletionInv, FlightInv, NoneIsNothing
    <3>2. Head(events) = Obs!ArmedEvent(current) => dispatched'
      BY <1>5, <2>2, <3>1
      DEF HandleArmed, Dispatch, SameId, Obs!ArmedEvent
    <3> QED
      BY <2>1, <2>2, <3>2, LineHandledCompletion
  <2> QED
    BY <2>1, <2>2 DEF CompletionInv
<1>6. CASE HandleTerminal
  <2>1. /\ events # <<>>
        /\ Obs!Read
        /\ Head(events).kind = "terminal"
        /\ current' = current
        /\ executing' => UNCHANGED <<executing, awaiting, dispatched>>
    BY <1>6, FinishIfCurrentKeeps DEF HandleTerminal
  <2>2. Head(events) # Obs!ArmedEvent(current)
    BY <2>1 DEF Obs!ArmedEvent
  <2>3. CASE executing'
    <3>1. executing /\ UNCHANGED <<executing, current, awaiting, dispatched>>
      BY <2>1, <2>3
    <3> QED
      BY <2>1, <2>2, <3>1, LineHandledCompletion
  <2> QED
    BY <2>3 DEF CompletionInv
<1>7. CASE Reload
  BY <1>7 DEF Reload, CompletionInv
<1> QED
  BY <1>1, <1>2, <1>3, <1>4, <1>5, <1>6, <1>7 DEF PipeStep

\* The outcome appended last is the last of the history.
LEMMA LastOutcome ==
  ASSUME NEW d \in Document, NEW a \in Attempt \cup {None}, NEW o \in Outcome,
         AppendTerminal(d, a, o)
  PROVE  doc'.outcomes[Len(doc'.outcomes)].outcome = o
<1>1. Len(d.outcomes) \in Nat
  BY DEF Document
<1>2. PICK k \in 0..Len(d.outcomes) :
        /\ Len(doc'.outcomes) = Len(d.outcomes) + 1 - k
        /\ \A i \in 1..Len(doc'.outcomes) :
             doc'.outcomes[i] = IF i + k = Len(d.outcomes) + 1
                                  THEN [attempt |-> a, outcome |-> o]
                                  ELSE d.outcomes[i + k]
  BY AppendTerminalEntries
<1> DEFINE m == Len(doc'.outcomes)
<1>3. m \in 1..m /\ m + k = Len(d.outcomes) + 1
  BY <1>1, <1>2
<1> QED
  BY <1>2, <1>3

\* An event that ends the attempt in flight with an outcome that says the
\* machine slept reports a completed transaction.
LEMMA SleptWasReported ==
  ASSUME TypeOK, NEW a, NEW o \in Obs!Outcomes,
         FinishIfCurrent(a, o), executing, ~executing',
         doc'.outcomes[Len(doc'.outcomes)].outcome \in {"Completed", "Degraded"}
  PROVE  o = "Completed" /\ current # None /\ a # None /\ SameId(a, current)
<1> DEFINE said == IF o = "Completed" /\ current.fallback THEN "Degraded" ELSE o
<1>1. /\ current # None /\ a # None /\ SameId(a, current)
      /\ AppendTerminal(doc, current, said)
  BY DEF FinishIfCurrent, Finish
<1>2. said \in Outcome
  BY DEF Obs!Outcomes, Outcome
<1>3. doc \in Document /\ current \in Attempt \cup {None}
  BY DEF TypeOK
<1>4. said \in {"Completed", "Degraded"}
  <2> HIDE DEF said
  <2>1. doc'.outcomes[Len(doc'.outcomes)].outcome = said
    BY <1>1, <1>2, <1>3, LastOutcome
  <2> QED
    BY <2>1
<1> QED
  BY <1>1, <1>4 DEF Obs!Outcomes

\* Until a history is reset, an outcome that says the machine slept is
\* recorded only for an attempt whose request was dispatched
\* (finishObservedAttempt).
THEOREM SleptWasAsked ==
  ASSUME MaxResets = 0
  PROVE  Spec => SleptOnlyIfDispatched
<1>1. Init => CompletionInv
  BY DEF Init, CompletionInv
<1>2. TypeOK /\ FlightInv /\ IdentityInv /\ CompletionInv /\ [Next]_vars
        /\ TypeOK' => CompletionInv'
  BY NextPipeStep, NextCompletionInv
<1>3. TypeOK /\ FlightInv /\ IdentityInv /\ CompletionInv /\ [Next]_vars
        => [executing /\ ~executing' /\ reloads' = reloads
              /\ doc'.outcomes[Len(doc'.outcomes)].outcome
                   \in {"Completed", "Degraded"}
              => dispatched]_vars
  <2> SUFFICES ASSUME TypeOK, FlightInv, IdentityInv, CompletionInv, [Next]_vars,
                      executing, ~executing', reloads' = reloads,
                      doc'.outcomes[Len(doc'.outcomes)].outcome
                        \in {"Completed", "Degraded"}
               PROVE  dispatched
    OBVIOUS
  <2>1. CASE HandleTerminal
    <3> DEFINE e == Head(events)
    <3>1. /\ events # <<>>
          /\ e.kind = "terminal"
          /\ FinishIfCurrent(e.attempt, e.outcome)
      BY <2>1 DEF HandleTerminal
    <3>2. e \in [kind : {"terminal"}, attempt : Attempt, outcome : Obs!Outcomes]
          /\ e.attempt \in Known /\ e = events[1] /\ Len(events) \in Nat \ {0}
      BY <3>1, HeadIsKnown DEF Obs!Event
    <3>3. e.outcome = "Completed" /\ current # None /\ SameId(e.attempt, current)
      BY <3>1, <3>2, SleptWasReported
    <3>4. e.attempt = current
      BY <3>2, <3>3 DEF IdentityInv, Known
    <3>5. events[1] = Obs!TerminalEvent(current, "Completed")
      BY <3>2, <3>3, <3>4 DEF Obs!TerminalEvent
    <3>6. ~Announced(events, 1, current)
      BY <3>5 DEF Announced, Obs!TerminalEvent, Obs!ArmedEvent
    <3> QED
      BY <3>2, <3>5, <3>6 DEF CompletionInv
  <2>2. ASSUME NEW a, NEW o \in {"Failed", "Indeterminate"}, FinishIfCurrent(a, o)
        PROVE  FALSE
    BY <2>2, SleptWasReported DEF Obs!Outcomes
  <2>3. CASE LoadHistory
    <3>1. PICK read \in Document :
            read.open # None /\ AppendTerminal(read, read.open, "Indeterminate")
      BY <2>3 DEF LoadHistory, Reads, TypeOK
    <3>2. read.open \in Attempt \cup {None} /\ "Indeterminate" \in Outcome
      BY DEF Document, Outcome
    <3> QED
      BY <3>1, <3>2, LastOutcome
  <2>4. CASE ObserverExited
    BY <2>2, <2>4 DEF ObserverExited
  <2>5. CASE ArmTimeout
    BY <2>2, <2>5 DEF ArmTimeout
  <2>6. ASSUME NEW success \in BOOLEAN, SystemctlExits(success)
        PROVE  FALSE
    BY <2>2, <2>6 DEF SystemctlExits
  <2>7. CASE Reload
    BY <2>7 DEF Reload, TypeOK
  <2>8. executing' = executing \/ executing' = TRUE
        \/ HandleTerminal \/ LoadHistory \/ ObserverExited \/ ArmTimeout
        \/ (\E success \in BOOLEAN : SystemctlExits(success)) \/ Reload
    BY DEF Next, vars, attemptVars, FlushHistory, FlushFails, ResetHistory,
       RefuseBeforeSubmission, Submit, SubmitUnpersisted, ObserverStep,
       ObserverReady, ObserverDies, HandleArmed
  <2> QED
    BY <2>1, <2>3, <2>4, <2>5, <2>6, <2>7, <2>8
<1> QED
  BY <1>1, <1>2, <1>3, IdentityHolds, PTL DEF Spec, SleptOnlyIfDispatched
=============================================================================
