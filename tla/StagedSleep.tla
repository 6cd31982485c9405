---------------------------- MODULE StagedSleep ----------------------------
(***************************************************************************)
(* The life of a staged-sleep attempt in the coordinator of                *)
(* plugin/Service.qml: acceptance, the durable open-attempt record, the    *)
(* round trip to the evidence observer, the systemctl child process, the   *)
(* terminal outcome, and what a reload of the service makes of it.         *)
(* The service is one event loop, so every handler is one action.  The     *)
(* rearm latch an accepted attempt sets is the state of AutomaticTrigger.   *)
(* Operators named Mutant... are wrong versions of the definition that      *)
(* follows them; no run uses them unless it is to see a property fail.      *)
(***************************************************************************)
EXTENDS Naturals, Sequences

CONSTANTS Origins,        \* who asks: "manual", "automatic"
          Fallbacks,      \* may ordinary suspend be selected: {FALSE}, BOOLEAN
          HistoryLimit,   \* outcomes kept (256 in the code)
          MaxAttempts,    \* bound: attempts over all reloads
          MaxReloads,     \* bound: reloads of the service
          MaxResets,      \* bound: history resets
          EarlyRequests,  \* may requests arrive before the history is loaded
          Unreadable,     \* may the history file exist and fail to be read
          None,           \* no attempt, no submission, no write
          Absent,         \* there is no history file
          Malformed       \* the history file is not a valid document

ASSUME StagedSleepAssumption ==
  /\ HistoryLimit \in Nat \ {0}
  /\ MaxAttempts \in Nat
  /\ MaxReloads \in Nat
  /\ MaxResets \in Nat
  /\ Fallbacks \subseteq BOOLEAN
  /\ EarlyRequests \in BOOLEAN
  /\ Unreadable \in BOOLEAN

\* The code knows an attempt by origin and number only (SameId); serial is
\* the order in which attempts were begun, kept to tell apart two attempts
\* that were given the same identifier.
Attempt == [origin : Origins, number : Nat \ {0}, fallback : Fallbacks,
            serial : 1..MaxAttempts]

SameId(a, b) == a.origin = b.origin /\ a.number = b.number

Outcome == {"Completed", "Degraded", "Failed", "Indeterminate", "Refused"}
Entry == [attempt : Attempt \cup {None}, outcome : Outcome]
Document == {d \in [open : Attempt \cup {None}, outcomes : Seq(Entry)] :
               Len(d.outcomes) <= HistoryLimit}

EmptyHistory == [open |-> None, outcomes |-> <<>>]

ASSUME NoneIsNothing ==
  /\ None \notin Attempt
  /\ \A x \in {None, Absent, Malformed} : x \notin Document
  /\ Absent # Malformed

VARIABLES
  \* the evidence observer and its two pipes
  held, armed, stdin, events,
  observer,       \* its process: "running", "dead" (exit unseen) or "gone"
  \* the disk
  disk,           \* outcomes.json: a document, Absent or Malformed
  writing,        \* document handed to the asynchronous writer, or None
  \* the service
  loaded,         \* historyLoaded
  blocked,        \* historyReplacementBlocked
  doc,            \* historyDocument
  executing,      \* executionInProgress
  nextNumber,     \* nextAttemptNumber
  current,        \* lastSubmission
  awaiting,       \* evidenceObserverAttemptId
  dispatched,     \* evidenceDispatchStarted
  armTimer,       \* evidenceArmTimer.running
  ready,          \* evidenceObserverReady
  \* the system
  systemctl,      \* the attempt whose systemctl child is running, or None
  \* what is counted, for the bounds and the properties
  serial,         \* attempts begun
  requests,       \* systemctl processes started, per attempt
  closed,         \* attempts some service recorded an outcome for
  reloads, resets

observerVars == <<held, armed, stdin, events, observer>>
historyVars == <<doc, writing, closed>>
attemptVars == <<executing, current, awaiting, dispatched, armTimer>>
countVars == <<serial, requests, reloads, resets>>
vars == <<observerVars, disk, historyVars, loaded, blocked, attemptVars,
          nextNumber, ready, systemctl, countVars>>

Obs == INSTANCE EvidenceContract WITH Submissions <- Attempt

TypeOK ==
  /\ Obs!ContractTypeOK
  /\ observer \in {"running", "dead", "gone"}
  /\ disk \in Document \cup {Absent, Malformed}
  /\ writing \in Document \cup {None}
  /\ loaded \in BOOLEAN
  /\ blocked \in BOOLEAN
  /\ doc \in Document
  /\ executing \in BOOLEAN
  /\ nextNumber \in Nat \ {0}
  /\ current \in Attempt \cup {None}
  /\ awaiting \in Attempt \cup {None}
  /\ dispatched \in BOOLEAN
  /\ armTimer \in BOOLEAN
  /\ ready \in BOOLEAN
  /\ systemctl \in Attempt \cup {None}
  /\ serial \in 0..MaxAttempts
  /\ requests \in [1..MaxAttempts -> Nat]
  /\ closed \subseteq 1..MaxAttempts
  /\ reloads \in 0..MaxReloads
  /\ resets \in 0..MaxResets

\* A service starts with nothing but what is on disk.
Init ==
  /\ loaded = FALSE
  /\ blocked = FALSE
  /\ doc = EmptyHistory
  /\ executing = FALSE
  /\ nextNumber = 1
  /\ current = None
  /\ awaiting = None
  /\ dispatched = FALSE
  /\ armTimer = FALSE
  /\ ready = FALSE
  /\ systemctl = None
  /\ writing = None
  /\ observer = "running"
  /\ Obs!ContractInit
  /\ disk \in {Absent, Malformed}
  /\ serial = 0
  /\ requests = [s \in 1..MaxAttempts |-> 0]
  /\ closed = {}
  /\ reloads = 0
  /\ resets = 0

(***************************************************************************)
(* History: the document in memory and the file behind it.                 *)
(***************************************************************************)

\* trimHistory: a newest part of the outcomes survives, at most HistoryLimit
\* of them, fewer when the older ones have passed their age limit.  The
\* entry just appended is always young enough.
Trimmed(s) ==
  {SubSeq(s, i, Len(s)) : i \in {j \in 1..Len(s) : Len(s) - j < HistoryLimit}}

\* persistHistory: the document is handed to the writer, replacing one it has
\* not finished, and nobody waits for it.  A rejected file is never replaced.
Persist(d) == writing' = IF blocked THEN writing ELSE d

MutantAppendTerminal(d, a, o) ==
  \E kept \in Trimmed(Append(d.outcomes, [attempt |-> a, outcome |-> o])) :
    /\ doc' = [open |-> d.open, outcomes |-> kept]
    /\ Persist(doc')
    /\ closed' = IF a = None THEN closed ELSE closed \cup {a.serial}

\* appendTerminal on document d: the outcome joins the history, the open slot
\* is cleared and the result is persisted.
AppendTerminal(d, a, o) ==
  \E kept \in Trimmed(Append(d.outcomes, [attempt |-> a, outcome |-> o])) :
    /\ doc' = [open |-> None, outcomes |-> kept]
    /\ Persist(doc')
    /\ closed' = IF a = None THEN closed ELSE closed \cup {a.serial}

MutantFinish(o) ==
  /\ AppendTerminal(doc, current, IF current.fallback THEN "Degraded" ELSE o)
  /\ awaiting' = None
  /\ dispatched' = FALSE
  /\ executing' = FALSE
  /\ UNCHANGED current

\* finishObservedAttempt, once its guard has let the event through.  The
\* observer reports the transaction; that it was only a fallback makes a
\* completed one degraded.
Finish(o) ==
  /\ AppendTerminal(doc, current,
       IF o = "Completed" /\ current.fallback THEN "Degraded" ELSE o)
  /\ awaiting' = None
  /\ dispatched' = FALSE
  /\ executing' = FALSE
  /\ UNCHANGED current

MutantFinishAnyAttempt(a, o) ==
  IF executing /\ current # None /\ a # None
    THEN Finish(o)
    ELSE UNCHANGED <<historyVars, executing, current, awaiting, dispatched>>

MutantFinishAgain(a, o) ==
  IF current # None /\ a # None /\ SameId(a, current)
    THEN Finish(o)
    ELSE UNCHANGED <<historyVars, executing, current, awaiting, dispatched>>

\* The guard of finishObservedAttempt: an event about another identifier, or
\* one that comes when nothing is in flight, is dropped.
FinishIfCurrent(a, o) ==
  IF executing /\ current # None /\ a # None /\ SameId(a, current)
    THEN Finish(o)
    ELSE UNCHANGED <<historyVars, executing, current, awaiting, dispatched>>

\* What the file view hands to loadHistory: a file that cannot be read is
\* taken for one that does not exist (onLoadFailed).
Reads == IF Unreadable THEN {disk, Absent} ELSE {disk}

MutantLoadHistory ==
  /\ ~loaded
  /\ disk # Malformed
  /\ loaded' = TRUE
  /\ LET read == IF disk = Absent THEN doc ELSE disk IN
     /\ doc' = read
     /\ nextNumber' = Len(read.outcomes) + 1
     /\ IF read.open = None
          THEN UNCHANGED <<executing, current, awaiting, stdin>>
          ELSE /\ executing' = TRUE
               /\ current' = read.open
               /\ awaiting' = read.open
               /\ stdin' = Append(stdin, read.open)
  /\ UNCHANGED <<held, armed, events, observer, disk, writing, closed, blocked,
                 dispatched, armTimer, ready, systemctl, countVars>>

MutantForgetOpen ==
  /\ ~loaded
  /\ disk # Malformed
  /\ loaded' = TRUE
  /\ doc' = IF disk = Absent THEN doc ELSE [disk EXCEPT !.open = None]
  /\ nextNumber' = Len(doc'.outcomes) + 1
  /\ UNCHANGED <<observerVars, disk, writing, closed, blocked, attemptVars,
                 ready, systemctl, countVars>>

\* loadHistory: runs once per service.  An attempt still open in the file
\* belonged to an earlier service and is closed as indeterminate; it is never
\* asked for again.
LoadHistory ==
  /\ ~loaded
  /\ loaded' = TRUE
  /\ \E raw \in Reads :
       IF raw = Malformed
         THEN /\ blocked' = TRUE
              /\ UNCHANGED <<historyVars, executing, nextNumber>>
         ELSE LET read == IF raw = Absent THEN doc ELSE raw IN
              /\ IF read.open = None
                   THEN doc' = read /\ UNCHANGED <<writing, closed, executing>>
                   ELSE /\ AppendTerminal(read, read.open, "Indeterminate")
                        /\ executing' = FALSE
              /\ nextNumber' = IF nextNumber > Len(doc'.outcomes)
                                 THEN nextNumber ELSE Len(doc'.outcomes) + 1
              /\ UNCHANGED blocked
  /\ UNCHANGED <<observerVars, disk, current, awaiting, dispatched, armTimer,
                 ready, systemctl, countVars>>

\* The writer replaces the file atomically, or fails without anybody noticing:
\* historyFile has no save-failure handler.
FlushHistory ==
  /\ writing # None
  /\ disk' = writing
  /\ writing' = None
  /\ UNCHANGED <<observerVars, doc, closed, loaded, blocked, attemptVars,
                 nextNumber, ready, systemctl, countVars>>

FlushFails ==
  /\ writing # None
  /\ writing' = None
  /\ UNCHANGED <<observerVars, disk, doc, closed, loaded, blocked, attemptVars,
                 nextNumber, ready, systemctl, countVars>>

MutantRequestsArrive == loaded \/ EarlyRequests

\* The busy check and the boot identity, which _coordinateStagedSleep and
\* resetHistory need before anything else.
RequestsArrive == (loaded \/ EarlyRequests) /\ ~executing

\* resetHistory: a rejected file is archived first; an archive that fails
\* leaves everything as it was.
ResetHistory ==
  /\ RequestsArrive
  /\ doc.open = None
  /\ resets < MaxResets
  /\ resets' = resets + 1
  /\ blocked' = FALSE
  /\ doc' = EmptyHistory
  /\ loaded' = TRUE
  /\ nextNumber' = 1
  /\ writing' = EmptyHistory
  /\ UNCHANGED <<observerVars, disk, closed, attemptVars, ready, systemctl,
                 serial, requests, reloads>>

(***************************************************************************)
(* Requests.                                                               *)
(***************************************************************************)

\* A request that fails a capability check before an attempt exists leaves an
\* outcome without an attempt.  It is "Refused" here for the refusals and for
\* the failed observations of the code alike.
RefuseBeforeSubmission ==
  /\ RequestsArrive
  /\ AppendTerminal(doc, None, "Refused")
  /\ UNCHANGED <<observerVars, disk, loaded, blocked, attemptVars, nextNumber,
                 ready, systemctl, countVars>>

NewAttempt(o, f) ==
  [origin |-> o, number |-> nextNumber, fallback |-> f, serial |-> serial + 1]

\* The part of _coordinateStagedSleep every attempt goes through: it takes a
\* number and the open slot of the document in memory.
OpenAttempt(a) ==
  /\ RequestsArrive
  /\ ready
  /\ observer # "gone"
  /\ serial < MaxAttempts
  /\ serial' = serial + 1
  /\ nextNumber' = nextNumber + 1
  /\ doc' = [doc EXCEPT !.open = a]

\* The attempt is accepted: its open record goes to the writer, it becomes
\* lastSubmission, is written to the observer, and must be armed in time.
Submit(o, f) ==
  LET a == NewAttempt(o, f) IN
  /\ OpenAttempt(a)
  /\ ~blocked
  /\ Persist(doc')
  /\ executing' = TRUE
  /\ current' = a
  /\ awaiting' = a
  /\ dispatched' = FALSE
  /\ stdin' = IF observer = "running" THEN Append(stdin, a) ELSE stdin
  /\ armTimer' = TRUE
  /\ UNCHANGED <<held, armed, events, observer, disk, closed, loaded, blocked,
                 ready, systemctl, requests, reloads, resets>>

\* The history file is one that must not be replaced: the request fails after
\* the open slot of the document in memory has been taken.
SubmitUnpersisted(o, f) ==
  /\ OpenAttempt(NewAttempt(o, f))
  /\ blocked
  /\ UNCHANGED <<observerVars, disk, writing, closed, loaded, blocked,
                 attemptVars, ready, systemctl, requests, reloads, resets>>

(***************************************************************************)
(* The observer's process and what it writes.                              *)
(***************************************************************************)

restOfService == <<loaded, blocked, nextNumber, ready>>

ObserverStep ==
  /\ observer = "running"
  /\ \/ Obs!Take
     \/ \E o \in Obs!Outcomes : Obs!Terminal(o)
  /\ UNCHANGED <<observer, disk, historyVars, attemptVars, restOfService,
                 systemctl, countVars>>

\* The readiness line, before which nothing is submitted.
ObserverReady ==
  /\ observer = "running"
  /\ ~ready
  /\ ready' = TRUE
  /\ UNCHANGED <<observerVars, disk, historyVars, loaded, blocked, attemptVars,
                 nextNumber, systemctl, countVars>>

\* The observer exits; what it wrote can still be read, what it had not read
\* is lost.
ObserverDies ==
  /\ observer = "running"
  /\ observer' = "dead"
  /\ held' = None
  /\ armed' = FALSE
  /\ stdin' = <<>>
  /\ UNCHANGED <<events, disk, historyVars, attemptVars, restOfService,
                 systemctl, countVars>>

MutantObserverExited ==
  /\ observer = "dead"
  /\ events = <<>>
  /\ observer' = "gone"
  /\ ready' = FALSE
  /\ IF dispatched
       THEN UNCHANGED <<historyVars, executing, current, awaiting, dispatched>>
       ELSE FinishIfCurrent(current, "Failed")
  /\ UNCHANGED <<held, armed, stdin, events, disk, loaded, blocked, armTimer,
                 nextNumber, systemctl, countVars>>

\* evidenceObserverProcess.onExited: the attempt in flight ends here, failed
\* if nothing was asked of the system yet, indeterminate otherwise.  The
\* process is not started again.
ObserverExited ==
  /\ observer = "dead"
  /\ events = <<>>
  /\ observer' = "gone"
  /\ ready' = FALSE
  /\ FinishIfCurrent(current, IF dispatched THEN "Indeterminate" ELSE "Failed")
  /\ UNCHANGED <<held, armed, stdin, events, disk, loaded, blocked, armTimer,
                 nextNumber, systemctl, countVars>>

\* dispatchObservedSleepRequest: a child that is still running is not started
\* a second time.
Dispatch ==
  /\ armTimer' = FALSE
  /\ dispatched' = TRUE
  /\ IF systemctl = None
       THEN /\ systemctl' = current
            /\ requests' = [requests EXCEPT ![current.serial] = @ + 1]
       ELSE UNCHANGED <<systemctl, requests>>

MutantHandleArmed ==
  /\ events # <<>>
  /\ Head(events).kind = "attempt-armed"
  /\ Obs!Read
  /\ IF awaiting # None /\ executing /\ ~dispatched
       THEN Dispatch
       ELSE UNCHANGED <<armTimer, dispatched, systemctl, requests>>
  /\ UNCHANGED <<observer, disk, historyVars, executing, current, awaiting,
                 restOfService, serial, reloads, resets>>

\* handleEvidenceObserverLine on "attempt-armed".
HandleArmed ==
  /\ events # <<>>
  /\ Head(events).kind = "attempt-armed"
  /\ Obs!Read
  /\ IF /\ awaiting # None
        /\ SameId(Head(events).attempt, awaiting)
        /\ executing
        /\ current # None
        /\ SameId(awaiting, current)
        /\ ~dispatched
       THEN Dispatch
       ELSE UNCHANGED <<armTimer, dispatched, systemctl, requests>>
  /\ UNCHANGED <<observer, disk, historyVars, executing, current, awaiting,
                 restOfService, serial, reloads, resets>>

\* handleEvidenceObserverLine on "terminal".
HandleTerminal ==
  /\ events # <<>>
  /\ Head(events).kind = "terminal"
  /\ Obs!Read
  /\ FinishIfCurrent(Head(events).attempt, Head(events).outcome)
  /\ UNCHANGED <<observer, disk, loaded, blocked, armTimer, nextNumber, ready,
                 systemctl, countVars>>

\* evidenceArmTimer: the observer did not arm in time.
ArmTimeout ==
  /\ armTimer
  /\ armTimer' = FALSE
  /\ FinishIfCurrent(awaiting, "Failed")
  /\ UNCHANGED <<observerVars, disk, loaded, blocked, nextNumber, ready,
                 systemctl, countVars>>

\* sleepRequestProcess.onExited: success says nothing yet; a failure fails
\* whatever attempt is in flight now.
SystemctlExits(success) ==
  /\ systemctl # None
  /\ systemctl' = None
  /\ IF success
       THEN UNCHANGED <<historyVars, executing, current, awaiting, dispatched>>
       ELSE FinishIfCurrent(current, "Failed")
  /\ UNCHANGED <<observerVars, disk, loaded, blocked, armTimer, nextNumber,
                 ready, countVars>>

\* The shell reloads the plugin, the session or the machine restarts: the
\* service and its children begin again, an unfinished write is lost.
Reload ==
  /\ reloads < MaxReloads
  /\ reloads' = reloads + 1
  /\ loaded' = FALSE
  /\ blocked' = FALSE
  /\ doc' = EmptyHistory
  /\ executing' = FALSE
  /\ nextNumber' = 1
  /\ current' = None
  /\ awaiting' = None
  /\ dispatched' = FALSE
  /\ armTimer' = FALSE
  /\ ready' = FALSE
  /\ systemctl' = None
  /\ writing' = None
  /\ observer' = "running"
  /\ held' = None
  /\ armed' = FALSE
  /\ stdin' = <<>>
  /\ events' = <<>>
  /\ UNCHANGED <<disk, closed, serial, requests, resets>>

Next ==
  \/ LoadHistory
  \/ FlushHistory
  \/ FlushFails
  \/ ResetHistory
  \/ RefuseBeforeSubmission
  \/ \E o \in Origins, f \in Fallbacks :
        Submit(o, f) \/ SubmitUnpersisted(o, f)
  \/ ObserverStep
  \/ ObserverReady
  \/ ObserverDies
  \/ ObserverExited
  \/ HandleArmed
  \/ HandleTerminal
  \/ ArmTimeout
  \/ \E success \in BOOLEAN : SystemctlExits(success)
  \/ Reload

(***************************************************************************)
(* Timers fire, lines are read, a dead child is reaped, and the observer   *)
(* ends what it holds: its entry and post-resume deadlines see to that.    *)
(* Nobody has to request, reset, reload, or answer systemctl.              *)
(***************************************************************************)
Fairness ==
  /\ WF_vars(ArmTimeout)
  /\ WF_vars(HandleArmed)
  /\ WF_vars(HandleTerminal)
  /\ WF_vars(ObserverExited)
  /\ WF_vars(ObserverStep)

Spec == Init /\ [][Next]_vars
FairSpec == Spec /\ Fairness

-----------------------------------------------------------------------------
(***************************************************************************)
(* Safety.                                                                 *)
(***************************************************************************)

Entries(d) == {i \in 1..Len(d.outcomes) : d.outcomes[i].attempt # None}

\* The open slot of the history in memory is accounted for.  While an attempt
\* is executing, it is the open one.  While none is, the slot is empty, or it
\* was taken by a request whose record was then refused, because the file was
\* rejected and must not be replaced (_coordinateStagedSleep, persistHistory):
\* the code leaves that slot taken, and refuses a reset for it (resetHistory),
\* until a refused request, another request or a reload frees it.  Of such an
\* attempt nothing else exists: no service asked for it or closed it, and it
\* is neither on disk nor on its way there, so a reload forgets it.
OpenSlotAccountedFor ==
  /\ executing => current # None /\ doc.open = current
  /\ ~executing /\ doc.open # None =>
       /\ blocked
       /\ requests[doc.open.serial] = 0
       /\ doc.open.serial \notin closed
       /\ disk = Malformed
       /\ writing = None

\* However timers, late lines, child exits and reloads interleave, the system
\* is asked to sleep at most once for an attempt (dispatchObservedSleepRequest).
RequestAtMostOnce == \A s \in 1..MaxAttempts : requests[s] <= 1

\* No history, in memory, on its way to disk or on disk, records two outcomes
\* for one attempt, or an outcome for the attempt it still calls open
\* (appendTerminal, reconcileRecoveredAttempt).
ClosedOnce(d) ==
  /\ \A i, j \in Entries(d) :
        d.outcomes[i].attempt.serial = d.outcomes[j].attempt.serial => i = j
  /\ d.open # None =>
        \A i \in Entries(d) : d.outcomes[i].attempt.serial # d.open.serial

HistoriesCloseOnce ==
  /\ ClosedOnce(doc)
  /\ writing # None => ClosedOnce(writing)
  /\ disk \in {Absent, Malformed} \/ ClosedOnce(disk)

\* A request goes out only for the attempt in flight, while its record is the
\* open one, it has no outcome yet, and the observer announced to be armed
\* for its identifier: after an arm timeout or a dead observer a late
\* announcement starts nothing (handleEvidenceObserverLine).
RequestOnlyWhileArmed ==
  [][requests' # requests =>
       /\ executing
       /\ doc.open = current
       /\ \A i \in Entries(doc) : doc.outcomes[i].attempt # current
       /\ events # <<>>
       /\ Head(events) = Obs!ArmedEvent(current)]_vars

\* What the observer says about one attempt never ends another one, even when
\* it comes after that other has begun (finishObservedAttempt).
EvidenceEndsOwnAttempt ==
  [][HandleTerminal /\ executing /\ ~executing' =>
       Head(events).attempt = current]_vars

\* An outcome that says the machine slept is recorded only for an attempt
\* whose request was dispatched (finishObservedAttempt).
SleptOnlyIfDispatched ==
  [][executing /\ ~executing' /\ reloads' = reloads
       /\ doc'.outcomes[Len(doc'.outcomes)].outcome \in {"Completed", "Degraded"}
       => dispatched]_vars

OpenOnDisk == IF disk \in {Absent, Malformed} THEN None ELSE disk.open

\* An attempt that is durably open leaves the open slot of the file only
\* after an outcome for it was recorded: no reload, lost write or later
\* attempt makes the service forget one (loadHistory, persistHistory).
DurableOpenIsClosed ==
  [][OpenOnDisk # None /\ disk' # disk =>
       disk'.open = OpenOnDisk \/ OpenOnDisk.serial \in closed]_vars

(***************************************************************************)
(* Liveness and refinement.                                                *)
(***************************************************************************)

\* The coordinator never stays busy: an accepted attempt ends, whatever is
\* lost on the way to the observer and back.
EveryAttemptEnds == executing ~> ~executing

\* One flight at a time, numbers never reused, one request per flight.
Flight == INSTANCE SingleFlight WITH
  flight <- IF executing THEN current.serial ELSE 0,
  phase <- IF ~executing THEN "idle"
           ELSE IF dispatched THEN "requested" ELSE "open",
  last <- serial

SingleFlightSpec == Flight!FlightSpec
=============================================================================
