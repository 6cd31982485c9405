-------------------------- MODULE AutomaticTrigger --------------------------
(***************************************************************************)
(* What makes plugin/Service.qml ask for staged sleep on its own: three    *)
(* idle monitors of the compositor, the rearm latch that wants fresh input *)
(* before each attempt, the reading of Stay Awake that is polled and also  *)
(* started for an evaluation, and everything that spends the latch.        *)
(* The compositor's events, the probe and the policies are asynchronous;   *)
(* every handler of the service runs to its end and is one action.         *)
(* What becomes of an attempt is the matter of StagedSleep.                *)
(***************************************************************************)
EXTENDS Naturals, Sequences, FiniteSets, Functions

CONSTANT MaxQueue   \* bound: the compositor sends while fewer are on their way

ASSUME MaxQueue \in Nat

VARIABLES
  \* the compositor
  expired,       \* monitors whose idle timeout has expired
  inhibited,     \* some client holds an idle inhibitor
  queue,         \* idle notifications sent and not handled yet
  \* the session
  toggle,        \* Stay Awake, as omarchy-toggle-idle would tell it
  probe,         \* stayAwakeProbe: "off", "started", or the answer it has read
  \* the service
  idles,         \* monitors with isIdle
  accepted,      \* policyAccepted, and with it whether the monitors are enabled
  policy,        \* policySnapshot.automaticPolicyEnabled, or "none"
  contract,      \* the contract probe's verdict
  systemPolicy,  \* the system policy is applied, or differs knowingly
  baseline,      \* activityBaselineObserved
  fresh,         \* freshActivityObserved
  rearm,         \* rearmRequired
  inhibitedSeen, \* compositorIdleInhibited
  stayAwake,     \* stayAwakeKnown and stayAwakeEnabled: "unknown", "on", "off"
  evaluating,    \* automaticEvaluationInProgress
  executing,     \* executionInProgress
  starting,      \* start-up loads not finished: "latch", "history"
  \* what the properties look at
  since          \* seen since the latch was last spent: "none", then "input",
                 \* then "idled" for as long as the idle delay is over

compositorVars == <<expired, inhibited, queue>>
policyVars == <<accepted, policy, contract, systemPolicy>>
latchVars == <<fresh, rearm, since>>
monitorVars == <<idles, baseline, inhibitedSeen>>
vars == <<compositorVars, toggle, probe, monitorVars, policyVars, latchVars,
          stayAwake, evaluating, executing, starting>>

\* activityMonitor and inhibitorAwareMonitor differ in respecting inhibitors;
\* idleMonitor has the idle delay of the policy for its timeout.
Monitors == {"activity", "aware", "idle"}
Respecting == {"aware", "idle"}

Notification == [monitor : Monitors, idle : BOOLEAN]

\* The monitors belong to an accepted policy, and an evaluation to an idle
\* period and to a probe that will end it.
TypeOK ==
  /\ expired \subseteq Monitors
  /\ inhibited \in BOOLEAN
  /\ queue \in Seq(Notification)
  /\ toggle \in BOOLEAN
  /\ probe \in {"off", "started", "said on", "said off", "failed"}
  /\ idles \subseteq Monitors
  /\ accepted \in BOOLEAN
  /\ policy \in {"none", "disabled", "enabled"}
  /\ contract \in {"pending", "ready", "incompatible"}
  /\ systemPolicy \in BOOLEAN
  /\ baseline \in BOOLEAN
  /\ fresh \in BOOLEAN
  /\ rearm \in BOOLEAN
  /\ inhibitedSeen \in BOOLEAN
  /\ stayAwake \in {"unknown", "on", "off"}
  /\ evaluating \in BOOLEAN
  /\ executing \in BOOLEAN
  /\ starting \subseteq {"latch", "history"}
  /\ since \in {"none", "input", "idled"}
  /\ accepted => policy # "none"
  /\ ~accepted => idles = {} /\ queue = <<>> /\ ~baseline /\ ~inhibitedSeen
  /\ evaluating => "idle" \in idles /\ probe # "off"

Init ==
  /\ expired = {}
  /\ inhibited = FALSE
  /\ queue = <<>>
  /\ toggle \in BOOLEAN
  /\ probe = "off"
  /\ idles = {}
  /\ accepted = FALSE
  /\ policy = "none"
  /\ contract = "pending"
  /\ systemPolicy = FALSE
  /\ baseline = FALSE
  /\ fresh = FALSE
  /\ rearm = TRUE
  /\ inhibitedSeen = FALSE
  /\ stayAwake = "unknown"
  /\ evaluating = FALSE
  /\ executing = FALSE
  /\ starting = {"latch", "history"}
  /\ since = "none"

(***************************************************************************)
(* The compositor and the session (external).                              *)
(***************************************************************************)

\* Notifications about several monitors go out in an order of its choice.
Notify(ms, idle) ==
  \E order \in Bijection(1..Cardinality(ms), ms) :
    queue' = queue \o [i \in 1..Cardinality(ms) |->
                         [monitor |-> order[i], idle |-> idle]]

Outside == UNCHANGED <<probe, monitorVars, policyVars, latchVars, stayAwake,
                       evaluating, executing, starting>>

Input ==
  /\ expired # {}
  /\ Len(queue) < MaxQueue
  /\ expired' = {}
  /\ Notify(expired, FALSE)
  /\ UNCHANGED <<inhibited, toggle>>
  /\ Outside

\* The idle delay is at least 300 s, the other two timeouts are 1 ms.
Expire(m) ==
  /\ accepted
  /\ m \notin expired
  /\ m \in Respecting => ~inhibited
  /\ m = "idle" => expired = {"activity", "aware"}
  /\ Len(queue) < MaxQueue
  /\ expired' = expired \cup {m}
  /\ Notify({m}, TRUE)
  /\ UNCHANGED <<inhibited, toggle>>
  /\ Outside

Inhibit ==
  /\ ~inhibited
  /\ Len(queue) < MaxQueue
  /\ inhibited' = TRUE
  /\ expired' = expired \ Respecting
  /\ Notify(expired \cap Respecting, FALSE)
  /\ UNCHANGED toggle
  /\ Outside

Uninhibit ==
  /\ inhibited
  /\ inhibited' = FALSE
  /\ UNCHANGED <<expired, queue, toggle>>
  /\ Outside

StayAwakeToggled ==
  /\ toggle' = ~toggle
  /\ UNCHANGED compositorVars
  /\ Outside

(***************************************************************************)
(* The latch.                                                              *)
(***************************************************************************)

\* requireFreshActivity, and whatever else spends the latch with the activity.
RequireFreshActivity ==
  /\ fresh' = FALSE
  /\ rearm' = TRUE
  /\ since' = "none"

\* persistRearm(true) alone: the activity is remembered, the latch is spent.
SpendLatch ==
  /\ rearm' = TRUE
  /\ since' = "none"
  /\ UNCHANGED fresh

\* observeFreshActivity.
ObserveFreshActivity ==
  /\ evaluating' = FALSE
  /\ fresh' = TRUE
  /\ rearm' = FALSE

\* automaticReadiness, with the Stay Awake reading that is about to be stored.
Ready(reading) ==
  /\ contract = "ready"
  /\ accepted
  /\ policy = "enabled"
  /\ systemPolicy
  /\ ~inhibitedSeen
  /\ reading = "off"
  /\ ~rearm
  /\ fresh

(***************************************************************************)
(* The monitors.                                                           *)
(***************************************************************************)

\* updateCompositorIdleInhibition: the user is idle and only the monitor that
\* respects inhibitors says otherwise.
InhibitedBy(is) == accepted /\ "activity" \in is /\ "aware" \notin is

Deliver(m, idle) ==
  /\ queue # <<>>
  /\ Head(queue) = [monitor |-> m, idle |-> idle]
  /\ queue' = Tail(queue)
  /\ idles' = IF idle THEN idles \cup {m} ELSE idles \ {m}
  /\ UNCHANGED <<expired, inhibited, toggle, policyVars, stayAwake, executing,
                 starting>>

MutantHandleActivity(idle) ==
  /\ Deliver("activity", idle)
  /\ inhibitedSeen' = InhibitedBy(idles')
  /\ baseline' = (baseline \/ idle)
  /\ since' = IF ~idle /\ baseline /\ ~executing THEN "input" ELSE since
  /\ IF ~idle /\ baseline
       THEN ObserveFreshActivity
       ELSE UNCHANGED <<evaluating, fresh, rearm>>
  /\ UNCHANGED probe

\* handleActivityChanged: input while an attempt executes does not count.
HandleActivity(idle) ==
  /\ Deliver("activity", idle)
  /\ inhibitedSeen' = InhibitedBy(idles')
  /\ baseline' = (baseline \/ idle)
  /\ since' = IF ~idle /\ baseline /\ ~executing THEN "input" ELSE since
  /\ IF ~idle /\ baseline /\ ~executing
       THEN ObserveFreshActivity
       ELSE UNCHANGED <<evaluating, fresh, rearm>>
  /\ UNCHANGED probe

MutantHandleAware(idle) ==
  /\ Deliver("aware", idle)
  /\ UNCHANGED <<probe, baseline, inhibitedSeen, latchVars, evaluating>>

\* inhibitorAwareMonitor.onIsIdleChanged.
HandleAware(idle) ==
  /\ Deliver("aware", idle)
  /\ inhibitedSeen' = InhibitedBy(idles')
  /\ UNCHANGED <<probe, baseline, latchVars, evaluating>>

\* requestAutomaticStagedSleep: a probe that is already running is not started
\* a second time; its answer will do.
BeginEvaluation ==
  IF evaluating \/ executing \/ ~Ready(stayAwake)
    THEN UNCHANGED <<evaluating, probe>>
    ELSE /\ evaluating' = TRUE
         /\ probe' = IF probe = "off" THEN "started" ELSE probe

\* handleIdleChanged.
HandleIdle(idle) ==
  /\ Deliver("idle", idle)
  /\ IF idle
       THEN BeginEvaluation
       ELSE evaluating' = FALSE /\ UNCHANGED probe
  /\ since' = CASE idle /\ since = "input" -> "idled"
                [] ~idle /\ since = "idled" -> "input"
                [] OTHER -> since
  /\ UNCHANGED <<baseline, inhibitedSeen, fresh, rearm>>

(***************************************************************************)
(* The Stay Awake probe.                                                   *)
(***************************************************************************)

insideProbe == <<compositorVars, toggle, monitorVars, policyVars, starting>>

Poll ==
  /\ probe = "off"
  /\ probe' = "started"
  /\ UNCHANGED <<insideProbe, latchVars, stayAwake, evaluating, executing>>

\* The command looks at the state some time before it exits (external).
ProbeReads ==
  /\ probe = "started"
  /\ probe' \in {IF toggle THEN "said on" ELSE "said off", "failed"}
  /\ UNCHANGED <<insideProbe, latchVars, stayAwake, evaluating, executing>>

\* _coordinateStagedSleep("automatic"), as far as the latch is concerned: the
\* attempt may be refused before the latch is spent, or fail just after.
RequestSleep ==
  \/ UNCHANGED <<executing, latchVars>>
  \/ ~executing /\ executing' \in BOOLEAN /\ SpendLatch

MutantFinishEvaluation(reading) ==
  /\ stayAwake' = reading
  /\ IF reading = "unknown"
       THEN UNCHANGED <<evaluating, executing, latchVars>>
       ELSE /\ evaluating' = FALSE
            /\ IF evaluating /\ "idle" \in idles /\ Ready(reading)
                 THEN RequestSleep
                 ELSE UNCHANGED <<executing, latchVars>>

\* finishAutomaticEvaluation, for a poll and for an evaluation alike.
FinishEvaluation(reading) ==
  /\ stayAwake' = reading
  /\ evaluating' = FALSE
  /\ IF evaluating /\ "idle" \in idles /\ Ready(reading)
       THEN RequestSleep
       ELSE UNCHANGED <<executing, latchVars>>

ProbeExits ==
  /\ probe \in {"said on", "said off", "failed"}
  /\ probe' = "off"
  /\ FinishEvaluation(CASE probe = "said on" -> "on"
                        [] probe = "said off" -> "off"
                        [] OTHER -> "unknown")
  /\ UNCHANGED insideProbe

(***************************************************************************)
(* Attempts, policies and start-up.                                        *)
(***************************************************************************)

elsewhere == <<compositorVars, toggle, probe, monitorVars, stayAwake, evaluating>>

\* A manual attempt spends the latch as well.
ManualRequest ==
  /\ RequestSleep
  /\ UNCHANGED <<elsewhere, policyVars, starting>>

AttemptEnds ==
  /\ executing
  /\ executing' = FALSE
  /\ UNCHANGED <<elsewhere, policyVars, latchVars, starting>>

ResetHistory ==
  /\ ~executing
  /\ RequireFreshActivity
  /\ starting' = starting \ {"history"}
  /\ UNCHANGED <<elsewhere, policyVars, executing>>

\* loadLatch forgets what came before it; loadHistory spends the latch when it
\* finds an attempt of an earlier service open.
FinishLoading(what) ==
  /\ what \in starting
  /\ starting' = starting \ {what}
  /\ \/ what = "latch" /\ RequireFreshActivity /\ UNCHANGED executing
     \/ what = "history" /\ SpendLatch /\ executing' = FALSE
     \/ what = "history" /\ UNCHANGED <<latchVars, executing>>
  /\ UNCHANGED <<elsewhere, policyVars>>

\* The probe of the contract runs once.
LoadContractProbe ==
  /\ contract = "pending"
  /\ contract' \in {"ready", "incompatible"}
  /\ UNCHANGED <<elsewhere, accepted, policy, systemPolicy, latchVars, executing,
                 starting>>

\* loadSystemPolicyReadback and the exits of the helper: a changed policy
\* spends the latch, except one that becomes unusable or indeterminate.
LoadSystemPolicy ==
  /\ \/ systemPolicy' \in BOOLEAN /\ RequireFreshActivity
     \/ systemPolicy' = FALSE /\ UNCHANGED latchVars
  /\ UNCHANGED <<elsewhere, accepted, policy, contract, executing, starting>>

\* What other monitors had to say remains, in its order.
Forget(ms) ==
  LET others == {i \in 1..Len(queue) : queue[i].monitor \notin ms}
      size == Cardinality(others)
  IN \E kept \in Bijection(1..size, others) :
       /\ \A i, j \in 1..size : i < j => kept[i] < kept[j]
       /\ queue' = [i \in 1..size |-> queue[kept[i]]]

\* Monitors that are disabled, or given a new timeout, are made anew: what
\* they had to say is forgotten, and the idle state they had is over.
Renewed(ms) ==
  /\ expired' = expired \ ms
  /\ Forget(ms)
  /\ idles' = idles \ ms
  /\ evaluating' = (evaluating /\ "idle" \notin ms)

MutantPolicyRejected ==
  /\ accepted
  /\ accepted' = FALSE
  /\ Renewed(Monitors)
  /\ inhibitedSeen' = FALSE
  /\ since' = IF since = "idled" THEN "input" ELSE since
  /\ UNCHANGED <<inhibited, toggle, probe, baseline, policy, contract,
                 systemPolicy, fresh, rearm, stayAwake, executing, starting>>

\* The policy file cannot be used any more (loadUserPolicy, onLoadFailed,
\* onSaveFailed); the last good policy is kept.
PolicyRejected ==
  /\ accepted
  /\ accepted' = FALSE
  /\ Renewed(Monitors)
  /\ baseline' = FALSE
  /\ inhibitedSeen' = FALSE
  /\ since' = IF since = "idled" THEN "input" ELSE since
  /\ UNCHANGED <<inhibited, toggle, probe, policy, contract, systemPolicy, fresh,
                 rearm, stayAwake, executing, starting>>

\* A policy is loaded or saved.  Only the first one, and one that changes
\* neither enablement nor delay, leaves the latch alone.
PolicyTaken(enablement, retimed) ==
  /\ accepted' = TRUE
  /\ policy' = enablement
  /\ IF policy # "none" /\ (policy # enablement \/ retimed)
       THEN RequireFreshActivity
       ELSE UNCHANGED <<fresh, rearm>>
            /\ since' = IF retimed /\ since = "idled" THEN "input" ELSE since
  /\ IF retimed
       THEN Renewed({"idle"})
       ELSE UNCHANGED <<expired, queue, idles, evaluating>>
  /\ UNCHANGED <<inhibited, toggle, probe, baseline, inhibitedSeen, contract,
                 systemPolicy, stayAwake, executing, starting>>

\* A reload of the service: all of its state begins again.
Reload ==
  /\ expired' = {}
  /\ queue' = <<>>
  /\ probe' = "off"
  /\ idles' = {}
  /\ accepted' = FALSE
  /\ policy' = "none"
  /\ contract' = "pending"
  /\ systemPolicy' = FALSE
  /\ baseline' = FALSE
  /\ RequireFreshActivity
  /\ inhibitedSeen' = FALSE
  /\ stayAwake' = "unknown"
  /\ evaluating' = FALSE
  /\ executing' = FALSE
  /\ starting' = {"latch", "history"}
  /\ UNCHANGED <<inhibited, toggle>>

Next ==
  \/ Input
  \/ \E m \in Monitors : Expire(m)
  \/ Inhibit
  \/ Uninhibit
  \/ StayAwakeToggled
  \/ \E idle \in BOOLEAN :
        HandleActivity(idle) \/ HandleAware(idle) \/ HandleIdle(idle)
  \/ Poll
  \/ ProbeReads
  \/ ProbeExits
  \/ ManualRequest
  \/ AttemptEnds
  \/ ResetHistory
  \/ \E what \in starting : FinishLoading(what)
  \/ LoadContractProbe
  \/ LoadSystemPolicy
  \/ PolicyRejected
  \/ \E enablement \in {"disabled", "enabled"}, retimed \in BOOLEAN :
        PolicyTaken(enablement, retimed)
  \/ Reload

\* The probe is a short command: it reads and exits.
Fairness == WF_vars(ProbeReads) /\ WF_vars(ProbeExits)

Spec == Init /\ [][Next]_vars
FairSpec == Spec /\ Fairness

-----------------------------------------------------------------------------

AutomaticAttempt == ProbeExits /\ ~executing /\ executing'

\* Every automatic attempt has an input of its own, and an idle delay after
\* it: since the last attempt, manual or automatic, since the last change of a
\* policy, reset of the history or start of the service, input was seen while
\* nothing executed, and then the idle deadline, which still stands.
\* Inhibitors, polls and renewed monitors make up for neither
\* (HBR-REQ-031; observeFreshActivity, requireFreshActivity, persistLatch).
AttemptFollowsInputAndIdle == [][AutomaticAttempt => since = "idled"]_vars

\* An automatic attempt goes out under an idle inhibitor only while the
\* compositor's word about it is still on its way: a single notification
\* handled, from either monitor, suffices to hold it back
\* (updateCompositorIdleInhibition, handleIdleChanged).
Unhandled(m) == \E i \in 1..Len(queue) : queue[i] = [monitor |-> m, idle |-> FALSE]

InhibitorHoldsBack ==
  [][AutomaticAttempt /\ inhibited => \A m \in Respecting : Unhandled(m)]_vars

\* An evaluation never lasts: whatever the probe says, and whatever cancels
\* the evaluation or renews the monitors meanwhile, the next idle deadline can
\* start one (finishAutomaticEvaluation, requestAutomaticStagedSleep).
EvaluationEnds == evaluating ~> ~evaluating
=============================================================================
