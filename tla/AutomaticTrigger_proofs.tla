----------------------- MODULE AutomaticTrigger_proofs -----------------------
(***************************************************************************)
(* What holds of the automatic trigger whatever the compositor sends, in   *)
(* whatever order and however much of it is on its way: that no automatic  *)
(* attempt goes out without an input and an idle delay of its own, and     *)
(* that an idle inhibitor holds attempts back as soon as either monitor    *)
(* that respects it has been heard.  The second is a matter of what the    *)
(* service will believe once it has handled its queue: that is what the    *)
(* compositor knows (WordInv).                                             *)
(***************************************************************************)
EXTENDS AutomaticTrigger, FiniteSetTheorems, TLAPS

\* The latch is released only when input was seen since it was last spent, and
\* an evaluation can lead to a request only when the idle deadline was seen
\* after that.  The second part needs the first: it is established by an idle
\* deadline that finds the latch released.
LatchInv ==
  /\ since \in {"none", "input", "idled"}
  /\ fresh /\ ~rearm => since # "none"
  /\ evaluating /\ fresh /\ ~rearm => since = "idled"

\* A service that starts has its latch spent.
LEMMA InitLatchInv == Init => LatchInv
BY DEF Init, LatchInv

\* The latch is spent whether the attempt is taken or fails, and otherwise
\* left as it is.
LEMMA RequestSleepLatch ==
  ASSUME RequestSleep
  PROVE  \/ rearm' = TRUE /\ since' = "none" /\ fresh' = fresh
         \/ UNCHANGED <<executing, latchVars>>
BY DEF RequestSleep, SpendLatch

\* What the compositor's notifications do to the latch.
LEMMA MonitorsLatchInv ==
  ASSUME LatchInv, NEW idle \in BOOLEAN,
         HandleActivity(idle) \/ HandleAware(idle) \/ HandleIdle(idle)
  PROVE  LatchInv'
<1> USE DEF LatchInv
<1>1. CASE HandleActivity(idle)
  <2>1. CASE ~idle /\ baseline /\ ~executing
    BY <1>1, <2>1 DEF HandleActivity, ObserveFreshActivity
  <2>2. CASE ~(~idle /\ baseline /\ ~executing)
    BY <1>1, <2>2 DEF HandleActivity
  <2> QED
    BY <2>1, <2>2
<1>2. CASE HandleAware(idle)
  BY <1>2 DEF HandleAware, latchVars
<1>3. CASE HandleIdle(idle)
  <2>1. fresh' = fresh /\ rearm' = rearm
    BY <1>3 DEF HandleIdle
  <2>2. CASE idle
    <3>1. since' = IF since = "input" THEN "idled" ELSE since
      BY <1>3, <2>2 DEF HandleIdle
    <3>2. evaluating' => evaluating \/ Ready(stayAwake)
      BY <1>3, <2>2 DEF HandleIdle, BeginEvaluation
    <3> QED
      BY <2>1, <3>1, <3>2 DEF Ready
  <2>3. CASE ~idle
    <3>1. evaluating' = FALSE
      BY <1>3, <2>3 DEF HandleIdle
    <3>2. since' = IF since = "idled" THEN "input" ELSE since
      BY <1>3, <2>3 DEF HandleIdle
    <3> QED
      BY <2>1, <3>1, <3>2
  <2> QED
    BY <2>2, <2>3
<1> QED
  BY <1>1, <1>2, <1>3

\* What an answer about Stay Awake does to the latch.
LEMMA ProbeLatchInv ==
  ASSUME LatchInv, ProbeExits
  PROVE  LatchInv'
<1>1. PICK reading \in {"on", "off", "unknown"} : FinishEvaluation(reading)
  BY DEF ProbeExits
<1>2. evaluating' = FALSE
  BY <1>1 DEF FinishEvaluation
<1>3. RequestSleep \/ UNCHANGED <<executing, latchVars>>
  BY <1>1 DEF FinishEvaluation
<1>4. CASE UNCHANGED <<executing, latchVars>>
  BY <1>2, <1>4 DEF LatchInv, latchVars
<1>5. CASE RequestSleep
  BY <1>2, <1>4, <1>5, RequestSleepLatch DEF LatchInv
<1> QED
  BY <1>3, <1>4, <1>5

\* Policies, taken or rejected, never release the latch, and end the idle
\* period when they renew the monitor of the idle delay.
LEMMA PolicyLatchInv ==
  ASSUME LatchInv,
         \/ PolicyRejected
         \/ \E enablement \in {"disabled", "enabled"}, retimed \in BOOLEAN :
              PolicyTaken(enablement, retimed)
  PROVE  LatchInv'
<1> USE DEF LatchInv
<1>1. CASE PolicyRejected
  <2>1. evaluating' = FALSE
    BY <1>1 DEF PolicyRejected, Renewed, Monitors
  <2> QED
    BY <1>1, <2>1 DEF PolicyRejected
<1>2. ASSUME NEW enablement \in {"disabled", "enabled"}, NEW retimed \in BOOLEAN,
             PolicyTaken(enablement, retimed)
      PROVE  LatchInv'
  <2>1. retimed => evaluating' = FALSE
    BY <1>2 DEF PolicyTaken, Renewed
  <2>2. ~retimed => evaluating' = evaluating
    BY <1>2 DEF PolicyTaken
  <2>3. CASE policy # "none" /\ (policy # enablement \/ retimed)
    BY <1>2, <2>3 DEF PolicyTaken, RequireFreshActivity
  <2>4. CASE ~(policy # "none" /\ (policy # enablement \/ retimed))
    <3>1. /\ UNCHANGED <<fresh, rearm>>
          /\ since' = IF retimed /\ since = "idled" THEN "input" ELSE since
      BY <1>2, <2>4 DEF PolicyTaken
    <3> QED
      BY <2>1, <2>2, <3>1
  <2> QED
    BY <2>3, <2>4
<1> QED
  BY <1>1, <1>2

\* Every other step leaves the latch alone or spends it.
LEMMA OtherLatchInv ==
  ASSUME LatchInv,
         \/ Input \/ (\E m \in Monitors : Expire(m)) \/ Inhibit \/ Uninhibit
         \/ StayAwakeToggled \/ Poll \/ ProbeReads \/ ManualRequest
         \/ AttemptEnds \/ ResetHistory
         \/ (\E what \in starting : FinishLoading(what))
         \/ LoadContractProbe \/ LoadSystemPolicy \/ Reload
  PROVE  LatchInv'
<1> USE DEF LatchInv, latchVars
<1>1. CASE Input \/ (\E m \in Monitors : Expire(m)) \/ Inhibit \/ Uninhibit
             \/ StayAwakeToggled
  <2>1. Outside
    BY <1>1 DEF Input, Expire, Inhibit, Uninhibit, StayAwakeToggled
  <2> QED
    BY <2>1 DEF Outside
<1>2. CASE Poll \/ ProbeReads
  <2>1. UNCHANGED <<latchVars, evaluating>>
    BY <1>2 DEF Poll, ProbeReads
  <2> QED
    BY <2>1
<1>3. CASE ManualRequest
  <2>1. RequestSleep /\ evaluating' = evaluating
    BY <1>3 DEF ManualRequest, elsewhere
  <2>2. CASE rearm' = TRUE /\ since' = "none" /\ fresh' = fresh
    BY <2>1, <2>2
  <2>3. CASE fresh' = fresh /\ rearm' = rearm /\ since' = since
    BY <2>1, <2>3
  <2> QED
    BY <2>1, <2>2, <2>3, RequestSleepLatch
<1>4. CASE AttemptEnds
  BY <1>4 DEF AttemptEnds, elsewhere
<1>5. CASE ResetHistory
  BY <1>5 DEF ResetHistory, RequireFreshActivity
<1>6. CASE \E what \in starting : FinishLoading(what)
  BY <1>6 DEF FinishLoading, RequireFreshActivity, SpendLatch, elsewhere
<1>7. CASE LoadContractProbe
  BY <1>7 DEF LoadContractProbe, elsewhere
<1>8. CASE LoadSystemPolicy
  BY <1>8 DEF LoadSystemPolicy, RequireFreshActivity, elsewhere
<1>9. CASE Reload
  BY <1>9 DEF Reload, RequireFreshActivity
<1> QED
  BY <1>1, <1>2, <1>3, <1>4, <1>5, <1>6, <1>7, <1>8, <1>9

\* LatchInv is inductive.
LEMMA NextLatchInv ==
  ASSUME LatchInv, [Next]_vars
  PROVE  LatchInv'
<1>1. CASE Next
  BY <1>1, MonitorsLatchInv, ProbeLatchInv, PolicyLatchInv, OtherLatchInv
  DEF Next
<1>2. CASE UNCHANGED vars
  BY <1>2 DEF vars, latchVars, LatchInv
<1> QED
  BY <1>1, <1>2

\* An answer that lets an attempt begin found the latch released and an
\* evaluation under way.
LEMMA AttemptIsEvaluated ==
  ASSUME LatchInv, AutomaticAttempt
  PROVE  since = "idled"
<1>1. PICK reading \in {"on", "off", "unknown"} : FinishEvaluation(reading)
  BY DEF AutomaticAttempt, ProbeExits
<1>2. evaluating /\ Ready(reading)
  BY <1>1 DEF AutomaticAttempt, FinishEvaluation
<1> QED
  BY <1>2 DEF LatchInv, Ready

\* Every automatic attempt has an input of its own and an idle delay after it,
\* whatever the compositor, the probe, the policies, manual attempts, resets
\* and reloads do meanwhile (HBR-REQ-031; observeFreshActivity,
\* requireFreshActivity, persistLatch).
THEOREM FreshInputForEachAttempt == Spec => AttemptFollowsInputAndIdle
<1>1. Init => LatchInv
  BY InitLatchInv
<1>2. LatchInv /\ [Next]_vars => LatchInv'
  BY NextLatchInv
<1>3. LatchInv /\ [Next]_vars => [AutomaticAttempt => since = "idled"]_vars
  BY AttemptIsEvaluated
<1> QED
  BY <1>1, <1>2, <1>3, PTL DEF Spec, AttemptFollowsInputAndIdle

-----------------------------------------------------------------------------
\* The notification at a place of a queue is about a monitor.
Says(q, i, m, idle) == q[i] = [monitor |-> m, idle |-> idle]

\* A notification is about one monitor and says one thing of it.
LEMMA SaysOneThing ==
  ASSUME NEW q, NEW i, NEW m, NEW n, Says(q, i, m, TRUE), Says(q, i, n, FALSE)
  PROVE  FALSE
BY DEF Says

\* A notification is about one monitor.
LEMMA SaysOfOne ==
  ASSUME NEW q, NEW i, NEW m, NEW n, NEW b, NEW c, Says(q, i, m, b), Says(q, i, n, c)
  PROVE  m = n
BY DEF Says

\* What the service will believe of a monitor once it has handled the first n
\* notifications of a queue, when it believes now that those of is are idle.
IdleAfter(q, is, m, n) ==
  \/ \E j \in 1..n : Says(q, j, m, TRUE) /\ \A k \in (j + 1)..n : ~Says(q, k, m, FALSE)
  \/ m \in is /\ \A k \in 1..n : ~Says(q, k, m, FALSE)

\* Notifications that come later do not matter to it.
LEMMA IdleAfterPrefix ==
  ASSUME NEW q, NEW r, NEW is, NEW m, NEW n \in Nat,
         \A i \in 1..n : q[i] = r[i]
  PROVE  IdleAfter(q, is, m, n) <=> IdleAfter(r, is, m, n)
<1>1. \A j \in 1..n : \A k \in (j + 1)..n : k \in 1..n
  OBVIOUS
<1>2. \A i \in 1..n, b \in BOOLEAN : Says(q, i, m, b) <=> Says(r, i, m, b)
  BY DEF Says
<1> QED
  BY <1>1, <1>2 DEF IdleAfter

\* A notification at the end has the last word about its monitor.
LEMMA IdleAfterNext ==
  ASSUME NEW q, NEW is, NEW m, NEW n \in Nat,
         NEW about, NEW idle \in BOOLEAN, Says(q, n + 1, about, idle)
  PROVE  IdleAfter(q, is, m, n + 1)
           <=> IF m = about THEN idle ELSE IdleAfter(q, is, m, n)
<1>1. CASE m = about /\ idle = TRUE
  <2>0. Says(q, n + 1, m, TRUE)
    BY <1>1, Zenon
  <2>1. n + 1 \in 1..(n + 1)
    OBVIOUS
  <2>2. \A k \in ((n + 1) + 1)..(n + 1) : FALSE
    OBVIOUS
  <2>3. IdleAfter(q, is, m, n + 1)
    BY <2>0, <2>1, <2>2, Zenon DEF IdleAfter
  <2> QED
    BY <1>1, <2>3
<1>2. CASE m = about /\ idle = FALSE
  <2>0. Says(q, n + 1, m, FALSE)
    BY <1>2, Zenon
  <2>1. ~Says(q, n + 1, m, TRUE)
    BY <2>0, SaysOneThing, Zenon
  <2>2. ASSUME NEW j \in 1..(n + 1), Says(q, j, m, TRUE)
        PROVE  n + 1 \in (j + 1)..(n + 1)
    <3>1. j # n + 1
      BY <2>1, <2>2, Zenon
    <3> QED
      BY <3>1
  <2>3. n + 1 \in 1..(n + 1)
    OBVIOUS
  <2>4. ~IdleAfter(q, is, m, n + 1)
    BY <2>0, <2>2, <2>3, Zenon DEF IdleAfter
  <2> QED
    BY <1>2, <2>4
<1>3. CASE m # about
  <2>1. ~Says(q, n + 1, m, TRUE) /\ ~Says(q, n + 1, m, FALSE)
    BY <1>3 DEF Says
  <2>2. \A k : k \in 1..(n + 1) <=> k \in 1..n \/ k = n + 1
    OBVIOUS
  <2>3. \A j \in 1..n : \A k :
           k \in (j + 1)..(n + 1) <=> k \in (j + 1)..n \/ k = n + 1
    OBVIOUS
  <2>4. IdleAfter(q, is, m, n + 1) <=> IdleAfter(q, is, m, n)
    BY <2>1, <2>2, <2>3 DEF IdleAfter
  <2> QED
    BY <1>3, <2>4
<1> QED
  BY <1>1, <1>2, <1>3

\* Handling the first notification changes nothing of what follows from all.
LEMMA IdleAfterDelivery ==
  ASSUME NEW q \in Seq(Notification), NEW is, NEW m,
         NEW about, NEW idle \in BOOLEAN, q # <<>>,
         Head(q) = [monitor |-> about, idle |-> idle],
         NEW n \in 0..Len(Tail(q))
  PROVE  IdleAfter(Tail(q), IF idle THEN is \cup {about} ELSE is \ {about}, m, n)
           <=> IdleAfter(q, is, m, n + 1)
<1> DEFINE later == IF idle THEN is \cup {about} ELSE is \ {about}
           t == Tail(q)
<1>1. Says(q, 1, about, idle)
  BY DEF Says
<1>2. Len(t) = Len(q) - 1 /\ \A i \in 1..Len(t) : t[i] = q[i + 1]
  OBVIOUS
<1>3. m \in later <=> IF m = about THEN idle ELSE m \in is
  OBVIOUS
<1>4. n \in Nat /\ n \in 0..Len(t)
  OBVIOUS
<1> HIDE DEF later, t
<1>5. \A k \in 1..n, b \in BOOLEAN : Says(t, k, m, b) <=> Says(q, k + 1, m, b)
  <2>1. \A k \in 1..n : t[k] = q[k + 1]
    BY <1>2, <1>4
  <2> QED
    BY <2>1 DEF Says
<1>6. ASSUME NEW j \in Nat
      PROVE  (\A k \in (j + 1)..n : ~Says(t, k, m, FALSE))
               <=> \A k \in ((j + 1) + 1)..(n + 1) : ~Says(q, k, m, FALSE)
  <2>1. ASSUME NEW k \in ((j + 1) + 1)..(n + 1)
        PROVE  k - 1 \in (j + 1)..n /\ k - 1 \in 1..n /\ (k - 1) + 1 = k
    BY <1>4
  <2>2. \A k \in (j + 1)..n : k \in 1..n /\ k + 1 \in ((j + 1) + 1)..(n + 1)
    BY <1>4
  <2>3. \A k \in 1..n : Says(t, k, m, FALSE) <=> Says(q, k + 1, m, FALSE)
    BY <1>5, Zenon
  <2>4. ASSUME \A k \in (j + 1)..n : ~Says(t, k, m, FALSE),
               NEW k \in ((j + 1) + 1)..(n + 1)
        PROVE  ~Says(q, k, m, FALSE)
    <3>1. ~Says(t, k - 1, m, FALSE)
      BY <2>1, <2>4, Zenon
    <3>2. ~Says(q, (k - 1) + 1, m, FALSE)
      BY <2>1, <2>3, <3>1, Zenon
    <3> QED
      BY <2>1, <3>2, Zenon
  <2> QED
    BY <2>2, <2>3, <2>4, Zenon
<1> DEFINE S(j) == /\ Says(q, j, m, TRUE)
                   /\ \A k \in (j + 1)..(n + 1) : ~Says(q, k, m, FALSE)
           N == \A k \in 2..(n + 1) : ~Says(q, k, m, FALSE)
<1>7. IdleAfter(t, later, m, n)
        <=> (\E j \in 2..(n + 1) : S(j)) \/ (m \in later /\ N)
  <2>1. (\A k \in 1..n : ~Says(t, k, m, FALSE)) <=> N
    <3>1. 0 \in Nat /\ 0 + 1 = 1 /\ 1 + 1 = 2
      OBVIOUS
    <3> QED
      BY <1>6, <3>1
  <2>2. \A j \in 1..n : j \in Nat /\ j + 1 \in 2..(n + 1)
    BY <1>4
  <2>3. \A j \in 1..n : (/\ Says(t, j, m, TRUE)
                         /\ \A k \in (j + 1)..n : ~Says(t, k, m, FALSE)) <=> S(j + 1)
    BY <1>5, <1>6, <2>2
  <2>4. \A j \in 2..(n + 1) : j - 1 \in 1..n /\ (j - 1) + 1 = j
    BY <1>4
  <2> HIDE DEF S, N
  <2> QED
    BY <2>1, <2>2, <2>3, <2>4 DEF IdleAfter
<1>8. IdleAfter(q, is, m, n + 1)
        <=> (\E j \in 2..(n + 1) : S(j)) \/ (m \in later /\ N)
  <2>1. \A k : k \in 1..(n + 1) <=> k = 1 \/ k \in 2..(n + 1)
    BY <1>4
  <2>2. /\ S(1) <=> Says(q, 1, m, TRUE) /\ N
        /\ (\A k \in 1..(n + 1) : ~Says(q, k, m, FALSE)) <=> ~Says(q, 1, m, FALSE) /\ N
    <3>1. 1 + 1 = 2
      OBVIOUS
    <3> QED
      BY <2>1, <3>1
  <2>3. IdleAfter(q, is, m, n + 1)
          <=> \/ \E j \in 2..(n + 1) : S(j)
              \/ (Says(q, 1, m, TRUE) \/ (m \in is /\ ~Says(q, 1, m, FALSE))) /\ N
    <3>1. IdleAfter(q, is, m, n + 1)
            <=> \/ \E j \in 1..(n + 1) : S(j)
                \/ m \in is /\ \A k \in 1..(n + 1) : ~Says(q, k, m, FALSE)
      BY DEF IdleAfter
    <3> HIDE DEF S, N
    <3> QED
      BY <2>1, <2>2, <3>1
  <2>4. m \in later <=> Says(q, 1, m, TRUE) \/ (m \in is /\ ~Says(q, 1, m, FALSE))
    <3>1. CASE m = about /\ idle = TRUE
      <4>1. Says(q, 1, m, TRUE)
        BY <1>1, <3>1, Zenon
      <4> QED
        BY <1>3, <3>1, <4>1
    <3>2. CASE m = about /\ idle = FALSE
      <4>1. Says(q, 1, m, FALSE)
        BY <1>1, <3>2, Zenon
      <4> QED
        BY <1>3, <3>2, <4>1, SaysOneThing
    <3>3. CASE m # about
      BY <1>1, <1>3, <3>3, SaysOfOne
    <3> QED
      BY <3>1, <3>2, <3>3
  <2> HIDE DEF S, N
  <2> QED
    BY <2>3, <2>4
<1> QED
  BY <1>7, <1>8 DEF later, t

\* r is the selection of the places kept of q, in their order, which leaves
\* out what is about ms only.
Selects(kept, q, length, r, size, ms) ==
  /\ kept \in [1..size -> 1..length]
  /\ \A i, j \in 1..size : i < j => kept[i] < kept[j]
  /\ \A i \in 1..size : r[i] = q[kept[i]]
  /\ \A i \in 1..length : q[i].monitor \notin ms => \E j \in 1..size : kept[j] = i

\* A selection changes nothing for the monitors of which it leaves nothing out.
LEMMA IdleAfterSelection ==
  ASSUME NEW q, NEW r, NEW is, NEW ms, NEW m, m \notin ms,
         NEW length \in Nat, NEW size \in Nat, NEW kept,
         Selects(kept, q, length, r, size, ms)
  PROVE  IdleAfter(r, is \ ms, m, size) <=> IdleAfter(q, is, m, length)
<1> USE DEF Selects
<1>1. \A i \in 1..length, b \in BOOLEAN :
         Says(q, i, m, b) => \E j \in 1..size : kept[j] = i
  <2>1. \A i \in 1..length, b \in BOOLEAN : Says(q, i, m, b) => q[i].monitor = m
    BY DEF Says
  <2> QED
    BY <2>1
<1>2. \A i \in 1..size : kept[i] \in 1..length
  OBVIOUS
<1>3. \A i \in 1..size, b \in BOOLEAN : Says(r, i, m, b) <=> Says(q, kept[i], m, b)
  BY DEF Says
<1>4. \A i, j \in 1..size : kept[i] < kept[j] => i < j
  <2> SUFFICES ASSUME NEW i \in 1..size, NEW j \in 1..size, ~(i < j)
               PROVE  ~(kept[i] < kept[j])
    OBVIOUS
  <2>1. i = j \/ j < i
    OBVIOUS
  <2>2. i = j \/ kept[j] < kept[i]
    BY <2>1
  <2> QED
    BY <1>2, <2>2
<1>5. (\A k \in 1..size : ~Says(r, k, m, FALSE))
        <=> \A k \in 1..length : ~Says(q, k, m, FALSE)
  BY <1>1, <1>2, <1>3
<1>6. ASSUME NEW j \in 1..size
      PROVE  (\A k \in (j + 1)..size : ~Says(r, k, m, FALSE))
               <=> \A k \in (kept[j] + 1)..length : ~Says(q, k, m, FALSE)
  <2>1. ASSUME \A k \in (j + 1)..size : ~Says(r, k, m, FALSE),
               NEW k \in (kept[j] + 1)..length, Says(q, k, m, FALSE)
        PROVE  FALSE
    <3>1. k \in 1..length /\ kept[j] < k
      BY <1>2
    <3>2. PICK i \in 1..size : kept[i] = k
      BY <1>1, <2>1, <3>1
    <3>3. j < i
      BY <1>4, <3>1, <3>2
    <3>4. i \in (j + 1)..size
      BY <3>3
    <3> QED
      BY <1>3, <2>1, <3>2, <3>4
  <2>2. ASSUME NEW k \in (j + 1)..size
        PROVE  k \in 1..size /\ kept[k] \in (kept[j] + 1)..length
    <3>1. k \in 1..size /\ j < k
      OBVIOUS
    <3>2. kept[k] \in 1..length /\ kept[j] \in 1..length /\ kept[j] < kept[k]
      BY <1>2, <3>1
    <3> QED
      BY <3>1, <3>2
  <2> QED
    BY <1>3, <2>1, <2>2
<1>7. \A j \in 1..size :
        (Says(r, j, m, TRUE) /\ \A k \in (j + 1)..size : ~Says(r, k, m, FALSE))
          <=> /\ Says(q, kept[j], m, TRUE)
              /\ \A k \in (kept[j] + 1)..length : ~Says(q, k, m, FALSE)
  BY <1>3, <1>6
<1>8. m \in is \ ms <=> m \in is
  OBVIOUS
<1> DEFINE R(j) == Says(r, j, m, TRUE) /\ \A k \in (j + 1)..size : ~Says(r, k, m, FALSE)
           Q(j) == Says(q, j, m, TRUE) /\ \A k \in (j + 1)..length : ~Says(q, k, m, FALSE)
<1>9. (\E j \in 1..size : R(j)) <=> \E j \in 1..length : Q(j)
  <2>1. \A j \in 1..size : R(j) <=> Q(kept[j])
    BY <1>7
  <2>2. \A j \in 1..length : Q(j) => \E i \in 1..size : kept[i] = j
    BY <1>1
  <2> HIDE DEF R, Q
  <2> QED
    BY <1>2, <2>1, <2>2
<1> QED
  BY <1>5, <1>8, <1>9 DEF IdleAfter

-----------------------------------------------------------------------------
\* What the compositor and the service do to the queue.

\* Silence about a monitor leaves what will be believed of it.
LEMMA IdleAfterSilence ==
  ASSUME NEW q, NEW is, NEW m, NEW n \in Nat, NEW last \in Nat, n <= last,
         \A i \in (n + 1)..last : ~Says(q, i, m, TRUE) /\ ~Says(q, i, m, FALSE)
  PROVE  IdleAfter(q, is, m, last) <=> IdleAfter(q, is, m, n)
<1>1. \A k : k \in 1..last <=> k \in 1..n \/ k \in (n + 1)..last
  OBVIOUS
<1>2. \A j \in 1..n : \A k :
         k \in (j + 1)..last <=> k \in (j + 1)..n \/ k \in (n + 1)..last
  OBVIOUS
<1> QED
  BY <1>1, <1>2, Zenon DEF IdleAfter

\* Notifications about any of the monitors are a finite number.
LEMMA MonitorsFinite ==
  ASSUME NEW ms \in SUBSET Monitors
  PROVE  IsFiniteSet(ms) /\ Cardinality(ms) \in Nat
<1>1. IsFiniteSet({"activity"})
  BY FS_Singleton
<1>2. IsFiniteSet({"activity"} \cup {"aware"})
  BY <1>1, FS_AddElement
<1>3. IsFiniteSet(({"activity"} \cup {"aware"}) \cup {"idle"})
  BY <1>2, FS_AddElement
<1>4. Monitors = ({"activity"} \cup {"aware"}) \cup {"idle"}
  BY DEF Monitors
<1>5. IsFiniteSet(ms)
  BY <1>3, <1>4, FS_Subset
<1> QED
  BY <1>5, FS_CardinalityType

\* A block at the end of a queue.
LEMMA AppendBlock ==
  ASSUME NEW S, NEW q \in Seq(S), NEW size \in Nat, NEW block \in [1..size -> S]
  PROVE  /\ q \o block \in Seq(S)
         /\ Len(q) \in Nat /\ Len(q \o block) = Len(q) + size
         /\ \A i \in 1..Len(q) : (q \o block)[i] = q[i]
         /\ \A i \in (Len(q) + 1)..(Len(q) + size) :
              (q \o block)[i] = block[i - Len(q)]
<1>1. block \in Seq(S) /\ Len(block) = size
  OBVIOUS
<1> QED
  BY <1>1

\* A block of notifications goes to the end of the queue; it is about each of
\* its monitors and about no other.
LEMMA NotifyAppends ==
  ASSUME queue \in Seq(Notification), NEW ms \in SUBSET Monitors,
         NEW idle \in BOOLEAN, Notify(ms, idle)
  PROVE  /\ queue' \in Seq(Notification)
         /\ Len(queue) \in Nat /\ Len(queue') = Len(queue) + Cardinality(ms)
         /\ Len(queue') \in Nat /\ Len(queue) <= Len(queue')
         /\ \A i \in 1..Len(queue) : queue'[i] = queue[i]
         /\ \A i \in (Len(queue) + 1)..Len(queue') :
              \E m \in ms : Says(queue', i, m, idle)
         /\ \A m \in ms :
              \E i \in (Len(queue) + 1)..Len(queue') : Says(queue', i, m, idle)
<1> DEFINE size == Cardinality(ms)
<1>1. size \in Nat
  BY MonitorsFinite
<1>2. PICK order \in Bijection(1..size, ms) :
        queue' = queue \o [i \in 1..size |-> [monitor |-> order[i], idle |-> idle]]
  BY DEF Notify
<1>3. order \in [1..size -> ms] /\ \A m \in ms : \E i \in 1..size : order[i] = m
  BY DEF Bijection, Injection, Surjection
<1> DEFINE block == [i \in 1..size |-> [monitor |-> order[i], idle |-> idle]]
           n == Len(queue)
<1> HIDE DEF size
<1>4. block \in [1..size -> Notification]
  <2>1. \A i \in 1..size : block[i] \in Notification
    BY <1>3 DEF Notification
  <2> QED
    BY <2>1
<1>5. \A i \in 1..size : block[i] = [monitor |-> order[i], idle |-> idle]
  OBVIOUS
<1> HIDE DEF block
<1>6. queue' = queue \o block
  BY <1>2 DEF block
<1>7. /\ queue' \in Seq(Notification) /\ n \in Nat /\ Len(queue') = n + size
      /\ \A i \in 1..n : queue'[i] = queue[i]
      /\ \A i \in (n + 1)..(n + size) : queue'[i] = block[i - n]
  BY <1>1, <1>4, <1>6, AppendBlock
<1> HIDE DEF n
<1>8. ASSUME NEW i \in (n + 1)..(n + size)
      PROVE  \E m \in ms : Says(queue', i, m, idle)
  <2>1. i - n \in 1..size
    BY <1>1, <1>7
  <2>2. order[i - n] \in ms
    BY <1>3, <2>1
  <2>3. queue'[i] = [monitor |-> order[i - n], idle |-> idle]
    BY <1>5, <1>7, <2>1
  <2> QED
    BY <2>2, <2>3 DEF Says
<1>9. ASSUME NEW m \in ms
      PROVE  \E i \in (n + 1)..(n + size) : Says(queue', i, m, idle)
  <2>1. PICK j \in 1..size : order[j] = m
    BY <1>3
  <2>2. n + j \in (n + 1)..(n + size) /\ (n + j) - n = j
    BY <1>1, <1>7
  <2>3. queue'[n + j] = [monitor |-> m, idle |-> idle]
    BY <1>5, <1>7, <2>1, <2>2
  <2> QED
    BY <2>2, <2>3 DEF Says
<1> QED
  BY <1>1, <1>7, <1>8, <1>9 DEF n, size

\* Who is told idle or active last is believed to be; nothing changes for the
\* monitors that are not mentioned.
LEMMA NotifyDecides ==
  ASSUME queue \in Seq(Notification), NEW ms \in SUBSET Monitors,
         NEW idle \in BOOLEAN, Notify(ms, idle), idle => Cardinality(ms) = 1,
         NEW m \in Monitors
  PROVE  IdleAfter(queue', idles, m, Len(queue'))
           <=> IF m \in ms THEN idle ELSE IdleAfter(queue, idles, m, Len(queue))
<1> DEFINE n == Len(queue)
           last == Len(queue')
<1>1. /\ n \in Nat /\ last \in Nat /\ n <= last /\ last = n + Cardinality(ms)
      /\ \A i \in 1..n : queue'[i] = queue[i]
      /\ \A i \in (n + 1)..last : \E x \in ms : Says(queue', i, x, idle)
      /\ \A x \in ms : \E i \in (n + 1)..last : Says(queue', i, x, idle)
  BY NotifyAppends
<1> HIDE DEF n, last
<1>2. CASE m \notin ms
  <2>1. ASSUME NEW i \in (n + 1)..last, NEW b \in BOOLEAN, Says(queue', i, m, b)
        PROVE  FALSE
    <3>1. PICK x \in ms : Says(queue', i, x, idle)
      BY <1>1
    <3>2. x = m
      BY <2>1, <3>1, SaysOfOne, Zenon
    <3> QED
      BY <1>2, <3>2
  <2>2. \A i \in (n + 1)..last : ~Says(queue', i, m, TRUE) /\ ~Says(queue', i, m, FALSE)
    BY <2>1, Zenon
  <2>3. IdleAfter(queue', idles, m, last) <=> IdleAfter(queue', idles, m, n)
    BY <1>1, <2>2, IdleAfterSilence
  <2>4. IdleAfter(queue', idles, m, n) <=> IdleAfter(queue, idles, m, n)
    BY <1>1, IdleAfterPrefix
  <2> QED
    BY <1>2, <2>3, <2>4 DEF n, last
<1>3. CASE m \in ms /\ idle = FALSE
  <2>1. PICK i \in (n + 1)..last : Says(queue', i, m, FALSE)
    BY <1>1, <1>3, Zenon
  <2>2. i \in 1..last
    BY <1>1
  <2>3. ASSUME NEW j \in 1..last, Says(queue', j, m, TRUE)
        PROVE  i \in (j + 1)..last
    <3>1. ASSUME j \in (n + 1)..last
          PROVE  FALSE
      <4>1. PICK x \in ms : Says(queue', j, x, FALSE)
        BY <1>1, <1>3, <3>1, Zenon
      <4> QED
        BY <2>3, <4>1, SaysOneThing, Zenon
    <3> QED
      BY <1>1, <3>1
  <2>4. ~IdleAfter(queue', idles, m, last)
    BY <2>1, <2>2, <2>3, Zenon DEF IdleAfter
  <2> QED
    BY <1>3, <2>4 DEF last
<1>4. CASE m \in ms /\ idle = TRUE
  <2>1. last = n + 1
    BY <1>1, <1>4
  <2>2. PICK i \in (n + 1)..last : Says(queue', i, m, TRUE)
    BY <1>1, <1>4, Zenon
  <2>3. i = n + 1
    BY <1>1, <2>1
  <2>4. Says(queue', n + 1, m, TRUE)
    BY <2>2, <2>3, Zenon
  <2>5. IdleAfter(queue', idles, m, n + 1)
    BY <1>1, <2>4, IdleAfterNext
  <2> QED
    BY <1>4, <2>1, <2>5 DEF last
<1> QED
  BY <1>2, <1>3, <1>4

\* A notification handled is believed as it was to be believed.
LEMMA DeliverBelieves ==
  ASSUME queue \in Seq(Notification), NEW m \in Monitors, NEW idle \in BOOLEAN,
         Deliver(m, idle)
  PROVE  /\ queue' \in Seq(Notification)
         /\ Says(queue, 1, m, idle) /\ 1 \in 1..Len(queue)
         /\ Len(queue) = Len(queue') + 1 /\ Len(queue') \in Nat
         /\ \A i \in 1..Len(queue') : queue'[i] = queue[i + 1]
         /\ \A x \in Monitors, n \in 0..Len(queue') :
              IdleAfter(queue', idles', x, n) <=> IdleAfter(queue, idles, x, n + 1)
<1>1. /\ queue # <<>> /\ Head(queue) = [monitor |-> m, idle |-> idle]
      /\ queue' = Tail(queue)
      /\ idles' = IF idle THEN idles \cup {m} ELSE idles \ {m}
  BY DEF Deliver
<1>2. \A x \in Monitors, n \in 0..Len(queue') :
        IdleAfter(queue', idles', x, n) <=> IdleAfter(queue, idles, x, n + 1)
  BY <1>1, IdleAfterDelivery
<1>3. queue[1] = [monitor |-> m, idle |-> idle]
  BY <1>1
<1>4. /\ queue' \in Seq(Notification) /\ 1 \in 1..Len(queue)
      /\ Len(queue) = Len(queue') + 1 /\ Len(queue') \in Nat
      /\ \A i \in 1..Len(queue') : queue'[i] = queue[i + 1]
  BY <1>1
<1> QED
  BY <1>2, <1>3, <1>4 DEF Says

\* Monitors made anew are believed active; what will be believed of the
\* others stays.
LEMMA ForgetKeepsOthers ==
  ASSUME queue \in Seq(Notification), NEW ms \in SUBSET Monitors, Forget(ms)
  PROVE  /\ queue' \in Seq(Notification)
         /\ Len(queue') \in Nat
         /\ \A i \in 1..Len(queue') : queue'[i].monitor \notin ms
         /\ \A m \in Monitors :
              IdleAfter(queue', idles \ ms, m, Len(queue'))
                <=> m \notin ms /\ IdleAfter(queue, idles, m, Len(queue))
<1> DEFINE others == {i \in 1..Len(queue) : queue[i].monitor \notin ms}
           size == Cardinality(others)
           length == Len(queue)
<1>1. length \in Nat /\ \A i \in 1..length : queue[i] \in Notification
  OBVIOUS
<1>2. size \in Nat
  <2>1. IsFiniteSet(1..length)
    BY <1>1, FS_Interval
  <2>2. IsFiniteSet(others)
    BY <2>1, FS_Subset
  <2> QED
    BY <2>2, FS_CardinalityType
<1>3. PICK kept \in Bijection(1..size, others) :
        /\ \A i, j \in 1..size : i < j => kept[i] < kept[j]
        /\ queue' = [i \in 1..size |-> queue[kept[i]]]
  BY DEF Forget
<1>4. /\ kept \in [1..size -> others]
      /\ \A i \in others : \E j \in 1..size : kept[j] = i
  BY DEF Bijection, Injection, Surjection
<1> HIDE DEF size
<1>5. kept \in [1..size -> 1..length]
  BY <1>4
<1>6. \A i \in 1..size : queue'[i] = queue[kept[i]]
  BY <1>3
<1>7. queue' \in Seq(Notification) /\ Len(queue') = size
  <2>1. \A i \in 1..size : queue[kept[i]] \in Notification
    BY <1>1, <1>5
  <2>2. queue' \in [1..size -> Notification]
    BY <1>3, <2>1
  <2> QED
    BY <1>2, <2>2, <1>3
<1>8. \A i \in 1..size : queue'[i].monitor \notin ms
  BY <1>4, <1>6
<1>9. ASSUME NEW m \in Monitors, m \notin ms
      PROVE  IdleAfter(queue', idles \ ms, m, size) <=> IdleAfter(queue, idles, m, length)
  <2>1. \A i \in 1..length : queue[i].monitor \notin ms => \E j \in 1..size : kept[j] = i
    BY <1>4
  <2>2. \A i, j \in 1..size : i < j => kept[i] < kept[j]
    BY <1>3
  <2>3. Selects(kept, queue, length, queue', size, ms)
    BY <1>5, <1>6, <2>1, <2>2 DEF Selects
  <2> HIDE DEF length
  <2> QED
    BY <1>1, <1>2, <1>9, <2>3, IdleAfterSelection
<1>10. ASSUME NEW m \in Monitors, m \in ms
       PROVE  ~IdleAfter(queue', idles \ ms, m, size)
  <2>1. \A i \in 1..size : ~Says(queue', i, m, TRUE)
    BY <1>8, <1>10 DEF Says
  <2> QED
    BY <1>10, <2>1 DEF IdleAfter
<1> QED
  BY <1>2, <1>7, <1>8, <1>9, <1>10

-----------------------------------------------------------------------------
\* What the compositor knows, what it has sent and what the service believes.

\* The notifications on their way make up the difference between the monitors
\* and what the service believes of them; and the idle deadline is announced
\* only to a service that will know of the idle user by then.
WordInv ==
  \A m \in Monitors : m \in expired <=> IdleAfter(queue, idles, m, Len(queue))

OrderInv ==
  \A i \in 1..Len(queue) :
    Says(queue, i, "idle", TRUE) => IdleAfter(queue, idles, "activity", i - 1)

\* An inhibitor ends what the monitors that respect it have to say.
QuietInv == inhibited => expired \cap Respecting = {}

QueueInv == WordInv /\ OrderInv /\ QuietInv

\* What the service concludes from the monitors.  The latch is released by an
\* input that ends an evaluation, and the next deadline finds the user idle.
BeliefInv ==
  /\ inhibitedSeen = InhibitedBy(idles)
  /\ "activity" \in idles => baseline
  /\ executing => rearm
  /\ evaluating /\ fresh /\ ~rearm => "activity" \in idles

\* Nothing has expired for a service that has no policy.
LEMMA NothingExpired ==
  ASSUME TypeOK, WordInv, ~accepted
  PROVE  expired = {}
<1>1. queue = <<>> /\ idles = {} /\ expired \subseteq Monitors
  BY DEF TypeOK
<1>2. Len(queue) = 0
  BY <1>1
<1>3. \A m \in Monitors : ~IdleAfter(queue, idles, m, 0)
  BY <1>1 DEF IdleAfter
<1> QED
  BY <1>1, <1>2, <1>3 DEF WordInv

\* The compositor says what happens to its monitors.
LEMMA NotifiedInv ==
  ASSUME TypeOK, WordInv, OrderInv, NEW ms \in SUBSET Monitors, NEW idle \in BOOLEAN,
         Notify(ms, idle), idle => Cardinality(ms) = 1,
         expired' = IF idle THEN expired \cup ms ELSE expired \ ms,
         idle /\ "idle" \in ms => "activity" \in expired,
         UNCHANGED idles
  PROVE  queue' \in Seq(Notification) /\ WordInv' /\ OrderInv'
<1> DEFINE n == Len(queue)
           last == Len(queue')
<1>1. queue \in Seq(Notification) /\ expired \subseteq Monitors
  BY DEF TypeOK
<1>2. /\ queue' \in Seq(Notification)
      /\ n \in Nat /\ last \in Nat /\ last = n + Cardinality(ms)
      /\ \A i \in 1..n : queue'[i] = queue[i]
      /\ \A i \in (n + 1)..last : \E m \in ms : Says(queue', i, m, idle)
  BY <1>1, NotifyAppends
<1>3. \A m \in Monitors : IdleAfter(queue', idles, m, last)
                            <=> IF m \in ms THEN idle ELSE IdleAfter(queue, idles, m, n)
  BY <1>1, NotifyDecides
<1> HIDE DEF n, last
<1>4. \A m \in Monitors : m \in expired' <=> IdleAfter(queue', idles', m, last)
  <2>1. \A m \in Monitors : m \in expired <=> IdleAfter(queue, idles, m, n)
    BY DEF WordInv, n
  <2>2. \A m \in Monitors : m \in expired' <=> IF m \in ms THEN idle ELSE m \in expired
    OBVIOUS
  <2>3. idles' = idles
    OBVIOUS
  <2> HIDE DEF n
  <2> QED
    BY <1>3, <2>1, <2>2, <2>3, Zenon
<1>5. ASSUME NEW i \in 1..last, Says(queue', i, "idle", TRUE)
      PROVE  IdleAfter(queue', idles', "activity", i - 1)
  <2>1. CASE i \in 1..n
    <3>1. Says(queue, i, "idle", TRUE)
      BY <1>2, <1>5, <2>1 DEF Says
    <3>2. IdleAfter(queue, idles, "activity", i - 1)
      BY <2>1, <3>1 DEF OrderInv, n
    <3>3. i - 1 \in Nat /\ \A k \in 1..(i - 1) : queue'[k] = queue[k]
      BY <1>2, <2>1
    <3> QED
      BY <3>2, <3>3, IdleAfterPrefix
  <2>2. CASE i \in (n + 1)..last
    <3>1. PICK m \in ms : Says(queue', i, m, idle)
      BY <1>2, <2>2
    <3>2. m = "idle"
      BY <1>5, <3>1, SaysOfOne, Zenon
    <3>3. idle = TRUE
      <4>1. ASSUME idle = FALSE PROVE FALSE
        <5>1. Says(queue', i, m, FALSE)
          BY <3>1, <4>1, Zenon
        <5> QED
          BY <1>5, <5>1, SaysOneThing, Zenon
      <4> QED
        BY <4>1
    <3>4. "activity" \in expired /\ last = n + 1
      BY <1>2, <3>2, <3>3
    <3>5. i - 1 = n
      BY <1>2, <2>2, <3>4
    <3>6. IdleAfter(queue, idles, "activity", n)
      BY <3>4 DEF WordInv, Monitors, n
    <3>7. IdleAfter(queue', idles, "activity", n)
      BY <1>2, <3>6, IdleAfterPrefix
    <3> QED
      BY <3>5, <3>7
  <2> QED
    BY <1>2, <2>1, <2>2
<1> QED
  BY <1>2, <1>4, <1>5 DEF WordInv, OrderInv, last

\* Input, timeouts and inhibitors.
LEMMA CompositorInv ==
  ASSUME TypeOK, QueueInv,
         \/ Input \/ (\E m \in Monitors : Expire(m)) \/ Inhibit \/ Uninhibit
         \/ StayAwakeToggled
  PROVE  TypeOK' /\ QueueInv'
<1> USE DEF QueueInv
<1>1. expired \subseteq Monitors /\ inhibited \in BOOLEAN /\ queue \in Seq(Notification)
  BY DEF TypeOK
<1>2. Outside
  BY DEF Input, Expire, Inhibit, Uninhibit, StayAwakeToggled
<1>3. idles' = idles /\ accepted' = accepted
  BY <1>2 DEF Outside, monitorVars, policyVars
<1>4. SUFFICES /\ expired' \subseteq Monitors /\ inhibited' \in BOOLEAN
               /\ toggle' \in BOOLEAN
               /\ queue' \in Seq(Notification) /\ (accepted \/ queue' = <<>>)
               /\ QueueInv'
  <2>1. UNCHANGED <<probe, idles, baseline, inhibitedSeen, accepted, policy, contract,
                    systemPolicy, fresh, rearm, since, stayAwake, evaluating,
                    executing, starting>>
    BY <1>2 DEF Outside, monitorVars, policyVars, latchVars
  <2>2. /\ probe' = probe /\ idles' = idles /\ policy' = policy
        /\ contract' = contract /\ stayAwake' = stayAwake /\ starting' = starting
        /\ since' = since
        /\ baseline' = baseline /\ inhibitedSeen' = inhibitedSeen
        /\ accepted' = accepted /\ systemPolicy' = systemPolicy /\ fresh' = fresh
        /\ rearm' = rearm /\ evaluating' = evaluating /\ executing' = executing
    BY <2>1
  <2>3. /\ baseline' \in BOOLEAN /\ inhibitedSeen' \in BOOLEAN
        /\ accepted' \in BOOLEAN /\ systemPolicy' \in BOOLEAN
        /\ fresh' \in BOOLEAN /\ rearm' \in BOOLEAN
        /\ evaluating' \in BOOLEAN /\ executing' \in BOOLEAN
    BY <2>2 DEF TypeOK
  <2>4. /\ probe' \in {"off", "started", "said on", "said off", "failed"}
        /\ idles' \subseteq Monitors
        /\ policy' \in {"none", "disabled", "enabled"}
        /\ contract' \in {"pending", "ready", "incompatible"}
        /\ stayAwake' \in {"unknown", "on", "off"}
        /\ starting' \subseteq {"latch", "history"}
        /\ since' \in {"none", "input", "idled"}
    BY <2>2 DEF TypeOK
  <2>5. /\ accepted' => policy' # "none"
        /\ ~accepted' => idles' = {} /\ ~baseline' /\ ~inhibitedSeen'
        /\ evaluating' => "idle" \in idles' /\ probe' # "off"
    BY <2>2 DEF TypeOK
  <2>6. ~accepted' => queue' = <<>>
    BY <1>4, <2>2
  <2> QED
    BY <1>4, <2>3, <2>4, <2>5, <2>6 DEF TypeOK
<1>5. toggle \in BOOLEAN /\ (accepted \/ queue = <<>>)
  BY DEF TypeOK
<1>6. accepted \/ expired = {}
  BY NothingExpired
<1>7. CASE Input
  <2>1. Notify(expired, FALSE) /\ expired' = {} /\ UNCHANGED <<inhibited, toggle>>
        /\ expired # {}
    BY <1>7 DEF Input
  <2>2. expired' = expired \ expired
    BY <2>1
  <2>3. queue' \in Seq(Notification) /\ WordInv' /\ OrderInv'
    BY <1>1, <1>3, <2>1, <2>2, NotifiedInv
  <2> QED
    BY <1>1, <1>5, <1>6, <2>1, <2>3 DEF QuietInv
<1>8. CASE \E m \in Monitors : Expire(m)
  <2>1. PICK m \in Monitors :
          /\ Notify({m}, TRUE) /\ expired' = expired \cup {m}
          /\ UNCHANGED <<inhibited, toggle>> /\ accepted
          /\ m \in Respecting => ~inhibited
          /\ m = "idle" => expired = {"activity", "aware"}
    BY <1>8 DEF Expire
  <2>2. Cardinality({m}) = 1 /\ {m} \in SUBSET Monitors
    BY FS_Singleton
  <2>3. queue' \in Seq(Notification) /\ WordInv' /\ OrderInv'
    BY <1>1, <1>3, <2>1, <2>2, NotifiedInv
  <2>4. QuietInv'
    BY <2>1 DEF QuietInv
  <2> QED
    BY <1>1, <1>5, <2>1, <2>3, <2>4
<1>9. CASE Inhibit
  <2>1. /\ Notify(expired \cap Respecting, FALSE) /\ expired' = expired \ Respecting
        /\ inhibited' = TRUE /\ UNCHANGED toggle
    BY <1>9 DEF Inhibit
  <2>2. expired' = expired \ (expired \cap Respecting)
    BY <2>1
  <2>3. queue' \in Seq(Notification) /\ WordInv' /\ OrderInv'
    BY <1>1, <1>3, <2>1, <2>2, NotifiedInv
  <2>4. accepted \/ queue' = <<>>
    <3>1. SUFFICES ASSUME ~accepted PROVE queue' = <<>>
      OBVIOUS
    <3>2. expired \cap Respecting = {} /\ queue = <<>>
      BY <1>5, <1>6, <3>1
    <3>3. Notify({}, FALSE) /\ Cardinality({}) = 0 /\ {} \in SUBSET Monitors
      BY <2>1, <3>2, FS_EmptySet
    <3>4. Len(queue') = Len(queue) + 0
      BY <1>1, <3>3, NotifyAppends
    <3>5. Len(queue') = 0
      BY <3>2, <3>4
    <3> QED
      BY <2>3, <3>5
  <2> QED
    BY <1>1, <1>5, <2>1, <2>3, <2>4 DEF QuietInv
<1>10. CASE Uninhibit \/ StayAwakeToggled
  <2>1. UNCHANGED <<expired, queue, idles>> /\ inhibited' \in BOOLEAN
        /\ toggle' \in BOOLEAN /\ (inhibited' => inhibited)
    <3>1. CASE Uninhibit
      BY <1>1, <1>3, <1>5, <3>1 DEF Uninhibit
    <3>2. CASE StayAwakeToggled
      BY <1>1, <1>3, <1>5, <3>2 DEF StayAwakeToggled, compositorVars
    <3> QED
      BY <1>10, <3>1, <3>2
  <2>2. WordInv' /\ OrderInv' /\ QuietInv'
    BY <2>1 DEF WordInv, OrderInv, QuietInv
  <2> QED
    BY <1>1, <1>5, <2>1, <2>2
<1> QED
  BY <1>7, <1>8, <1>9, <1>10

\* A notification handled: the service believes what was said.
LEMMA DeliveryInv ==
  ASSUME TypeOK, QueueInv, NEW m \in Monitors, NEW idle \in BOOLEAN,
         Deliver(m, idle)
  PROVE  /\ queue' \in Seq(Notification) /\ QueueInv'
         /\ accepted /\ idles' \subseteq Monitors
         /\ m = "idle" /\ idle => "activity" \in idles
<1> USE DEF QueueInv
<1> DEFINE n == Len(queue')
<1>1. queue \in Seq(Notification) /\ idles \subseteq Monitors
  BY DEF TypeOK
<1>2. /\ queue' \in Seq(Notification)
      /\ Says(queue, 1, m, idle) /\ 1 \in 1..Len(queue)
      /\ Len(queue) = n + 1 /\ n \in Nat
      /\ \A i \in 1..n : queue'[i] = queue[i + 1]
      /\ \A x \in Monitors, i \in 0..n :
           IdleAfter(queue', idles', x, i) <=> IdleAfter(queue, idles, x, i + 1)
  BY <1>1, DeliverBelieves
<1>3. /\ expired' = expired /\ inhibited' = inhibited /\ queue # <<>>
      /\ idles' = IF idle THEN idles \cup {m} ELSE idles \ {m}
  BY DEF Deliver
<1> HIDE DEF n
<1>4. WordInv'
  <2>1. n \in 0..n
    BY <1>2
  <2>2. \A x \in Monitors : x \in expired' <=> IdleAfter(queue', idles', x, n)
    BY <1>2, <1>3, <2>1 DEF WordInv
  <2> QED
    BY <2>2 DEF WordInv, n
<1>5. OrderInv'
  <2>1. ASSUME NEW i \in 1..n, Says(queue', i, "idle", TRUE)
        PROVE  IdleAfter(queue', idles', "activity", i - 1)
    <3>1. /\ i + 1 \in 1..Len(queue) /\ (i + 1) - 1 = i /\ i - 1 \in 0..n
          /\ (i - 1) + 1 = i
      BY <1>2
    <3>2. Says(queue, i + 1, "idle", TRUE)
      BY <1>2, <2>1 DEF Says
    <3>3. IdleAfter(queue, idles, "activity", i)
      BY <3>1, <3>2 DEF OrderInv
    <3> QED
      BY <1>2, <3>1, <3>3 DEF Monitors
  <2> QED
    BY <2>1 DEF OrderInv, n
<1>6. QuietInv'
  BY <1>3 DEF QuietInv
<1>7. ASSUME m = "idle", idle = TRUE
      PROVE  "activity" \in idles
  <2>1. Says(queue, 1, "idle", TRUE)
    BY <1>2, <1>7, Zenon
  <2>2. IdleAfter(queue, idles, "activity", 1 - 1)
    BY <1>2, <2>1 DEF OrderInv
  <2>3. \A j \in 1..(1 - 1) : FALSE
    OBVIOUS
  <2> QED
    BY <2>2, <2>3 DEF IdleAfter
<1>8. accepted /\ idles' \subseteq Monitors
  BY <1>1, <1>3 DEF TypeOK
<1> QED
  BY <1>2, <1>4, <1>5, <1>6, <1>7, <1>8

\* What InhibitedBy makes of the monitors it does not look at, and of none.
LEMMA InhibitedByTwo ==
  ASSUME NEW is, NEW it,
         "activity" \in is <=> "activity" \in it,
         "aware" \in is <=> "aware" \in it
  PROVE  InhibitedBy(is) = InhibitedBy(it)
BY DEF InhibitedBy

\* The handlers of the monitors.
LEMMA HandlersInv ==
  ASSUME TypeOK, QueueInv, BeliefInv, NEW idle \in BOOLEAN,
         HandleActivity(idle) \/ HandleAware(idle) \/ HandleIdle(idle)
  PROVE  TypeOK' /\ QueueInv' /\ BeliefInv'
<1>1. PICK m \in Monitors : Deliver(m, idle)
  BY DEF HandleActivity, HandleAware, HandleIdle, Monitors
<1>2. /\ queue' \in Seq(Notification) /\ QueueInv'
      /\ accepted /\ idles' \subseteq Monitors
  BY <1>1, DeliveryInv
<1>3. /\ expired' = expired /\ inhibited' = inhibited /\ toggle' = toggle
      /\ accepted' = accepted /\ policy' = policy /\ contract' = contract
      /\ systemPolicy' = systemPolicy /\ stayAwake' = stayAwake
      /\ executing' = executing /\ starting' = starting
  BY <1>1 DEF Deliver, policyVars
<1>4. SUFFICES /\ probe' \in {"off", "started", "said on", "said off", "failed"}
               /\ baseline' \in BOOLEAN /\ fresh' \in BOOLEAN /\ rearm' \in BOOLEAN
               /\ inhibitedSeen' \in BOOLEAN /\ evaluating' \in BOOLEAN
               /\ since' \in {"none", "input", "idled"}
               /\ evaluating' => "idle" \in idles' /\ probe' # "off"
               /\ BeliefInv'
  BY <1>2, <1>3 DEF TypeOK
<1>5. InhibitedBy(idles)' = InhibitedBy(idles')
  BY <1>3 DEF InhibitedBy
<1>6. InhibitedBy(idles') \in BOOLEAN
  BY <1>2 DEF InhibitedBy, TypeOK
<1>7. CASE HandleActivity(idle)
  <2>1. /\ inhibitedSeen' = InhibitedBy(idles') /\ baseline' = (baseline \/ idle)
        /\ since' = IF ~idle /\ baseline /\ ~executing THEN "input" ELSE since
        /\ probe' = probe
        /\ idles' = IF idle THEN idles \cup {"activity"} ELSE idles \ {"activity"}
    BY <1>7 DEF HandleActivity, Deliver
  <2>2. /\ "idle" \in idles' <=> "idle" \in idles
        /\ "activity" \in idles' <=> idle
    BY <2>1
  <2>3. CASE ~idle /\ baseline /\ ~executing
    <3>1. evaluating' = FALSE /\ fresh' = TRUE /\ rearm' = FALSE
      BY <1>7, <2>3 DEF HandleActivity, ObserveFreshActivity
    <3> QED
      BY <1>3, <1>5, <1>6, <2>1, <2>2, <2>3, <3>1 DEF TypeOK, BeliefInv
  <2>4. CASE ~(~idle /\ baseline /\ ~executing)
    <3>1. evaluating' = evaluating /\ fresh' = fresh /\ rearm' = rearm
      BY <1>7, <2>4 DEF HandleActivity
    <3> QED
      BY <1>3, <1>5, <1>6, <2>1, <2>2, <2>4, <3>1 DEF TypeOK, BeliefInv
  <2> QED
    BY <2>3, <2>4
<1>8. CASE HandleAware(idle)
  <2>1. /\ inhibitedSeen' = InhibitedBy(idles')
        /\ probe' = probe /\ baseline' = baseline /\ fresh' = fresh
        /\ rearm' = rearm /\ since' = since /\ evaluating' = evaluating
        /\ idles' = IF idle THEN idles \cup {"aware"} ELSE idles \ {"aware"}
    BY <1>8 DEF HandleAware, Deliver, latchVars
  <2>2. /\ "idle" \in idles' <=> "idle" \in idles
        /\ "activity" \in idles' <=> "activity" \in idles
    BY <2>1
  <2> QED
    BY <1>3, <1>5, <1>6, <2>1, <2>2 DEF TypeOK, BeliefInv
<1>9. CASE HandleIdle(idle)
  <2>1. /\ baseline' = baseline /\ inhibitedSeen' = inhibitedSeen
        /\ fresh' = fresh /\ rearm' = rearm
        /\ Deliver("idle", idle)
        /\ idles' = IF idle THEN idles \cup {"idle"} ELSE idles \ {"idle"}
    BY <1>9 DEF HandleIdle, Deliver
  <2>2. /\ "activity" \in idles' <=> "activity" \in idles
        /\ "aware" \in idles' <=> "aware" \in idles
        /\ "idle" \in idles' <=> idle
    BY <2>1
  <2>3. InhibitedBy(idles') = InhibitedBy(idles)
    BY <2>2, InhibitedByTwo
  <2>4. since' \in {"none", "input", "idled"}
    <3>1. since \in {"none", "input", "idled"}
      BY DEF TypeOK
    <3>2. since' = CASE idle /\ since = "input" -> "idled"
                     [] ~idle /\ since = "idled" -> "input"
                     [] OTHER -> since
      BY <1>9 DEF HandleIdle
    <3> QED
      BY <3>1, <3>2
  <2>5. CASE idle
    <3>1. "activity" \in idles
      BY <2>1, <2>5, DeliveryInv DEF Monitors
    <3>2. BeginEvaluation
      BY <1>9, <2>5 DEF HandleIdle
    <3>3. /\ probe' \in {"off", "started", "said on", "said off", "failed"}
          /\ evaluating' \in BOOLEAN /\ (evaluating' => probe' # "off")
      BY <3>2 DEF BeginEvaluation, TypeOK
    <3> QED
      BY <1>3, <1>5, <2>1, <2>2, <2>3, <2>4, <2>5, <3>1, <3>3
      DEF TypeOK, BeliefInv
  <2>6. CASE ~idle
    <3>1. evaluating' = FALSE /\ probe' = probe
      BY <1>9, <2>6 DEF HandleIdle
    <3> QED
      BY <1>3, <1>5, <2>1, <2>2, <2>3, <2>4, <2>6, <3>1 DEF TypeOK, BeliefInv
  <2> QED
    BY <2>5, <2>6
<1> QED
  BY <1>7, <1>8, <1>9

\* Monitors made anew have nothing to say and nothing on its way.
LEMMA RenewedInv ==
  ASSUME TypeOK, QueueInv, NEW ms \in SUBSET Monitors, "idle" \in ms,
         Renewed(ms), UNCHANGED inhibited
  PROVE  /\ expired' \subseteq Monitors /\ idles' = idles \ ms
         /\ queue' \in Seq(Notification) /\ QueueInv'
         /\ evaluating' = FALSE
         /\ ms = Monitors => queue' = <<>>
         /\ queue = <<>> => queue' = <<>>
<1> USE DEF QueueInv
<1> DEFINE n == Len(queue')
<1>1. queue \in Seq(Notification) /\ expired \subseteq Monitors
  BY DEF TypeOK
<1>2. expired' = expired \ ms /\ Forget(ms) /\ idles' = idles \ ms
  BY DEF Renewed
<1>3. evaluating' = FALSE
  BY DEF Renewed
<1>4. /\ queue' \in Seq(Notification) /\ n \in Nat
      /\ \A i \in 1..n : queue'[i].monitor \notin ms
      /\ \A m \in Monitors :
           IdleAfter(queue', idles \ ms, m, n)
             <=> m \notin ms /\ IdleAfter(queue, idles, m, Len(queue))
  BY <1>1, <1>2, ForgetKeepsOthers
<1>5. \A i \in 1..n : queue'[i] \in Notification
  BY <1>4
<1>6. WordInv'
  <2>1. \A m \in Monitors : m \in expired' <=> IdleAfter(queue', idles', m, n)
    BY <1>2, <1>4 DEF WordInv
  <2> QED
    BY <2>1 DEF WordInv
<1> HIDE DEF n
<1>7. OrderInv'
  <2>1. \A i \in 1..n : ~Says(queue', i, "idle", TRUE)
    BY <1>4 DEF Says
  <2> QED
    BY <2>1 DEF OrderInv, n
<1>8. QuietInv'
  BY <1>2 DEF QuietInv
<1>9. ASSUME ms = Monitors \/ queue = <<>>
      PROVE  queue' = <<>>
  <2>1. CASE ms = Monitors
    <3>1. ASSUME NEW i \in 1..n PROVE FALSE
      <4>1. queue'[i].monitor \in Monitors
        BY <1>5 DEF Notification
      <4> QED
        BY <1>4, <2>1, <4>1
    <3>2. n = 0
      BY <1>4, <3>1
    <3> QED
      BY <1>4, <3>2 DEF n
  <2>2. CASE queue = <<>>
    <3>1. {i \in 1..Len(queue) : queue[i].monitor \notin ms} = {}
      BY <2>2
    <3>2. Cardinality({i \in 1..Len(queue) : queue[i].monitor \notin ms}) = 0
      BY <3>1, FS_EmptySet
    <3>3. PICK kept \in Bijection(1..0, {i \in 1..Len(queue) : queue[i].monitor \notin ms}) :
            queue' = [i \in 1..0 |-> queue[kept[i]]]
      BY <1>2, <3>2 DEF Forget
    <3> QED
      BY <3>3
  <2> QED
    BY <1>9, <2>1, <2>2
<1> QED
  BY <1>1, <1>2, <1>3, <1>4, <1>6, <1>7, <1>8, <1>9 DEF n

\* Policies.
LEMMA PolicyInv ==
  ASSUME TypeOK, QueueInv, BeliefInv,
         \/ PolicyRejected
         \/ \E enablement \in {"disabled", "enabled"}, retimed \in BOOLEAN :
              PolicyTaken(enablement, retimed)
  PROVE  TypeOK' /\ QueueInv' /\ BeliefInv'
<1>1. CASE PolicyRejected
  <2>1. /\ accepted' = FALSE /\ Renewed(Monitors) /\ baseline' = FALSE
        /\ inhibitedSeen' = FALSE
        /\ since' = IF since = "idled" THEN "input" ELSE since
        /\ inhibited' = inhibited /\ toggle' = toggle /\ probe' = probe
        /\ policy' = policy /\ contract' = contract /\ systemPolicy' = systemPolicy
        /\ fresh' = fresh /\ rearm' = rearm /\ stayAwake' = stayAwake
        /\ executing' = executing /\ starting' = starting
    BY <1>1 DEF PolicyRejected
  <2>2. Monitors \in SUBSET Monitors /\ "idle" \in Monitors
    BY DEF Monitors
  <2>3. /\ expired' \subseteq Monitors /\ idles' = idles \ Monitors
        /\ queue' \in Seq(Notification) /\ QueueInv'
        /\ evaluating' = FALSE /\ queue' = <<>>
    BY <2>1, <2>2, RenewedInv
  <2>4. idles' = {}
    BY <2>3 DEF TypeOK
  <2>5. TypeOK'
    <3>1. /\ inhibited' \in BOOLEAN /\ toggle' \in BOOLEAN
          /\ systemPolicy' \in BOOLEAN /\ fresh' \in BOOLEAN
          /\ rearm' \in BOOLEAN /\ executing' \in BOOLEAN
      BY <2>1 DEF TypeOK
    <3>2. /\ probe' \in {"off", "started", "said on", "said off", "failed"}
          /\ policy' \in {"none", "disabled", "enabled"}
          /\ contract' \in {"pending", "ready", "incompatible"}
          /\ stayAwake' \in {"unknown", "on", "off"}
          /\ starting' \subseteq {"latch", "history"}
          /\ since' \in {"none", "input", "idled"}
      BY <2>1 DEF TypeOK
    <3> QED
      BY <2>1, <2>3, <2>4, <3>1, <3>2 DEF TypeOK
  <2>6. BeliefInv'
    BY <2>1, <2>3, <2>4 DEF TypeOK, BeliefInv, InhibitedBy
  <2> QED
    BY <2>3, <2>5, <2>6
<1>2. ASSUME NEW enablement \in {"disabled", "enabled"}, NEW retimed \in BOOLEAN,
             PolicyTaken(enablement, retimed)
      PROVE  TypeOK' /\ QueueInv' /\ BeliefInv'
  <2>1. /\ accepted' = TRUE /\ policy' = enablement
        /\ inhibited' = inhibited /\ toggle' = toggle /\ probe' = probe
        /\ baseline' = baseline /\ inhibitedSeen' = inhibitedSeen
        /\ contract' = contract /\ systemPolicy' = systemPolicy
        /\ stayAwake' = stayAwake
        /\ executing' = executing /\ starting' = starting
    BY <1>2 DEF PolicyTaken
  <2>2. /\ fresh' \in BOOLEAN /\ rearm' \in BOOLEAN
        /\ since' \in {"none", "input", "idled"}
        /\ rearm => rearm'
        /\ fresh' /\ ~rearm' => fresh /\ ~rearm
    <3>1. CASE policy # "none" /\ (policy # enablement \/ retimed)
      BY <1>2, <3>1 DEF PolicyTaken, RequireFreshActivity
    <3>2. CASE ~(policy # "none" /\ (policy # enablement \/ retimed))
      <4>1. /\ fresh' = fresh /\ rearm' = rearm
            /\ since' = IF retimed /\ since = "idled" THEN "input" ELSE since
        BY <1>2, <3>2 DEF PolicyTaken
      <4> QED
        BY <4>1 DEF TypeOK
    <3> QED
      BY <3>1, <3>2
  <2>3. /\ expired' \subseteq Monitors /\ idles' \subseteq idles
        /\ queue' \in Seq(Notification) /\ QueueInv'
        /\ "activity" \in idles' <=> "activity" \in idles
        /\ "aware" \in idles' <=> "aware" \in idles
        /\ evaluating' \in BOOLEAN
        /\ evaluating' => evaluating /\ "idle" \in idles'
    <3>1. CASE retimed
      <4>1. Renewed({"idle"}) /\ {"idle"} \in SUBSET Monitors
        BY <1>2, <3>1 DEF PolicyTaken, Monitors
      <4>2. /\ expired' \subseteq Monitors /\ idles' = idles \ {"idle"}
            /\ queue' \in Seq(Notification) /\ QueueInv' /\ evaluating' = FALSE
        BY <2>1, <4>1, RenewedInv
      <4> QED
        BY <4>2
    <3>2. CASE ~retimed
      <4>1. /\ expired' = expired /\ queue' = queue /\ idles' = idles
            /\ evaluating' = evaluating
        BY <1>2, <3>2 DEF PolicyTaken
      <4> QED
        BY <2>1, <4>1 DEF TypeOK, QueueInv, WordInv, OrderInv, QuietInv
    <3> QED
      BY <3>1, <3>2
  <2>4. TypeOK'
    <3>1. /\ inhibited' \in BOOLEAN /\ toggle' \in BOOLEAN
          /\ baseline' \in BOOLEAN /\ inhibitedSeen' \in BOOLEAN
          /\ systemPolicy' \in BOOLEAN /\ executing' \in BOOLEAN
      BY <2>1 DEF TypeOK
    <3>2. /\ probe' \in {"off", "started", "said on", "said off", "failed"}
          /\ contract' \in {"pending", "ready", "incompatible"}
          /\ stayAwake' \in {"unknown", "on", "off"}
          /\ starting' \subseteq {"latch", "history"}
          /\ idles' \subseteq Monitors
          /\ evaluating' => probe' # "off"
      BY <2>1, <2>3 DEF TypeOK
    <3>3. accepted' /\ policy' \in {"none", "disabled", "enabled"} /\ policy' # "none"
      BY <2>1
    <3> QED
      BY <2>1, <2>2, <2>3, <3>1, <3>2, <3>3 DEF TypeOK
  <2>5. inhibitedSeen' = InhibitedBy(idles)'
    <3>1. CASE accepted
      BY <2>1, <2>3, <3>1 DEF BeliefInv, InhibitedBy
    <3>2. CASE ~accepted
      BY <2>1, <2>3, <3>2 DEF TypeOK, InhibitedBy
    <3> QED
      BY <3>1, <3>2
  <2>6. BeliefInv'
    BY <2>1, <2>2, <2>3, <2>5 DEF BeliefInv
  <2> QED
    BY <2>3, <2>4, <2>6
<1> QED
  BY <1>1, <1>2

\* Beliefs that nothing touches keep to each other.
LEMMA UndisturbedMonitors ==
  ASSUME TypeOK, BeliefInv,
         idles' = idles, queue' = queue, baseline' = baseline,
         inhibitedSeen' = inhibitedSeen, accepted' = accepted, policy' = policy
  PROVE  /\ accepted' => policy' # "none"
         /\ ~accepted' => idles' = {} /\ queue' = <<>> /\ ~baseline' /\ ~inhibitedSeen'
         /\ inhibitedSeen' = InhibitedBy(idles)'
<1>1. /\ accepted' => policy' # "none"
      /\ ~accepted' => idles' = {} /\ queue' = <<>> /\ ~baseline' /\ ~inhibitedSeen'
  BY DEF TypeOK
<1>2. inhibitedSeen' = InhibitedBy(idles)'
  BY DEF BeliefInv, InhibitedBy
<1> QED
  BY <1>1, <1>2

\* What goes on without the monitors: nothing of it releases the latch or
\* starts an evaluation, and an attempt begins with the latch spent.
LEMMA QuietStepInv ==
  ASSUME TypeOK, QueueInv, BeliefInv,
         UNCHANGED <<compositorVars, toggle, monitorVars, accepted, policy>>,
         probe' \in {"off", "started", "said on", "said off", "failed"},
         contract' \in {"pending", "ready", "incompatible"},
         systemPolicy' \in BOOLEAN,
         stayAwake' \in {"unknown", "on", "off"},
         starting' \subseteq {"latch", "history"},
         evaluating' \in BOOLEAN, evaluating' => evaluating /\ probe' # "off",
         executing' \in BOOLEAN, executing' => rearm',
         \/ fresh' = fresh /\ rearm' = rearm /\ since' = since
         \/ fresh' \in BOOLEAN /\ (fresh' => fresh) /\ rearm' = TRUE /\ since' = "none"
  PROVE  TypeOK' /\ QueueInv' /\ BeliefInv'
<1>1. /\ expired' = expired /\ inhibited' = inhibited /\ queue' = queue
      /\ toggle' = toggle /\ idles' = idles /\ baseline' = baseline
      /\ inhibitedSeen' = inhibitedSeen /\ accepted' = accepted /\ policy' = policy
  BY DEF compositorVars, monitorVars
<1>2. /\ fresh' \in BOOLEAN /\ rearm' \in BOOLEAN
      /\ since' \in {"none", "input", "idled"}
      /\ fresh' /\ ~rearm' => fresh /\ ~rearm
  <2>1. CASE fresh' = fresh /\ rearm' = rearm /\ since' = since
    BY <2>1 DEF TypeOK
  <2>2. CASE fresh' \in BOOLEAN /\ (fresh' => fresh) /\ rearm' = TRUE /\ since' = "none"
    <3>1. fresh' \in BOOLEAN
      BY <2>2 DEF TypeOK
    <3> QED
      BY <2>2, <3>1
  <2> QED
    BY <2>1, <2>2
<1>3. TypeOK'
  <2>1. /\ inhibited' \in BOOLEAN /\ toggle' \in BOOLEAN /\ accepted' \in BOOLEAN
        /\ baseline' \in BOOLEAN /\ inhibitedSeen' \in BOOLEAN
    BY <1>1 DEF TypeOK
  <2>2. /\ expired' \subseteq Monitors /\ queue' \in Seq(Notification)
        /\ idles' \subseteq Monitors /\ policy' \in {"none", "disabled", "enabled"}
    BY <1>1 DEF TypeOK
  <2>3. /\ accepted' => policy' # "none"
        /\ ~accepted' => idles' = {} /\ queue' = <<>> /\ ~baseline' /\ ~inhibitedSeen'
        /\ evaluating' => "idle" \in idles' /\ probe' # "off"
    <3>1. /\ accepted' => policy' # "none"
          /\ ~accepted' => idles' = {} /\ queue' = <<>> /\ ~baseline' /\ ~inhibitedSeen'
      BY <1>1, UndisturbedMonitors
    <3>2. evaluating => "idle" \in idles'
      BY <1>1 DEF TypeOK
    <3> QED
      BY <3>1, <3>2
  <2> QED
    BY <1>2, <2>1, <2>2, <2>3 DEF TypeOK
<1>4. QueueInv'
  BY <1>1 DEF QueueInv, WordInv, OrderInv, QuietInv
<1>5. BeliefInv'
  <2>1. inhibitedSeen' = InhibitedBy(idles)'
    BY <1>1, UndisturbedMonitors
  <2> QED
    BY <1>1, <1>2, <2>1 DEF BeliefInv
<1> QED
  BY <1>3, <1>4, <1>5

\* A request begins an attempt only with the latch spent.
LEMMA RequestSleepSpends ==
  ASSUME TypeOK, BeliefInv, RequestSleep \/ UNCHANGED <<executing, latchVars>>
  PROVE  /\ executing' \in BOOLEAN /\ (executing' => rearm')
         /\ \/ fresh' = fresh /\ rearm' = rearm /\ since' = since
            \/ fresh' \in BOOLEAN /\ (fresh' => fresh) /\ rearm' = TRUE /\ since' = "none"
<1>1. CASE UNCHANGED <<executing, latchVars>>
  BY <1>1 DEF TypeOK, BeliefInv, latchVars
<1>2. CASE executing' \in BOOLEAN /\ SpendLatch
  <2>1. fresh \in BOOLEAN /\ fresh' = fresh /\ rearm' = TRUE /\ since' = "none"
    BY <1>2 DEF SpendLatch, TypeOK
  <2>2. fresh' \in BOOLEAN /\ (fresh' => fresh)
    BY <2>1
  <2> QED
    BY <1>2, <2>1, <2>2
<1> QED
  BY <1>1, <1>2 DEF RequestSleep

\* The Stay Awake probe, and the evaluations it ends.
LEMMA ProbeInv ==
  ASSUME TypeOK, QueueInv, BeliefInv, Poll \/ ProbeReads \/ ProbeExits
  PROVE  TypeOK' /\ QueueInv' /\ BeliefInv'
<1>1. /\ UNCHANGED <<compositorVars, toggle, monitorVars, accepted, policy>>
      /\ contract' = contract /\ systemPolicy' = systemPolicy /\ starting' = starting
  BY DEF Poll, ProbeReads, ProbeExits, insideProbe, policyVars
<1>2. /\ contract' \in {"pending", "ready", "incompatible"}
      /\ systemPolicy' \in BOOLEAN /\ starting' \subseteq {"latch", "history"}
  BY <1>1 DEF TypeOK
<1>3. CASE Poll \/ ProbeReads
  <2>1. /\ UNCHANGED <<executing, latchVars>>
        /\ stayAwake' = stayAwake /\ evaluating' = evaluating
    BY <1>3 DEF Poll, ProbeReads
  <2>2. probe' \in {"off", "started", "said on", "said off", "failed"} /\ probe' # "off"
    <3>1. CASE Poll
      BY <3>1 DEF Poll
    <3>2. CASE ProbeReads
      BY <3>2 DEF ProbeReads
    <3> QED
      BY <1>3, <3>1, <3>2
  <2>3. /\ stayAwake' \in {"unknown", "on", "off"} /\ evaluating' \in BOOLEAN
        /\ evaluating' => evaluating
    BY <2>1 DEF TypeOK
  <2> QED
    BY <1>1, <1>2, <2>1, <2>2, <2>3, RequestSleepSpends, QuietStepInv
<1>4. CASE ProbeExits
  <2>1. PICK reading \in {"on", "off", "unknown"} : FinishEvaluation(reading)
    BY <1>4 DEF ProbeExits
  <2>2. /\ probe' = "off" /\ stayAwake' \in {"unknown", "on", "off"}
        /\ evaluating' = FALSE
        /\ RequestSleep \/ UNCHANGED <<executing, latchVars>>
    BY <1>4, <2>1 DEF ProbeExits, FinishEvaluation
  <2>3. evaluating' \in BOOLEAN /\ (evaluating' => evaluating /\ probe' # "off")
    BY <2>2
  <2> QED
    BY <1>1, <1>2, <2>2, <2>3, RequestSleepSpends, QuietStepInv
<1> QED
  BY <1>3, <1>4

\* Attempts, resets and what is loaded.
LEMMA AttemptsInv ==
  ASSUME TypeOK, QueueInv, BeliefInv,
         \/ ManualRequest \/ AttemptEnds \/ ResetHistory
         \/ \E what \in starting : FinishLoading(what)
         \/ LoadContractProbe \/ LoadSystemPolicy
  PROVE  TypeOK' /\ QueueInv' /\ BeliefInv'
<1>1. /\ UNCHANGED elsewhere /\ UNCHANGED <<accepted, policy>>
  BY DEF ManualRequest, AttemptEnds, ResetHistory, FinishLoading,
         LoadContractProbe, LoadSystemPolicy, policyVars
<1>2. /\ UNCHANGED <<compositorVars, toggle, monitorVars, accepted, policy>>
      /\ probe' = probe /\ stayAwake' = stayAwake /\ evaluating' = evaluating
  BY <1>1 DEF elsewhere
<1>3. /\ probe' \in {"off", "started", "said on", "said off", "failed"}
      /\ stayAwake' \in {"unknown", "on", "off"}
      /\ evaluating' \in BOOLEAN /\ (evaluating' => evaluating /\ probe' # "off")
  BY <1>2 DEF TypeOK
<1> DEFINE Latch ==
      /\ executing' \in BOOLEAN /\ (executing' => rearm')
      /\ \/ fresh' = fresh /\ rearm' = rearm /\ since' = since
         \/ fresh' \in BOOLEAN /\ (fresh' => fresh) /\ rearm' = TRUE /\ since' = "none"
      /\ contract' \in {"pending", "ready", "incompatible"}
      /\ systemPolicy' \in BOOLEAN /\ starting' \subseteq {"latch", "history"}
<1>4. SUFFICES Latch
  BY <1>2, <1>3, QuietStepInv
<1>5. CASE ManualRequest
  <2>1. RequestSleep /\ contract' = contract /\ systemPolicy' = systemPolicy
        /\ starting' = starting
    BY <1>5 DEF ManualRequest, policyVars
  <2> QED
    BY <2>1, RequestSleepSpends DEF TypeOK
<1>6. CASE AttemptEnds
  <2>1. executing' = FALSE /\ fresh' = fresh /\ rearm' = rearm /\ since' = since
        /\ contract' = contract /\ systemPolicy' = systemPolicy
        /\ starting' = starting
    BY <1>6 DEF AttemptEnds, policyVars, latchVars
  <2> QED
    BY <2>1 DEF TypeOK
<1>7. CASE ResetHistory
  <2>1. executing' = executing /\ fresh' = FALSE /\ rearm' = TRUE /\ since' = "none"
        /\ contract' = contract /\ systemPolicy' = systemPolicy
        /\ starting' = starting \ {"history"}
    BY <1>7 DEF ResetHistory, policyVars, RequireFreshActivity
  <2> QED
    BY <2>1 DEF TypeOK
<1>8. CASE \E what \in starting : FinishLoading(what)
  <2>1. PICK what \in starting : FinishLoading(what)
    BY <1>8
  <2>2. contract' = contract /\ systemPolicy' = systemPolicy
        /\ starting' = starting \ {what}
    BY <2>1 DEF FinishLoading, policyVars
  <2>3. CASE RequireFreshActivity /\ UNCHANGED executing
    BY <2>2, <2>3 DEF TypeOK, RequireFreshActivity
  <2>4. CASE SpendLatch /\ executing' = FALSE
    BY <2>2, <2>4 DEF TypeOK, SpendLatch
  <2>5. CASE UNCHANGED <<latchVars, executing>>
    <3>1. executing' = executing /\ fresh' = fresh /\ rearm' = rearm /\ since' = since
      BY <2>5 DEF latchVars
    <3> QED
      BY <2>2, <3>1 DEF TypeOK, BeliefInv
  <2> QED
    BY <2>1, <2>3, <2>4, <2>5 DEF FinishLoading
<1>9. CASE LoadContractProbe
  <2>1. executing' = executing /\ fresh' = fresh /\ rearm' = rearm /\ since' = since
        /\ contract' \in {"ready", "incompatible"} /\ systemPolicy' = systemPolicy
        /\ starting' = starting
    BY <1>9 DEF LoadContractProbe, latchVars
  <2> QED
    BY <2>1 DEF TypeOK, BeliefInv
<1>10. CASE LoadSystemPolicy
  <2>1. executing' = executing /\ contract' = contract /\ starting' = starting
    BY <1>10 DEF LoadSystemPolicy
  <2>2. CASE systemPolicy' \in BOOLEAN /\ RequireFreshActivity
    BY <2>1, <2>2 DEF TypeOK, RequireFreshActivity
  <2>3. CASE systemPolicy' = FALSE /\ UNCHANGED latchVars
    <3>1. fresh' = fresh /\ rearm' = rearm /\ since' = since
      BY <2>3 DEF latchVars
    <3> QED
      BY <2>1, <2>3, <3>1 DEF TypeOK, BeliefInv
  <2> QED
    BY <1>10, <2>2, <2>3 DEF LoadSystemPolicy
<1> QED
  BY <1>5, <1>6, <1>7, <1>8, <1>9, <1>10

\* A service that begins again.
LEMMA ReloadInv ==
  ASSUME TypeOK, QueueInv, BeliefInv, Reload
  PROVE  TypeOK' /\ QueueInv' /\ BeliefInv'
<1>1. /\ expired' = {} /\ queue' = <<>> /\ probe' = "off" /\ idles' = {}
      /\ accepted' = FALSE /\ policy' = "none" /\ contract' = "pending"
      /\ systemPolicy' = FALSE /\ baseline' = FALSE /\ fresh' = FALSE
      /\ rearm' = TRUE /\ since' = "none" /\ inhibitedSeen' = FALSE
      /\ stayAwake' = "unknown" /\ evaluating' = FALSE /\ executing' = FALSE
      /\ starting' = {"latch", "history"} /\ inhibited' = inhibited
      /\ toggle' = toggle
  BY DEF Reload, RequireFreshActivity
<1>2. queue' \in Seq(Notification) /\ Len(queue') = 0
  BY <1>1
<1>3. TypeOK'
  BY <1>1, <1>2 DEF TypeOK
<1>4. WordInv' /\ OrderInv' /\ QuietInv'
  <2>1. \A m \in Monitors : ~IdleAfter(queue', idles', m, 0)
    BY <1>1 DEF IdleAfter
  <2> QED
    BY <1>1, <1>2, <2>1 DEF WordInv, OrderInv, QuietInv
<1>5. BeliefInv'
  BY <1>1 DEF BeliefInv, InhibitedBy
<1> QED
  BY <1>3, <1>4, <1>5 DEF QueueInv

\* The invariant behind both theorems that follow.
MonitorsInv == TypeOK /\ QueueInv /\ BeliefInv

\* At the start nothing is on its way and nothing is believed.
LEMMA InitMonitorsInv == Init => MonitorsInv
<1> SUFFICES ASSUME Init PROVE MonitorsInv
  OBVIOUS
<1>1. queue = <<>> /\ <<>> \in Seq(Notification) /\ Len(queue) = 0
  BY DEF Init
<1>2. TypeOK
  BY <1>1 DEF Init, TypeOK
<1>3. \A m \in Monitors : ~IdleAfter(queue, idles, m, 0)
  BY <1>1 DEF Init, IdleAfter
<1>4. QueueInv
  BY <1>1, <1>3 DEF Init, QueueInv, WordInv, OrderInv, QuietInv
<1>5. BeliefInv
  BY DEF Init, BeliefInv, InhibitedBy
<1> QED
  BY <1>2, <1>4, <1>5 DEF MonitorsInv

\* MonitorsInv is inductive.
LEMMA NextMonitorsInv ==
  ASSUME MonitorsInv, [Next]_vars
  PROVE  MonitorsInv'
<1> USE DEF MonitorsInv
<1>1. CASE Input \/ (\E m \in Monitors : Expire(m)) \/ Inhibit \/ Uninhibit
             \/ StayAwakeToggled
  <2>1. TypeOK' /\ QueueInv'
    BY <1>1, CompositorInv
  <2>2. Outside
    BY <1>1 DEF Input, Expire, Inhibit, Uninhibit, StayAwakeToggled
  <2>3. /\ idles' = idles /\ baseline' = baseline /\ inhibitedSeen' = inhibitedSeen
        /\ accepted' = accepted /\ fresh' = fresh /\ rearm' = rearm
        /\ evaluating' = evaluating /\ executing' = executing
    BY <2>2 DEF Outside, monitorVars, policyVars, latchVars
  <2>4. BeliefInv'
    BY <2>3 DEF BeliefInv, InhibitedBy
  <2> QED
    BY <2>1, <2>4
<1>2. CASE \E idle \in BOOLEAN :
             HandleActivity(idle) \/ HandleAware(idle) \/ HandleIdle(idle)
  BY <1>2, HandlersInv
<1>3. CASE Poll \/ ProbeReads \/ ProbeExits
  BY <1>3, ProbeInv
<1>4. CASE \/ ManualRequest \/ AttemptEnds \/ ResetHistory
           \/ \E what \in starting : FinishLoading(what)
           \/ LoadContractProbe \/ LoadSystemPolicy
  BY <1>4, AttemptsInv
<1>5. CASE \/ PolicyRejected
           \/ \E enablement \in {"disabled", "enabled"}, retimed \in BOOLEAN :
                PolicyTaken(enablement, retimed)
  BY <1>5, PolicyInv
<1>6. CASE Reload
  BY <1>6, ReloadInv
<1>7. CASE UNCHANGED vars
  BY <1>7, QuietStepInv, RequestSleepSpends
  DEF vars, compositorVars, monitorVars, policyVars, latchVars, TypeOK, BeliefInv
<1> QED
  BY <1>1, <1>2, <1>3, <1>4, <1>5, <1>6, <1>7, Zenon DEF Next

\* Every variable keeps to its type; a service without an accepted policy
\* believes nothing of the user and has nothing to learn, and an evaluation
\* belongs to an idle period and to a probe that will end it.
THEOREM TriggerTypeCorrect == Spec => []TypeOK
<1>1. MonitorsInv => TypeOK
  BY DEF MonitorsInv
<1> QED
  BY <1>1, InitMonitorsInv, NextMonitorsInv, PTL DEF Spec

\* An answer that lets an attempt begin while an inhibitor is held: the
\* service believes both monitors that respect it idle, the compositor knows
\* better, so the difference is on its way.
LEMMA AttemptIsUninformed ==
  ASSUME MonitorsInv, AutomaticAttempt, inhibited, NEW m \in Respecting
  PROVE  Unhandled(m)
<1> USE DEF MonitorsInv
<1>1. PICK reading \in {"on", "off", "unknown"} : FinishEvaluation(reading)
  BY DEF AutomaticAttempt, ProbeExits
<1>2. evaluating /\ "idle" \in idles /\ Ready(reading)
  BY <1>1 DEF AutomaticAttempt, FinishEvaluation
<1>3. "activity" \in idles
  BY <1>2 DEF Ready, BeliefInv
<1>4. accepted /\ ~inhibitedSeen
  BY <1>2 DEF Ready
<1>5. "aware" \in idles
  BY <1>3, <1>4 DEF BeliefInv, InhibitedBy
<1>6. m \in idles /\ m \in Monitors
  BY <1>2, <1>5 DEF Respecting, Monitors
<1>7. m \notin expired
  BY DEF QueueInv, QuietInv
<1>8. ~IdleAfter(queue, idles, m, Len(queue))
  BY <1>6, <1>7 DEF QueueInv, WordInv
<1> QED
  BY <1>6, <1>8 DEF IdleAfter, Unhandled, Says

\* However much is on its way and in whatever order, an automatic attempt goes
\* out under an idle inhibitor only while both monitors that respect it have
\* word of it on its way (updateCompositorIdleInhibition, handleIdleChanged).
THEOREM InhibitorsHoldBack == Spec => InhibitorHoldsBack
<1>1. MonitorsInv /\ [Next]_vars
        => [AutomaticAttempt /\ inhibited => \A m \in Respecting : Unhandled(m)]_vars
  BY AttemptIsUninformed
<1> QED
  BY <1>1, InitMonitorsInv, NextMonitorsInv, PTL DEF Spec, InhibitorHoldsBack
=============================================================================
