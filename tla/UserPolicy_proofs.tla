-------------------------- MODULE UserPolicy_proofs --------------------------
(***************************************************************************)
(* A revision never stands for two policies while a service lives, so a    *)
(* save that is accepted was based on the policy it replaces.              *)
(***************************************************************************)
EXTENDS UserPolicy, TLAPS

USE DEF Unusable

-----------------------------------------------------------------------------
(***************************************************************************)
(* Types.                                                                  *)
(***************************************************************************)

\* What the service knows of the policy.
known == <<snapshot, accepted, pending>>

KnownOK ==
  /\ snapshot \in Policy \cup {None}
  /\ accepted \in BOOLEAN
  /\ pending \in Policy \cup {None}

\* None is not mistaken for a policy.
LEMMA NoneIsNoPolicy == None \notin Policy
BY UserPolicyAssumption DEF UserPolicyAssumption

\* The revision after the advertised one is a revision.
LEMMA NextRevisionType ==
  ASSUME snapshot \in Policy, NextRevision # None
  PROVE  /\ NextRevision = snapshot.revision + 1
         /\ NextRevision \in 1..MaxRevision
<1>1. snapshot.revision \in 1..MaxRevision /\ MaxRevision \in Nat
  BY UserPolicyAssumption DEF UserPolicyAssumption, Policy
<1> QED
  BY <1>1 DEF NextRevision

\* A policy that is considered leaves what the service knows in order.
LEMMA ConsiderType ==
  ASSUME KnownOK, NEW p \in Policy, NEW canonical \in BOOLEAN, Consider(p, canonical)
  PROVE  KnownOK'
<1>1. p.revision \in 1..MaxRevision /\ p.settings \in Settings /\ MaxRevision \in Nat
  BY UserPolicyAssumption DEF UserPolicyAssumption, Policy
<1>2. p.revision # MaxRevision => [p EXCEPT !.revision = @ + 1] \in Policy
  BY <1>1 DEF Policy
<1> QED
  BY <1>2 DEF KnownOK, Consider, Reject, Rewrite

\* Any text that is read does, too.
LEMMA LoadUserPolicyType ==
  ASSUME KnownOK, NEW text \in Text \cup {Malformed, Garbled}, LoadUserPolicy(text)
  PROVE  KnownOK'
<1>1. CASE UNCHANGED known
  BY <1>1 DEF known, KnownOK
<1>2. CASE Reject
  BY <1>2 DEF Reject, KnownOK
<1>3. CASE text \in Text /\ Consider(text.policy, text.canonical)
  BY <1>3, ConsiderType DEF Text
<1> QED
  BY <1>1, <1>2, <1>3 DEF LoadUserPolicy, known

\* So does a read that failed.
LEMMA LoadFailedType ==
  ASSUME KnownOK, NEW found, LoadFailed(found)
  PROVE  KnownOK'
<1>1. [revision |-> 1, settings |-> Default] \in Policy
  BY UserPolicyAssumption DEF UserPolicyAssumption, Policy
<1> QED
  BY <1>1 DEF KnownOK, LoadFailed, Reject, Rewrite

\* A write of a policy, ended well or not.
LEMMA WriteType ==
  ASSUME TypeOK, NEW p \in Policy, Saved(p) \/ SaveFailed(p)
  PROVE  /\ KnownOK'
         /\ (file \in Text \cup Unusable /\ edited \in BOOLEAN)'
<1>1. Canonical(p) \in Text
  BY DEF Canonical, Text
<1> QED
  BY <1>1 DEF TypeOK, KnownOK, Saved, SaveFailed

\* TypeOK is inductive.
LEMMA NextTypeOK ==
  ASSUME TypeOK, [Next]_vars
  PROVE  TypeOK'
<1> USE DEF TypeOK
<1>k. KnownOK
  BY DEF KnownOK
<1>1. CASE StartRead
  BY <1>1 DEF StartRead
<1>2. CASE FinishRead
  <2>1. reading \in Text \cup Unusable
    BY <1>2 DEF FinishRead
  <2>2. KnownOK'
    BY <1>2, <1>k, <2>1, LoadFailedType, LoadUserPolicyType DEF FinishRead
  <2> QED
    BY <1>2, <2>2 DEF FinishRead, KnownOK
<1>3. CASE ReadFails
  <2>1. KnownOK'
    BY <1>3, <1>k, LoadFailedType DEF ReadFails
  <2> QED
    BY <1>3, <2>1 DEF ReadFails, KnownOK
<1>4. CASE FinishWrite
  <2>1. pending \in Policy
    BY <1>4 DEF FinishWrite
  <2> QED
    BY <1>4, <2>1, WriteType DEF FinishWrite, KnownOK
<1>5. ASSUME NEW settings \in Settings, SaveUserPolicy(settings)
      PROVE  TypeOK'
  <2>1. CASE Reject /\ UNCHANGED <<file, edited, draft>>
    BY <1>5, <2>1 DEF SaveUserPolicy, Reject
  <2>2. CASE ~(Reject /\ UNCHANGED <<file, edited, draft>>)
    <3> DEFINE p == [revision |-> NextRevision, settings |-> settings]
    <3>1. /\ snapshot # None /\ NextRevision # None
          /\ WriteNow(p)
          /\ draft' = IF snapshot' = p THEN p ELSE draft
      BY <1>5, <2>2 DEF SaveUserPolicy
    <3>2. p \in Policy
      BY <3>1, NextRevisionType DEF Policy
    <3>3. /\ KnownOK'
          /\ (file \in Text \cup Unusable /\ edited \in BOOLEAN)'
      BY <3>1, <3>2, WriteType DEF WriteNow
    <3> QED
      BY <1>5, <3>1, <3>2, <3>3 DEF SaveUserPolicy, KnownOK
  <2> QED
    BY <2>1, <2>2
<1>6. CASE ResetUserPolicy
  <2> DEFINE p == [revision |-> IF snapshot = None THEN 1 ELSE NextRevision,
                   settings |-> Default]
  <2>1. p \in Policy
    BY <1>6, NextRevisionType, UserPolicyAssumption
    DEF ResetUserPolicy, UserPolicyAssumption, Policy
  <2>2. /\ KnownOK'
        /\ (file \in Text \cup Unusable /\ edited \in BOOLEAN)'
    BY <1>6, <2>1, WriteType DEF ResetUserPolicy, WriteNow
  <2> QED
    BY <1>6, <2>2 DEF ResetUserPolicy, KnownOK
<1>7. CASE Refresh \/ ProbePermission \/ Reload \/ Calm
  BY <1>7 DEF Refresh, ProbePermission, Reload, Calm
<1>8. ASSUME NEW text \in Text \cup Unusable, Edit(text)
      PROVE  TypeOK'
  BY <1>8 DEF Edit
<1>9. CASE UNCHANGED vars
  BY <1>9 DEF vars
<1> QED
  BY <1>1, <1>2, <1>3, <1>4, <1>5, <1>6, <1>7, <1>8, <1>9 DEF Next

\* The types of every variable hold always, for all settings and revisions.
THEOREM PolicyTypeCorrect == Spec => []TypeOK
<1>1. Init => TypeOK
  BY DEF Init, TypeOK
<1> QED
  BY <1>1, NextTypeOK, PTL DEF Spec

-----------------------------------------------------------------------------
(***************************************************************************)
(* Revisions.  A policy someone has seen is the advertised one or older,   *)
(* and one that is being written is the advertised one in canonical form   *)
(* or newer.                                                               *)
(***************************************************************************)
RevisionInv ==
  /\ draft # None => snapshot # None
  /\ draft # None => draft = snapshot \/ draft.revision < snapshot.revision
  /\ pending # None /\ snapshot # None =>
       pending = snapshot \/ snapshot.revision < pending.revision

\* The advertised policy is kept, or followed by one of a higher revision.
Advances ==
  /\ draft' = draft
  /\ snapshot # None =>
       snapshot' = snapshot \/ (snapshot' # None /\ snapshot.revision < snapshot'.revision)

\* Advancing keeps whatever was seen the advertised policy or older.
LEMMA AdvancesKeepsSeen ==
  ASSUME TypeOK, TypeOK', RevisionInv, Advances
  PROVE  /\ draft' # None => snapshot' # None
         /\ draft' # None => draft' = snapshot' \/ draft'.revision < snapshot'.revision
<1> SUFFICES ASSUME draft # None
             PROVE  /\ snapshot' # None
                    /\ draft = snapshot' \/ draft.revision < snapshot'.revision
  BY DEF Advances
<1>1. /\ snapshot # None
      /\ draft = snapshot \/ draft.revision < snapshot.revision
  BY DEF RevisionInv
<1>2. CASE snapshot' = snapshot
  BY <1>1, <1>2
<1>3. CASE snapshot' # None /\ snapshot.revision < snapshot'.revision
  <2>1. /\ draft.revision \in 1..MaxRevision
        /\ snapshot.revision \in 1..MaxRevision
        /\ snapshot'.revision \in 1..MaxRevision
    BY <1>1, <1>3 DEF TypeOK, Policy
  <2>2. MaxRevision \in Nat
    BY UserPolicyAssumption DEF UserPolicyAssumption
  <2> QED
    BY <1>1, <1>3, <2>1, <2>2
<1> QED
  BY <1>1, <1>2, <1>3 DEF Advances

\* A policy that is read replaces the advertised one only if it is the same,
\* or there was none; a rewrite is of the same one or of the next revision.
LEMMA ReadAdvances ==
  ASSUME TypeOK, TypeOK', RevisionInv, FinishRead \/ ReadFails
  PROVE  RevisionInv'
<1>1. draft' = draft
  BY DEF FinishRead, ReadFails
<1>2. CASE Reject \/ UNCHANGED known
  BY <1>1, <1>2 DEF Reject, known, RevisionInv
<1>3. CASE LoadFailed(Missing) \/ LoadFailed(None)
  BY <1>1, <1>3 DEF LoadFailed, Reject, Rewrite, RevisionInv
<1>4. ASSUME NEW p \in Policy, NEW canonical \in BOOLEAN, Consider(p, canonical),
             pending = None, ~Reject
      PROVE  RevisionInv'
  <2>1. /\ snapshot \in Policy \cup {None}
        /\ p.revision \in Nat
        /\ [p EXCEPT !.revision = @ + 1].revision = p.revision + 1
    BY <1>4, UserPolicyAssumption DEF UserPolicyAssumption, Policy, TypeOK
  <2>2. snapshot # None => p.revision = snapshot.revision
    BY <1>4 DEF Consider
  <2>3. snapshot # None /\ ~Changed(p) => p = snapshot
    <3> SUFFICES ASSUME snapshot # None, snapshot.settings = p.settings
                 PROVE  p = snapshot
      BY DEF Changed
    <3> QED
      BY <2>1, <2>2, <1>4 DEF Policy
  <2>4. CASE snapshot' = p /\ ~Changed(p) /\ UNCHANGED pending
    BY <1>1, <1>4, <2>3, <2>4, NoneIsNoPolicy DEF RevisionInv
  <2>5. CASE Rewrite(p) /\ ~Changed(p)
    BY <1>1, <2>3, <2>5 DEF RevisionInv, Rewrite
  <2>6. CASE Rewrite([p EXCEPT !.revision = @ + 1]) /\ Changed(p)
    BY <1>1, <2>1, <2>2, <2>6 DEF RevisionInv, Rewrite
  <2> QED
    BY <1>4, <2>4, <2>5, <2>6 DEF Consider
<1>5. reading \in Text => reading.policy \in Policy /\ reading.canonical \in BOOLEAN
  BY DEF Text
<1>6. reading # None /\ reading \in Text \cup Unusable
  BY NoneIsNoPolicy DEF FinishRead, ReadFails, TypeOK
<1> QED
  BY <1>2, <1>3, <1>4, <1>5, <1>6 DEF FinishRead, ReadFails, LoadUserPolicy, known

\* RevisionInv is inductive.
LEMMA NextRevisionInv ==
  ASSUME TypeOK, TypeOK', RevisionInv, [Next]_vars
  PROVE  RevisionInv'
<1>n. MaxRevision \in Nat
  BY UserPolicyAssumption DEF UserPolicyAssumption
<1>1. CASE FinishRead \/ ReadFails
  BY <1>1, ReadAdvances
<1>2. CASE FinishWrite
  <2>1. Advances /\ pending' = None
    BY <1>2 DEF FinishWrite, Saved, SaveFailed, Advances, RevisionInv
  <2> QED
    BY <2>1, AdvancesKeepsSeen DEF RevisionInv
<1>3. ASSUME NEW settings \in Settings, SaveUserPolicy(settings)
      PROVE  RevisionInv'
  <2>1. CASE Reject /\ UNCHANGED draft
    BY <2>1 DEF Reject, RevisionInv
  <2>2. CASE ~(Reject /\ UNCHANGED draft)
    <3> DEFINE p == [revision |-> NextRevision, settings |-> settings]
    <3>1. /\ snapshot # None /\ draft # None /\ draft.revision = snapshot.revision
          /\ NextRevision # None
          /\ WriteNow(p)
          /\ draft' = IF snapshot' = p THEN p ELSE draft
      BY <1>3, <2>2 DEF SaveUserPolicy
    <3>2. draft = snapshot
      <4>1. snapshot.revision \in 1..MaxRevision
        BY <3>1 DEF TypeOK, Policy
      <4> QED
        BY <1>n, <3>1, <4>1 DEF RevisionInv
    <3>3. p # None /\ pending' = None
      BY <3>1, NextRevisionType, NoneIsNoPolicy DEF TypeOK, Policy, WriteNow, Saved, SaveFailed
    <3>4. snapshot' = p \/ snapshot' = snapshot
      BY <3>1 DEF WriteNow, Saved, SaveFailed
    <3>5. draft' = snapshot' \/ (draft' = draft /\ snapshot' = snapshot)
      BY <3>1, <3>4
    <3> QED
      BY <3>1, <3>2, <3>3, <3>4, <3>5 DEF RevisionInv
  <2> QED
    BY <2>1, <2>2
<1>4. CASE ResetUserPolicy
  <2>1. snapshot # None =>
          /\ NextRevision = snapshot.revision + 1
          /\ snapshot.revision \in 1..MaxRevision
    BY <1>4, NextRevisionType DEF ResetUserPolicy, TypeOK, Policy
  <2> DEFINE p == [revision |-> IF snapshot = None THEN 1 ELSE NextRevision,
                   settings |-> Default]
  <2>2. /\ draft' = draft /\ pending' = None
        /\ snapshot' = p \/ snapshot' = snapshot
    BY <1>4 DEF ResetUserPolicy, WriteNow, Saved, SaveFailed
  <2>3. p \in Policy
    BY <1>4, NextRevisionType, UserPolicyAssumption
    DEF ResetUserPolicy, UserPolicyAssumption, Policy, TypeOK
  <2>4. snapshot # None => snapshot.revision < p.revision
    BY <1>n, <2>1
  <2>5. Advances
    BY <2>2, <2>3, <2>4, NoneIsNoPolicy DEF Advances
  <2> QED
    BY <2>2, <2>5, AdvancesKeepsSeen DEF RevisionInv
<1>5. CASE StartRead \/ ProbePermission \/ Calm
  BY <1>5 DEF StartRead, ProbePermission, Calm, RevisionInv
<1>6. CASE Refresh \/ Reload
  BY <1>6 DEF Refresh, Reload, RevisionInv
<1>7. ASSUME NEW text \in Text \cup Unusable, Edit(text)
      PROVE  RevisionInv'
  BY <1>7 DEF Edit, RevisionInv
<1>8. CASE UNCHANGED vars
  BY <1>8 DEF vars, RevisionInv
<1> QED
  BY <1>1, <1>2, <1>3, <1>4, <1>5, <1>6, <1>7, <1>8 DEF Next

\* An accepted save is based on the policy it replaces, whatever edits,
\* rewrites, resets and failures came before.
THEOREM SavesBuildOnSeen == Spec => SaveBuildsOnSeen
<1>1. Init => RevisionInv
  BY DEF Init, RevisionInv
<1>2. TypeOK /\ RevisionInv /\ [Next]_vars =>
        [\A settings \in Settings :
           SaveUserPolicy(settings) /\ snapshot' # snapshot => draft = snapshot]_vars
  <2> SUFFICES ASSUME TypeOK, RevisionInv,
                      NEW settings \in Settings, SaveUserPolicy(settings),
                      snapshot' # snapshot
               PROVE  draft = snapshot
    OBVIOUS
  <2>1. snapshot # None /\ draft # None /\ draft.revision = snapshot.revision
    BY DEF SaveUserPolicy, Reject
  <2>2. snapshot.revision \in 1..MaxRevision /\ MaxRevision \in Nat
    BY <2>1, UserPolicyAssumption DEF UserPolicyAssumption, TypeOK, Policy
  <2> QED
    BY <2>1, <2>2 DEF RevisionInv
<1> QED
  BY <1>1, <1>2, NextRevisionInv, PolicyTypeCorrect, PTL DEF Spec, SaveBuildsOnSeen

-----------------------------------------------------------------------------
(***************************************************************************)
(* Durability.  Whether it is accepted or not, the advertised policy is    *)
(* the one in a file that nobody else edited; and while there is none, a   *)
(* read has found what such a file holds.                                  *)
(***************************************************************************)
DurableInv ==
  /\ snapshot # None /\ ~edited => file = Canonical(snapshot)
  /\ reading # None /\ snapshot = None /\ ~edited => reading = file

\* A policy that becomes the advertised one without a write is the one read.
LEMMA ReadIsDurable ==
  ASSUME TypeOK, DurableInv, FinishRead \/ ReadFails
  PROVE  DurableInv'
<1>1. UNCHANGED <<file, edited>> /\ reading' = None
  BY DEF FinishRead, ReadFails
<1>2. CASE snapshot' = snapshot
  BY <1>1, <1>2 DEF DurableInv, Canonical
<1>3. CASE snapshot' # snapshot
  <2>1. /\ reading \in Text
        /\ reading.canonical
        /\ snapshot' = reading.policy
        /\ snapshot # None => reading.policy.revision = snapshot.revision
        /\ ~Changed(reading.policy)
    BY <1>3 DEF FinishRead, ReadFails, LoadFailed, LoadUserPolicy, Consider,
                Reject, Rewrite, TypeOK
  <2>2. snapshot # None => reading.policy = snapshot
    <3>1. reading.policy \in Policy
      BY <2>1 DEF Text
    <3> QED
      BY <2>1, <3>1 DEF Changed, TypeOK, Policy
  <2>3. reading = Canonical(reading.policy)
    BY <2>1 DEF Text, Canonical
  <2>4. reading # None
    BY <2>1, UserPolicyAssumption DEF UserPolicyAssumption
  <2> QED
    BY <1>1, <1>3, <2>1, <2>2, <2>3, <2>4 DEF DurableInv, Canonical
<1> QED
  BY <1>2, <1>3

\* A write puts the policy it makes the advertised one in the file; one that
\* fails changes neither.
LEMMA WriteIsDurable ==
  ASSUME TypeOK, DurableInv, NEW p \in Policy, Saved(p) \/ SaveFailed(p),
         reading' = reading
  PROVE  DurableInv'
<1>1. CASE Saved(p)
  BY <1>1, NoneIsNoPolicy DEF DurableInv, Saved, Canonical
<1>2. CASE SaveFailed(p)
  BY <1>2 DEF DurableInv, SaveFailed, Canonical
<1> QED
  BY <1>1, <1>2

\* DurableInv is inductive.
LEMMA NextDurableInv ==
  ASSUME TypeOK, DurableInv, [Next]_vars
  PROVE  DurableInv'
<1>1. CASE FinishRead \/ ReadFails
  BY <1>1, ReadIsDurable
<1>2. CASE FinishWrite
  BY <1>2, WriteIsDurable DEF FinishWrite, TypeOK
<1>3. ASSUME NEW settings \in Settings, SaveUserPolicy(settings)
      PROVE  DurableInv'
  <2>1. CASE Reject /\ UNCHANGED <<file, edited>>
    BY <1>3, <2>1 DEF Reject, SaveUserPolicy, DurableInv, Canonical
  <2>2. CASE ~(Reject /\ UNCHANGED <<file, edited>>)
    <3> DEFINE p == [revision |-> NextRevision, settings |-> settings]
    <3>1. /\ snapshot # None /\ NextRevision # None
          /\ WriteNow(p)
          /\ reading' = reading
      BY <1>3, <2>2 DEF SaveUserPolicy
    <3>2. p \in Policy
      BY <3>1, NextRevisionType DEF Policy, TypeOK
    <3> QED
      BY <3>1, <3>2, WriteIsDurable DEF WriteNow
  <2> QED
    BY <2>1, <2>2
<1>4. CASE ResetUserPolicy
  <2> DEFINE p == [revision |-> IF snapshot = None THEN 1 ELSE NextRevision,
                   settings |-> Default]
  <2>1. p \in Policy
    BY <1>4, NextRevisionType, UserPolicyAssumption
    DEF ResetUserPolicy, UserPolicyAssumption, Policy, TypeOK
  <2> QED
    BY <1>4, <2>1, WriteIsDurable DEF ResetUserPolicy, WriteNow
<1>5. CASE StartRead \/ Refresh \/ ProbePermission \/ Calm
  BY <1>5 DEF StartRead, Refresh, ProbePermission, Calm, DurableInv, Canonical
<1>6. CASE Reload
  BY <1>6 DEF Reload, DurableInv
<1>7. ASSUME NEW text \in Text \cup Unusable, Edit(text)
      PROVE  DurableInv'
  BY <1>7 DEF Edit, DurableInv
<1>8. CASE UNCHANGED vars
  BY <1>8 DEF vars, DurableInv, Canonical
<1> QED
  BY <1>1, <1>2, <1>3, <1>4, <1>5, <1>6, <1>7, <1>8 DEF Next

\* Only a policy that was read or written is ever accepted.
LEMMA AcceptingKept ==
  ASSUME TypeOK, accepted => snapshot # None, [Next]_vars
  PROVE  accepted' => snapshot' # None
<1>1. CASE FinishRead \/ ReadFails
  <2>1. reading \in Text => reading.policy # None
    BY NoneIsNoPolicy DEF Text
  <2> QED
    BY <1>1, <2>1 DEF FinishRead, ReadFails, LoadFailed, LoadUserPolicy, Consider,
                      Reject, Rewrite, TypeOK
<1>2. CASE FinishWrite
  BY <1>2 DEF FinishWrite, Saved, SaveFailed
<1>3. ASSUME NEW settings \in Settings, SaveUserPolicy(settings)
      PROVE  accepted' => snapshot' # None
  <2>1. CASE Reject
    BY <2>1 DEF Reject
  <2>2. CASE ~Reject
    <3> DEFINE p == [revision |-> NextRevision, settings |-> settings]
    <3>1. snapshot # None /\ NextRevision # None /\ WriteNow(p)
      BY <1>3, <2>2 DEF SaveUserPolicy
    <3>2. p \in Policy
      BY <3>1, NextRevisionType DEF Policy, TypeOK
    <3> QED
      BY <3>1, <3>2, NoneIsNoPolicy DEF WriteNow, Saved, SaveFailed
  <2> QED
    BY <2>1, <2>2
<1>4. CASE ResetUserPolicy
  <2> DEFINE p == [revision |-> IF snapshot = None THEN 1 ELSE NextRevision,
                   settings |-> Default]
  <2>1. p \in Policy
    BY <1>4, NextRevisionType, UserPolicyAssumption
    DEF ResetUserPolicy, UserPolicyAssumption, Policy, TypeOK
  <2> QED
    BY <1>4, <2>1, NoneIsNoPolicy DEF ResetUserPolicy, WriteNow, Saved, SaveFailed
<1>5. CASE StartRead \/ Refresh \/ ProbePermission \/ Calm \/ Reload
  BY <1>5 DEF StartRead, Refresh, ProbePermission, Calm, Reload
<1>6. ASSUME NEW text \in Text \cup Unusable, Edit(text)
      PROVE  accepted' => snapshot' # None
  BY <1>6 DEF Edit
<1>7. CASE UNCHANGED vars
  BY <1>7 DEF vars
<1> QED
  BY <1>1, <1>2, <1>3, <1>4, <1>5, <1>6, <1>7 DEF Next

\* What the service accepts is there: nothing is advertised because a write
\* was begun, and a write that failed leaves what was advertised before.  It
\* accepts only with a policy to advertise.
THEOREM AcceptedIsDurable == Spec => []SnapshotIsDurable
<1> DEFINE Accepting == accepted => snapshot # None
<1>1. Init => DurableInv /\ Accepting
  BY DEF Init, DurableInv
<1>2. TypeOK /\ TypeOK' /\ Accepting /\ [Next]_vars => Accepting'
  BY AcceptingKept
<1>3. DurableInv /\ Accepting => SnapshotIsDurable
  BY DEF DurableInv, SnapshotIsDurable
<1> HIDE DEF Accepting
<1> QED
  BY <1>1, <1>2, <1>3, NextDurableInv, PolicyTypeCorrect, PTL DEF Spec

-----------------------------------------------------------------------------
(***************************************************************************)
(* Verdicts that stand.                                                    *)
(***************************************************************************)

\* Nobody touches the policy any more, nothing is to be written, a read under
\* way has found what is there, and the verdict on it is the last one.
Decided ==
  /\ calm /\ pending = None /\ reading \in {None, file}
  /\ IF accepted
     THEN snapshot # None /\ file = Canonical(snapshot)
     ELSE \/ file \in {Malformed, Garbled}
          \/ /\ snapshot # None
             /\ file \in Text => \/ file.policy.revision # snapshot.revision
                                 \/ Changed(file.policy) /\ snapshot.revision = MaxRevision

\* Reading the same text again changes nothing.
LEMMA ReadAgain ==
  ASSUME TypeOK, Decided, FinishRead
  PROVE  UNCHANGED <<file, snapshot, accepted, pending, calm>> /\ reading' = None
<1>1. UNCHANGED <<file, calm>> /\ reading' = None /\ reading = file /\ file # None
  BY DEF FinishRead, Decided
<1>2. None \notin Text /\ Missing \notin Text /\ Malformed \notin Text /\ Garbled \notin Text
  BY UserPolicyAssumption
<1>3. pending = None
  BY DEF Decided
<1>4. CASE accepted
  <2>1. snapshot \in Policy /\ file = Canonical(snapshot)
    BY <1>4 DEF Decided, TypeOK
  <2>2. file \in Text /\ file.policy = snapshot /\ file.canonical
    BY <2>1 DEF Canonical, Text
  <2>3. LoadUserPolicy(file)
    BY <1>1, <1>2, <2>2 DEF FinishRead
  <2>4. Consider(snapshot, TRUE)
    BY <1>2, <1>3, <2>2, <2>3 DEF LoadUserPolicy
  <2>5. UNCHANGED <<snapshot, accepted, pending>>
    BY <1>4, <2>1, <2>4 DEF Consider, Changed
  <2> QED
    BY <1>1, <2>5
<1>5. CASE ~accepted
  <2>1. Reject => UNCHANGED <<snapshot, accepted, pending>>
    BY <1>5 DEF Reject, TypeOK
  <2>2. CASE file \in {Malformed, Garbled} /\ file # Missing
    <3>1. LoadUserPolicy(file)
      BY <1>1, <2>2 DEF FinishRead
    <3>2. Reject
      BY <1>3, <2>2, <3>1 DEF LoadUserPolicy
    <3> QED
      BY <1>1, <2>1, <3>2
  <2>3. CASE snapshot # None /\ file = Missing
    <3>1. LoadFailed(Missing)
      BY <1>1, <2>3 DEF FinishRead
    <3>2. Reject
      BY <2>3, <3>1 DEF LoadFailed
    <3> QED
      BY <1>1, <2>1, <3>2
  <2>4. CASE /\ snapshot # None /\ file \in Text
             /\ \/ file.policy.revision # snapshot.revision
                \/ Changed(file.policy) /\ snapshot.revision = MaxRevision
    <3>1. LoadUserPolicy(file)
      BY <1>1, <1>2, <2>4 DEF FinishRead
    <3>2. Consider(file.policy, file.canonical)
      BY <1>2, <1>3, <2>4, <3>1 DEF LoadUserPolicy
    <3>3. Reject
      BY <2>4, <3>2 DEF Consider
    <3> QED
      BY <1>1, <2>1, <3>3
  <2> QED
    BY <1>5, <2>2, <2>3, <2>4, UserPolicyAssumption DEF Decided, TypeOK
<1> QED
  BY <1>4, <1>5

LEMMA DecidedStep == TypeOK /\ Decided /\ [Next]_vars => Decided'
<1> SUFFICES ASSUME TypeOK, Decided, [Next]_vars PROVE Decided'
  OBVIOUS
<1>c. calm /\ pending = None
  BY DEF Decided
<1>s. ASSUME UNCHANGED <<file, snapshot, accepted, pending, calm>>, reading' \in {None, reading, file}
      PROVE  Decided'
  <2>1. Changed(file.policy)' <=> Changed(file.policy)
    BY <1>s DEF Changed
  <2> QED
    BY <1>s, <2>1 DEF Decided
<1>1. CASE StartRead
  BY <1>1, <1>s DEF StartRead
<1>2. CASE FinishRead
  BY <1>2, <1>s, ReadAgain
<1>3. CASE Refresh \/ ProbePermission
  BY <1>3, <1>s DEF Refresh, ProbePermission
<1>4. CASE UNCHANGED vars
  BY <1>4, <1>s DEF vars
<1>5. ~ReadFails /\ ~FinishWrite /\ ~ResetUserPolicy /\ ~Reload /\ ~Calm
      /\ ~(\E settings \in Settings : SaveUserPolicy(settings))
      /\ ~(\E text \in Text \cup Unusable : Edit(text))
  BY <1>c DEF ReadFails, FinishWrite, ResetUserPolicy, Reload, Calm, SaveUserPolicy, Edit
<1> QED
  BY <1>1, <1>2, <1>3, <1>4, <1>5 DEF Next

LEMMA DecidedIsSettled == TypeOK /\ Decided => Settled
<1> SUFFICES ASSUME TypeOK, Decided PROVE Settled
  OBVIOUS
<1>1. pending = None
  BY DEF Decided
<1>2. Malformed \notin Text /\ Garbled \notin Text
  BY UserPolicyAssumption
<1>3. \A p \in Policy : Canonical(p) \in Text /\ Canonical(p).policy = p
  BY DEF Canonical, Text
<1>4. CASE accepted
  BY <1>1, <1>4 DEF Decided, Settled
<1>5. CASE ~accepted
  <2>1. snapshot # None => file # Canonical(snapshot)
    <3> SUFFICES ASSUME snapshot # None, file = Canonical(snapshot) PROVE FALSE
      OBVIOUS
    <3>1. snapshot \in Policy
      BY DEF TypeOK
    <3>2. file \in Text /\ file.policy = snapshot
      BY <1>3, <3>1
    <3>3. ~Changed(file.policy)
      BY <3>2 DEF Changed
    <3> QED
      BY <1>2, <1>5, <3>2, <3>3 DEF Decided
  <2>2. snapshot = None => file \in {Malformed, Garbled}
    BY <1>5 DEF Decided
  <2> QED
    BY <1>1, <1>5, <2>1, <2>2 DEF Settled
<1> QED
  BY <1>4, <1>5

\* The verdict the service comes to on a file that is left alone is its last:
\* no further read of it, and no read begun before, takes it back.  What is
\* left of SettlesOnFile is that the service comes to one (loadUserPolicy).
THEOREM VerdictStands == Spec => [](Decided => []Settled)
<1>1. TypeOK /\ Decided /\ [Next]_vars => Decided'
  BY DecidedStep
<1>2. TypeOK /\ Decided => Settled
  BY DecidedIsSettled
<1> QED
  BY <1>1, <1>2, PolicyTypeCorrect, PTL DEF Spec
=============================================================================
