------------------------- MODULE SystemPolicy_proofs -------------------------
(***************************************************************************)
(* Proofs about SystemPolicy, for any number of invocations of the helper, *)
(* of them running at once, of policies and of overrides.                  *)
(***************************************************************************)
EXTENDS SystemPolicy, TLAPS

\* The stages of an invocation that is at work.
AtWork == {"waiting", "holding", "committed", "settled"}

-----------------------------------------------------------------------------
(***************************************************************************)
(* Types.                                                                  *)
(***************************************************************************)

ServiceTypeOK ==
  /\ busy \in BOOLEAN
  /\ mutation \in {"none", "apply", "reset"}
  /\ child \in Helpers \cup {None, Launching}
  /\ reader \in Listing \cup {Off, Started}
  /\ probe \in Listing \cup {Off, Started}
  /\ requested \in Policies \cup {None}
  /\ effective \in Policy
  /\ reason \in Verdicts

GhostTypeOK ==
  /\ override \in Overrides
  /\ submission \in Policies \cup {Absent}
  /\ intact \in BOOLEAN
  /\ calm \in BOOLEAN

LEMMA TypeParts == TypeOK <=> StoreTypeOK /\ ServiceTypeOK /\ GhostTypeOK
BY DEF TypeOK, ServiceTypeOK, GhostTypeOK

\* What a readback can read next is a listing, and an effective policy is one
\* of those there can be.
LEMMA ProgressType ==
  ASSUME StoreTypeOK, GhostTypeOK, NEW readback \in Listing \cup {Off, Started}
  PROVE  Progress(readback) \subseteq Listing
<1>1. \A policy \in Policies \cup {None} : List(policy) \in Listing
  BY DEF List, Listing, Policy, GhostTypeOK
<1>2. Listed \subseteq Listing
  BY <1>1 DEF Listed, StoreTypeOK, Files
<1>3. Unreadable \in Listing
  BY DEF Unreadable, Listing, Policy
<1>4. readback \in Listing => Check(readback) \in Listing
  BY DEF Check, Listing
<1> QED
  BY <1>2, <1>3, <1>4 DEF Progress

\* What is read back is taken over.
LEMMA LoadType ==
  ASSUME NEW listing \in Listing, Load(listing)
  PROVE  /\ requested' \in Policies \cup {None}
         /\ effective' \in Policy
         /\ reason' \in Verdicts
<1>1. CASE listing.indeterminate
  BY <1>1 DEF Load, Policy, Verdicts
<1>2. CASE ~listing.indeterminate
  <2>1. requested' = listing.requested /\ effective' = listing.effective
    BY <1>2 DEF Load
  <2>2. reason' \in {"reset", "not-ready", "applied", "differs"}
    BY <1>2 DEF Load
  <2> QED
    BY <2>1, <2>2 DEF Listing, Verdicts
<1> QED
  BY <1>1, <1>2

LEMMA BeginType ==
  ASSUME StoreTypeOK, NEW h \in Helpers, NEW policy \in Policies \cup {Absent}, Begin(h, policy)
  PROVE  StoreTypeOK'
BY DEF StoreTypeOK, Begin, Stages

LEMMA ReapType ==
  ASSUME StoreTypeOK, NEW h \in Helpers, Reap(h)
  PROVE  StoreTypeOK'
BY DEF StoreTypeOK, Reap, Stages

LEMMA LeaveType ==
  ASSUME StoreTypeOK, NEW h \in Helpers, NEW verdict \in {"ok", "failed"}, Leave(h, verdict),
         target' \in Files
  PROVE  StoreTypeOK'
BY DEF StoreTypeOK, Leave, Stages

LEMMA AdvanceType ==
  ASSUME StoreTypeOK, NEW h \in Helpers, Advance(h)
  PROVE  StoreTypeOK'
<1> USE DEF StoreTypeOK
<1>1. CASE TakeTurn(h)
  BY <1>1 DEF TakeTurn, Stages, Files
<1>2. CASE Commit(h)
  BY <1>2 DEF Commit, Stages, Files
<1>3. CASE Withdraw(h)
  <2>1. target' \in Files
    BY <1>3 DEF Withdraw, Restored, Files
  <2> QED
    BY <1>3, <2>1 DEF Withdraw, Stages
<1>4. CASE Succeed(h)
  BY <1>4, LeaveType DEF Succeed
<1>5. CASE GiveIn(h)
  <2>1. target' \in Files
    BY <1>5 DEF GiveIn, Restored, Files
  <2> QED
    BY <1>5, <2>1, LeaveType DEF GiveIn
<1> QED
  BY <1>1, <1>2, <1>3, <1>4, <1>5 DEF Advance

LEMMA NextType == TypeOK /\ [Next]_vars => TypeOK'
<1> SUFFICES ASSUME TypeOK, [Next]_vars PROVE TypeOK'
  OBVIOUS
<1>t. StoreTypeOK /\ ServiceTypeOK /\ GhostTypeOK
  BY TypeParts
<1>q. StoreTypeOK' /\ ServiceTypeOK' /\ GhostTypeOK' => TypeOK'
  BY DEF TypeOK, ServiceTypeOK, GhostTypeOK
<1>s. UNCHANGED storeVars => StoreTypeOK'
  BY <1>t DEF StoreTypeOK, storeVars
<1>v. UNCHANGED serviceVars => ServiceTypeOK'
  BY <1>t DEF ServiceTypeOK, serviceVars, readers, view, mutationVars
<1>g. UNCHANGED <<ghosts, override, calm>> => GhostTypeOK'
  BY <1>t DEF GhostTypeOK, ghosts
<1>1. ASSUME NEW policy \in Policies \cup {Absent}, Mutate(policy) PROVE TypeOK'
  <2>1. ServiceTypeOK'
    BY <1>1, <1>t DEF Mutate, ServiceTypeOK, readers, view
  <2>2. GhostTypeOK'
    BY <1>1, <1>t DEF Mutate, GhostTypeOK, outside
  <2> QED
    BY <1>1, <1>s, <1>q, <2>1, <2>2 DEF Mutate
<1>2. ASSUME NEW h \in Helpers, Authorized(h) PROVE TypeOK'
  <2>1. StoreTypeOK'
    BY <1>2, <1>t, BeginType DEF Authorized, GhostTypeOK
  <2>2. ServiceTypeOK'
    BY <1>2, <1>t DEF Authorized, ServiceTypeOK, readers, view
  <2> QED
    BY <1>2, <1>g, <1>q, <2>1, <2>2 DEF Authorized, outside
<1>3. ASSUME NEW h \in Helpers, HelperExits(h) PROVE TypeOK'
  <2>1. StoreTypeOK'
    BY <1>3, <1>t, ReapType DEF HelperExits
  <2>2. ServiceTypeOK'
    BY <1>3, <1>t DEF HelperExits, GiveUp, ServiceTypeOK, Verdicts
  <2>3. GhostTypeOK'
    BY <1>3, <1>t DEF HelperExits, GiveUp, GhostTypeOK, ghosts, outside
  <2> QED
    BY <1>q, <2>1, <2>2, <2>3
<1>4. ASSUME NEW h \in Helpers, HelperWorks(h) PROVE TypeOK'
  <2>1. StoreTypeOK'
    BY <1>4, <1>t, AdvanceType DEF HelperWorks
  <2>2. intact' \in BOOLEAN
    BY <1>4 DEF HelperWorks
  <2>3. GhostTypeOK'
    BY <1>4, <1>t, <2>2 DEF HelperWorks, GhostTypeOK, outside
  <2> QED
    BY <1>4, <1>v, <1>q, <2>1, <2>3 DEF HelperWorks
<1>5. ASSUME NEW h \in Helpers, Forget(h) PROVE TypeOK'
  BY <1>5, <1>t, <1>v, <1>g, <1>q, ReapType DEF Forget, outside
<1>6. ASSUME NEW h \in Helpers, PackageRemoval(h) PROVE TypeOK'
  BY <1>6, <1>t, <1>v, <1>g, <1>q, BeginType DEF PackageRemoval, outside
<1>7. CASE Unauthorized
  <2>1. ServiceTypeOK'
    BY <1>7, <1>t DEF Unauthorized, GiveUp, ServiceTypeOK, readers, view
  <2>2. GhostTypeOK'
    BY <1>7, <1>t DEF Unauthorized, GiveUp, GhostTypeOK, outside
  <2> QED
    BY <1>7, <1>s, <1>q, <2>1, <2>2 DEF Unauthorized
<1>8. CASE ReaderReads
  <2>1. reader' \in Listing
    BY <1>8, <1>t, ProgressType DEF ReaderReads, ServiceTypeOK
  <2>2. ServiceTypeOK'
    BY <1>8, <1>t, <2>1 DEF ReaderReads, ServiceTypeOK, view, mutationVars
  <2> QED
    BY <1>8, <1>s, <1>g, <1>q, <2>2 DEF ReaderReads, outside
<1>9. CASE ProbeReads
  <2>1. probe' \in Listing
    BY <1>9, <1>t, ProgressType DEF ProbeReads, ServiceTypeOK
  <2>2. ServiceTypeOK'
    BY <1>9, <1>t, <2>1 DEF ProbeReads, ServiceTypeOK, view, mutationVars
  <2> QED
    BY <1>9, <1>s, <1>g, <1>q, <2>2 DEF ProbeReads, outside
<1>10. CASE ReaderExits
  <2>1. reader \in Listing
    BY <1>10, <1>t DEF ReaderExits, Done, ServiceTypeOK
  <2>2. /\ requested' \in Policies \cup {None}
        /\ effective' \in Policy
        /\ reason' \in Verdicts
    BY <1>10, <2>1, LoadType DEF ReaderExits
  <2>3. ServiceTypeOK'
    BY <1>10, <1>t, <2>2 DEF ReaderExits, GiveUp, ServiceTypeOK
  <2>4. GhostTypeOK'
    BY <1>10, <1>t DEF ReaderExits, GiveUp, GhostTypeOK, outside
  <2> QED
    BY <1>10, <1>s, <1>q, <2>3, <2>4 DEF ReaderExits
<1>11. CASE ProbeExits
  <2>1. probe \in Listing
    BY <1>11, <1>t DEF ProbeExits, Done, ServiceTypeOK
  <2>2. /\ requested' \in Policies \cup {None}
        /\ effective' \in Policy
        /\ reason' \in Verdicts
    BY <1>11, <2>1, LoadType DEF ProbeExits
  <2>3. ServiceTypeOK'
    BY <1>11, <1>t, <2>2 DEF ProbeExits, ServiceTypeOK, mutationVars
  <2> QED
    BY <1>11, <1>s, <1>g, <1>q, <2>3 DEF ProbeExits, outside
<1>12. CASE StartProbe
  <2>1. ServiceTypeOK'
    BY <1>12, <1>t DEF StartProbe, ServiceTypeOK, view, mutationVars
  <2> QED
    BY <1>12, <1>s, <1>g, <1>q, <2>1 DEF StartProbe, outside
<1>13. ASSUME NEW file \in Files, Administrator(file) PROVE TypeOK'
  <2>1. StoreTypeOK'
    BY <1>13, <1>t DEF Administrator, Edit, StoreTypeOK
  <2>2. GhostTypeOK'
    BY <1>13, <1>t DEF Administrator, GhostTypeOK, outside
  <2> QED
    BY <1>13, <1>v, <1>q, <2>1, <2>2 DEF Administrator
<1>14. CASE Reload
  <2>1. ServiceTypeOK'
    BY <1>14, <1>t DEF Reload, GiveUp, ServiceTypeOK, Policy, Verdicts
  <2>2. GhostTypeOK'
    BY <1>14, <1>t DEF Reload, GiveUp, GhostTypeOK, outside
  <2> QED
    BY <1>14, <1>s, <1>q, <2>1, <2>2 DEF Reload
<1>15. CASE Calm
  <2>1. GhostTypeOK'
    BY <1>15, <1>t DEF Calm, GhostTypeOK, ghosts
  <2> QED
    BY <1>15, <1>s, <1>v, <1>q, <2>1 DEF Calm
<1>16. CASE UNCHANGED vars
  BY <1>16, <1>s, <1>v, <1>g, <1>q DEF vars
<1> QED
  BY <1>1, <1>2, <1>3, <1>4, <1>5, <1>6, <1>7, <1>8, <1>9, <1>10, <1>11, <1>12,
     <1>13, <1>14, <1>15, <1>16 DEF Next

LEMMA InitType == Init => TypeOK
<1> SUFFICES ASSUME Init PROVE TypeOK
  OBVIOUS
<1>1. StoreTypeOK
  BY DEF Init, StoreInit, StoreTypeOK, Stages
<1>2. ServiceTypeOK /\ GhostTypeOK
  BY DEF Init, ServiceTypeOK, GhostTypeOK, Policy, Verdicts
<1> QED
  BY <1>1, <1>2, TypeParts

\* Every variable of the service and of the store keeps its type: what is
\* shown as requested is always a policy the helper recognizes, or none.
THEOREM SystemTypeCorrect == Spec => []TypeOK
<1> QED
  BY InitType, NextType, PTL DEF Spec

-----------------------------------------------------------------------------
(***************************************************************************)
(* What is reported of a mutation.                                         *)
(***************************************************************************)
\* An invocation has the turn only while it holds the lock, and only the one
\* that has it is disturbed.
TurnOK ==
  \A h \in Helpers : /\ turn = h => stage[h] \in {"holding", "committed", "settled"}
                     /\ h \in disturbed => turn = h

\* There is a child only of a mutation, and never the helper and the readback
\* at once.
ChildrenOK ==
  /\ child # None => busy /\ reader = Off
  /\ reader # Off => busy

\* The helper that the service waits for works on what was submitted, and has
\* put it in place when it succeeds.
HelperOK ==
  \A h \in Helpers : child = h =>
     /\ stage[h] # "idle"
     /\ stage[h] \in AtWork => wanted[h] = submission
     /\ intact => h \notin disturbed
     /\ intact /\ stage[h] = "ok" => target = submission

\* What the mutation's own readback must list.
Expected == IF submission = Absent THEN None ELSE submission

Reports(listing) ==
  listing.requested = Expected \/ (listing.indeterminate /\ listing.checked)

\* After the helper's success, what was submitted is in place, and is what the
\* readback has found.
ReadbackOK ==
  busy /\ child = None /\ intact =>
     /\ target = submission
     /\ reader \in Listing => Reports(reader)

ReportInv == TypeOK /\ TurnOK /\ ChildrenOK /\ HelperOK /\ ReadbackOK

LEMMA BeginTurn ==
  ASSUME StoreTypeOK, TurnOK, NEW h \in Helpers, NEW policy \in Policies \cup {Absent}, Begin(h, policy)
  PROVE  TurnOK'
BY DEF StoreTypeOK, TurnOK, Begin

LEMMA ReapTurn ==
  ASSUME StoreTypeOK, TurnOK, NEW h \in Helpers, stage[h] \in {"ok", "failed"}, Reap(h)
  PROVE  TurnOK'
BY DEF StoreTypeOK, TurnOK, Reap

LEMMA LeaveTurn ==
  ASSUME StoreTypeOK, TurnOK, NEW h \in Helpers, NEW verdict \in {"ok", "failed"}, Leave(h, verdict)
  PROVE  TurnOK'
BY Distinct DEF StoreTypeOK, TurnOK, Leave

LEMMA EditTurn ==
  ASSUME StoreTypeOK, TurnOK, NEW file \in Files, Edit(file)
  PROVE  TurnOK'
BY DEF StoreTypeOK, TurnOK, Edit

LEMMA AdvanceTurn ==
  ASSUME StoreTypeOK, TurnOK, NEW h \in Helpers, Advance(h)
  PROVE  TurnOK'
<1>1. CASE TakeTurn(h)
  BY <1>1, Distinct DEF TakeTurn, StoreTypeOK, TurnOK
<1>2. CASE Commit(h)
  BY <1>2 DEF Commit, StoreTypeOK, TurnOK
<1>3. CASE Withdraw(h)
  BY <1>3 DEF Withdraw, StoreTypeOK, TurnOK
<1>4. CASE Succeed(h)
  BY <1>4, LeaveTurn DEF Succeed
<1>5. CASE GiveIn(h)
  BY <1>5, LeaveTurn DEF GiveIn
<1> QED
  BY <1>1, <1>2, <1>3, <1>4, <1>5 DEF Advance

LEMMA TurnStep == TypeOK /\ TurnOK /\ [Next]_vars => TurnOK'
<1> SUFFICES ASSUME TypeOK, TurnOK, [Next]_vars PROVE TurnOK'
  OBVIOUS
<1>t. StoreTypeOK /\ GhostTypeOK
  BY TypeParts
<1>s. UNCHANGED storeVars => TurnOK'
  BY DEF TurnOK, storeVars
<1>1. ASSUME NEW h \in Helpers, Authorized(h) PROVE TurnOK'
  BY <1>1, <1>t, BeginTurn DEF Authorized, GhostTypeOK
<1>2. ASSUME NEW h \in Helpers, PackageRemoval(h) PROVE TurnOK'
  BY <1>2, <1>t, BeginTurn DEF PackageRemoval
<1>3. ASSUME NEW h \in Helpers, HelperExits(h) \/ Forget(h) PROVE TurnOK'
  BY <1>3, <1>t, ReapTurn DEF HelperExits, Forget
<1>4. ASSUME NEW h \in Helpers, HelperWorks(h) PROVE TurnOK'
  BY <1>4, <1>t, AdvanceTurn DEF HelperWorks
<1>5. ASSUME NEW file \in Files, Administrator(file) PROVE TurnOK'
  BY <1>5, <1>t, EditTurn DEF Administrator
<1>6. ASSUME \/ \E policy \in Policies \cup {Absent} : Mutate(policy)
             \/ Unauthorized \/ ReaderReads \/ ReaderExits
             \/ ProbeReads \/ ProbeExits \/ StartProbe
             \/ Reload \/ Calm \/ UNCHANGED vars
      PROVE  TurnOK'
  <2>1. UNCHANGED storeVars
    BY <1>6 DEF Mutate, Unauthorized, ReaderReads, ReaderExits, ProbeReads, ProbeExits,
                StartProbe, Reload, Calm, vars
  <2> QED
    BY <2>1, <1>s
<1> QED
  BY <1>1, <1>2, <1>3, <1>4, <1>5, <1>6 DEF Next

LEMMA ChildrenStep == TypeOK /\ ChildrenOK /\ [Next]_vars => ChildrenOK'
<1> SUFFICES ASSUME TypeOK, ChildrenOK, [Next]_vars PROVE ChildrenOK'
  OBVIOUS
<1>t. StoreTypeOK /\ ServiceTypeOK /\ GhostTypeOK
  BY TypeParts
<1>s. UNCHANGED <<busy, child, reader>> => ChildrenOK'
  BY DEF ChildrenOK
<1>1. ASSUME NEW policy \in Policies \cup {Absent}, Mutate(policy) PROVE ChildrenOK'
  BY <1>1 DEF Mutate, ChildrenOK, readers
<1>2. ASSUME NEW h \in Helpers, Authorized(h) PROVE ChildrenOK'
  BY <1>2, Distinct DEF Authorized, ChildrenOK, readers
<1>3. ASSUME NEW h \in Helpers, HelperExits(h) PROVE ChildrenOK'
  BY <1>3, Distinct DEF HelperExits, GiveUp, ChildrenOK
<1>4. CASE Unauthorized
  BY <1>4, Distinct DEF Unauthorized, GiveUp, ChildrenOK, readers
<1>5. CASE ReaderReads
  <2>1. reader # Off
    BY <1>5, NoListings DEF ReaderReads, Progress
  <2> QED
    BY <1>5, <2>1 DEF ReaderReads, ChildrenOK, mutationVars
<1>6. CASE ReaderExits
  BY <1>6 DEF ReaderExits, GiveUp, ChildrenOK
<1>7. CASE Reload
  BY <1>7 DEF Reload, GiveUp, ChildrenOK
<1>8. ASSUME \/ \E h \in Helpers : HelperWorks(h) \/ Forget(h) \/ PackageRemoval(h)
             \/ ProbeReads \/ ProbeExits \/ StartProbe
             \/ \E file \in Files : Administrator(file)
             \/ Calm \/ UNCHANGED vars
      PROVE  ChildrenOK'
  <2>1. UNCHANGED <<busy, child, reader>>
    BY <1>8 DEF HelperWorks, Forget, PackageRemoval, ProbeReads, ProbeExits, StartProbe,
                Administrator, Calm, vars, serviceVars, readers, mutationVars
  <2> QED
    BY <2>1, <1>s
<1> QED
  BY <1>1, <1>2, <1>3, <1>4, <1>5, <1>6, <1>7, <1>8 DEF Next

\* An invocation's step leaves the others where they are.
LEMMA AdvanceOthers ==
  ASSUME StoreTypeOK, NEW h \in Helpers, NEW other \in Helpers \ {h}, Advance(h)
  PROVE  /\ stage'[other] = stage[other]
         /\ wanted'[other] = wanted[other]
         /\ disturbed' \subseteq disturbed
BY DEF StoreTypeOK, Advance, TakeTurn, Commit, Withdraw, Succeed, GiveIn, Leave

\* An invocation at work keeps what it was asked for until it ends; when it
\* succeeds undisturbed, that is in place.
LEMMA AdvanceOwn ==
  ASSUME StoreTypeOK, NEW h \in Helpers, Advance(h)
  PROVE  /\ stage[h] \in AtWork
         /\ stage'[h] # "idle"
         /\ stage'[h] \in AtWork => wanted'[h] = wanted[h]
         /\ disturbed' \subseteq disturbed
         /\ stage'[h] = "ok" => target' = wanted[h] \/ h \in disturbed
<1> USE DEF StoreTypeOK, AtWork
<1>1. CASE TakeTurn(h)
  BY <1>1 DEF TakeTurn
<1>2. CASE Commit(h)
  BY <1>2 DEF Commit
<1>3. CASE Withdraw(h)
  BY <1>3 DEF Withdraw
<1>4. CASE Succeed(h)
  BY <1>4 DEF Succeed, Leave
<1>5. CASE GiveIn(h)
  BY <1>5 DEF GiveIn, Leave
<1> QED
  BY <1>1, <1>2, <1>3, <1>4, <1>5 DEF Advance

LEMMA HelperStep ==
  TypeOK /\ TurnOK /\ ChildrenOK /\ HelperOK /\ [Next]_vars => HelperOK'
<1> SUFFICES ASSUME TypeOK, TurnOK, ChildrenOK, HelperOK, [Next]_vars PROVE HelperOK'
  OBVIOUS
<1>t. StoreTypeOK /\ ServiceTypeOK /\ GhostTypeOK
  BY TypeParts
<1>n. child' \notin Helpers => HelperOK'
  BY DEF HelperOK
<1>s. UNCHANGED <<storeVars, child, ghosts>> => HelperOK'
  BY DEF HelperOK, storeVars, ghosts
<1>1. ASSUME NEW h \in Helpers, Authorized(h) PROVE HelperOK'
  <2>1. /\ child' = h
        /\ stage'[h] = "waiting" /\ wanted'[h] = submission
        /\ submission' = submission /\ disturbed' = disturbed
    BY <1>1, <1>t DEF Authorized, Begin, StoreTypeOK, ghosts
  <2>2. h \notin disturbed
    BY <1>1 DEF Authorized, Begin, TurnOK
  <2> QED
    BY <2>1, <2>2 DEF HelperOK
<1>2. ASSUME NEW h \in Helpers, PackageRemoval(h) PROVE HelperOK'
  <2>1. child # h
    BY <1>2 DEF PackageRemoval, Begin, HelperOK
  <2>2. /\ \A other \in Helpers \ {h} : stage'[other] = stage[other] /\ wanted'[other] = wanted[other]
        /\ disturbed' = disturbed /\ target' = target
        /\ child' = child /\ submission' = submission /\ intact' = intact
    BY <1>2, <1>t DEF PackageRemoval, Begin, StoreTypeOK, serviceVars, mutationVars, ghosts
  <2> QED
    BY <2>1, <2>2 DEF HelperOK
<1>3. ASSUME NEW h \in Helpers, HelperExits(h) PROVE HelperOK'
  BY <1>3, <1>n, Distinct DEF HelperExits, GiveUp
<1>4. ASSUME NEW h \in Helpers, Forget(h) PROVE HelperOK'
  <2>1. /\ \A other \in Helpers \ {h} : stage'[other] = stage[other]
        /\ wanted' = wanted /\ disturbed' = disturbed /\ target' = target
        /\ child' = child /\ submission' = submission /\ intact' = intact
        /\ child # h
    BY <1>4, <1>t DEF Forget, Reap, StoreTypeOK, serviceVars, mutationVars, ghosts
  <2> QED
    BY <2>1 DEF HelperOK
<1>5. ASSUME NEW h \in Helpers, HelperWorks(h) PROVE HelperOK'
  <2>1. /\ child' = child /\ submission' = submission
        /\ intact' => intact /\ (child = h \/ target' = target)
        /\ Advance(h)
    BY <1>5, <1>t DEF HelperWorks, serviceVars, mutationVars, GhostTypeOK
  <2>2. CASE child = h
    <3>1. wanted[h] = submission
      BY <2>1, <2>2, <1>t, AdvanceOwn DEF HelperOK
    <3> QED
      BY <2>1, <2>2, <3>1, <1>t, AdvanceOwn DEF HelperOK
  <2>3. CASE child # h
    BY <2>1, <2>3, <1>t, AdvanceOthers DEF HelperOK
  <2> QED
    BY <2>2, <2>3
<1>6. ASSUME NEW file \in Files, Administrator(file) PROVE HelperOK'
  BY <1>6, <1>t DEF Administrator, Edit, HelperOK, serviceVars, mutationVars
<1>7. ASSUME \/ \E policy \in Policies \cup {Absent} : Mutate(policy)
             \/ Unauthorized \/ ReaderExits \/ Reload
      PROVE  HelperOK'
  BY <1>7, <1>n, Distinct DEF Mutate, Unauthorized, ReaderExits, Reload, GiveUp
<1>8. ASSUME ReaderReads \/ ProbeReads \/ ProbeExits \/ StartProbe \/ Calm \/ UNCHANGED vars
      PROVE  HelperOK'
  BY <1>8, <1>s DEF ReaderReads, ProbeReads, ProbeExits, StartProbe, Calm, vars, serviceVars, mutationVars
<1> QED
  BY <1>1, <1>2, <1>3, <1>4, <1>5, <1>6, <1>7, <1>8 DEF Next

\* A readback of what was submitted lists it.
LEMMA ProgressExpected ==
  ASSUME StoreTypeOK, GhostTypeOK, target = submission,
         reader \in Listing \cup {Off, Started},
         reader \in Listing => Reports(reader),
         NEW next \in Progress(reader)
  PROVE  Reports(next)
<1>1. target # Foreign
  BY Distinct DEF GhostTypeOK
<1>2. \A listing \in Listed : listing.requested = Expected
  BY <1>1 DEF Listed, List, Expected
<1>3. Unreadable.indeterminate /\ Unreadable.checked
  BY DEF Unreadable
<1>4. CASE reader = Started
  BY <1>2, <1>3, <1>4 DEF Progress, Reports
<1>5. CASE reader # Started
  <2>1. reader \in Listing /\ ~reader.checked /\ next = Check(reader)
    BY <1>5 DEF Progress
  <2>2. reader.requested = Expected
    BY <2>1 DEF Reports
  <2> QED
    BY <1>1, <2>1, <2>2 DEF Check, Reports
<1> QED
  BY <1>4, <1>5

LEMMA ReadbackStep == ReportInv /\ [Next]_vars => ReadbackOK'
<1> SUFFICES ASSUME ReportInv, [Next]_vars PROVE ReadbackOK'
  OBVIOUS
<1>t. StoreTypeOK /\ ServiceTypeOK /\ GhostTypeOK
  BY TypeParts DEF ReportInv
<1>i. ChildrenOK /\ HelperOK /\ ReadbackOK
  BY DEF ReportInv
<1>n. ~busy' \/ child' # None \/ ~intact' => ReadbackOK'
  BY DEF ReadbackOK
<1>s. UNCHANGED <<target, busy, child, reader, ghosts>> => ReadbackOK'
  BY <1>i DEF ReadbackOK, Reports, Expected, ghosts
<1>1. ASSUME NEW h \in Helpers, HelperExits(h) PROVE ReadbackOK'
  <2>1. CASE stage[h] = "ok"
    <3>1. /\ reader' = Started /\ target' = target
          /\ submission' = submission /\ intact' = intact
      BY <1>1, <2>1 DEF HelperExits, Reap, ghosts
    <3>2. intact => target = submission
      BY <1>1, <2>1, <1>i DEF HelperExits, HelperOK
    <3> QED
      BY <3>1, <3>2, NoListings DEF ReadbackOK, Listing
  <2>2. CASE stage[h] # "ok"
    BY <1>1, <2>2, <1>n DEF HelperExits, GiveUp
  <2> QED
    BY <2>1, <2>2
<1>2. ASSUME NEW h \in Helpers, HelperWorks(h) PROVE ReadbackOK'
  <2>1. CASE child = h
    BY <1>2, <2>1, <1>n, Distinct DEF HelperWorks, serviceVars, mutationVars
  <2>2. CASE ~intact'
    BY <2>2, <1>n
  <2>3. CASE child # h /\ intact'
    BY <1>2, <2>3, <1>s, <1>t DEF HelperWorks, serviceVars, readers, mutationVars, ghosts, GhostTypeOK
  <2> QED
    BY <2>1, <2>2, <2>3
<1>3. CASE ReaderReads
  <2>1. ~(busy /\ child = None /\ intact) => ReadbackOK'
    BY <1>3, <1>n DEF ReaderReads, mutationVars, ghosts
  <2>2. ASSUME busy, child = None, intact PROVE ReadbackOK'
    <3>1. target = submission /\ (reader \in Listing => Reports(reader))
      BY <2>2, <1>i DEF ReadbackOK
    <3>2. Reports(reader')
      BY <1>3, <1>t, <3>1, ProgressExpected DEF ReaderReads, ServiceTypeOK
    <3>3. target' = target /\ submission' = submission
      BY <1>3 DEF ReaderReads, storeVars, ghosts
    <3> QED
      BY <3>1, <3>2, <3>3 DEF ReadbackOK, Reports, Expected
  <2> QED
    BY <2>1, <2>2
<1>4. ASSUME \/ \E policy \in Policies \cup {Absent} : Mutate(policy)
             \/ \E h \in Helpers : Authorized(h)
             \/ \E file \in Files : Administrator(file)
             \/ Unauthorized \/ ReaderExits \/ Reload
      PROVE  ReadbackOK'
  BY <1>4, <1>n, Distinct DEF Mutate, Authorized, Administrator, Unauthorized, ReaderExits, Reload, GiveUp
<1>5. ASSUME \/ \E h \in Helpers : Forget(h) \/ PackageRemoval(h)
             \/ ProbeReads \/ ProbeExits \/ StartProbe \/ Calm \/ UNCHANGED vars
      PROVE  ReadbackOK'
  <2>1. UNCHANGED <<target, busy, child, reader, ghosts>>
    BY <1>5 DEF Forget, Reap, PackageRemoval, Begin, ProbeReads, ProbeExits, StartProbe, Calm,
                vars, storeVars, serviceVars, readers, mutationVars
  <2> QED
    BY <2>1, <1>s
<1> QED
  BY <1>1, <1>2, <1>3, <1>4, <1>5 DEF Next

LEMMA ReportInit == Init => ReportInv
<1> SUFFICES ASSUME Init PROVE ReportInv
  OBVIOUS
<1>1. TypeOK
  BY InitType
<1>2. TurnOK
  BY Distinct DEF Init, StoreInit, TurnOK
<1>3. ChildrenOK /\ HelperOK /\ ReadbackOK
  BY Distinct DEF Init, ChildrenOK, HelperOK, ReadbackOK
<1> QED
  BY <1>1, <1>2, <1>3 DEF ReportInv

LEMMA ReportInductive == Spec => []ReportInv
<1>1. ReportInv /\ [Next]_vars => ReportInv'
  BY NextType, TurnStep, ChildrenStep, HelperStep, ReadbackStep DEF ReportInv
<1> QED
  BY <1>1, ReportInit, PTL DEF Spec

\* A mutation that ends with its readback, and that nobody else interfered
\* with, is reported with the policy that was submitted: the probe's readback
\* is never taken for the mutation's, an invocation that a reload left behind
\* never for the one that was authorized, nor what a later file sets for what
\* the helper wrote (helperProcess.onExited, effectivePolicyProcess.onExited).
THEOREM MutationReportedTruly == Spec => ReportIsOfSubmission
<1>1. ReportInv =>
        [ReaderExits /\ intact /\ reason' # "indeterminate" => requested' = Expected]_vars
  <2> SUFFICES ASSUME ReportInv, ReaderExits, intact, reason' # "indeterminate"
               PROVE  requested' = Expected
    OBVIOUS
  <2>1. reader \in Listing /\ reader # Off
    BY TypeParts DEF ReportInv, ReaderExits, Done, ServiceTypeOK
  <2>2. Reports(reader)
    BY <2>1 DEF ReportInv, ChildrenOK, ReadbackOK
  <2> QED
    BY <2>2 DEF ReaderExits, Load, Reports
<1> QED
  BY <1>1, ReportInductive, PTL DEF ReportIsOfSubmission, Expected

-----------------------------------------------------------------------------
(***************************************************************************)
(* What is shown stands.                                                   *)
(***************************************************************************)

\* Nobody changes the policy any more, no invocation is at work, no mutation
\* awaits its readback, and a probe under way has listed what is there.
AtRest ==
  /\ calm /\ Settled
  /\ mutation = "none" /\ child = None /\ reader = Off
  /\ \A h \in Helpers : stage[h] \notin AtWork
  /\ probe \in {Off, Started} \cup Listed \cup {Check(listing) : listing \in Listed}

\* A probe that has listed what is there shows what is shown already.
LEMMA ProbeShowsTheSame ==
  ASSUME TypeOK, AtRest, ProbeExits
  PROVE  UNCHANGED view
<1>1. probe \notin {Off, Started} /\ probe.checked /\ Load(probe)
  BY DEF ProbeExits, Done
<1>2. PICK listing \in Listed : probe = Check(listing)
  <2>1. \A listing \in Listed : ~listing.checked
    BY DEF Listed, List
  <2> QED
    BY <1>1, <2>1 DEF AtRest
<1>3. mutation = "none" /\ Settled
  BY DEF AtRest
<1>4. CASE target = Foreign
  <2>1. probe.indeterminate
    BY <1>2, <1>4 DEF Check
  <2> QED
    BY <1>1, <1>3, <1>4, <2>1, Distinct DEF Load, Settled, view
<1>5. CASE target = Absent
  <2>1. listing = List(None)
    BY <1>2, <1>5, Distinct DEF Listed
  <2>2. /\ probe.requested = None /\ ~probe.indeterminate
        /\ probe.effective = IF override = None THEN None ELSE override
    BY <1>2, <1>5, <2>1, Distinct DEF Check, List
  <2> QED
    BY <1>1, <1>3, <1>5, <2>2, Distinct DEF Load, Settled, view
<1>6. CASE target \in Policies
  <2>1. target # Foreign /\ target # Absent /\ target # None
    BY <1>6, Distinct
  <2>2. listing = List(target)
    BY <1>2, <2>1 DEF Listed
  <2>3. /\ probe.requested = target /\ ~probe.indeterminate
        /\ probe.effective = IF override = None THEN target ELSE override
    BY <1>2, <2>1, <2>2 DEF Check, List
  <2> QED
    BY <1>1, <1>3, <1>6, <2>1, <2>3 DEF Load, Settled, view
<1> QED
  BY <1>4, <1>5, <1>6 DEF TypeOK, StoreTypeOK, Files

LEMMA AtRestStep == TypeOK /\ AtRest /\ [Next]_vars => AtRest'
<1> SUFFICES ASSUME TypeOK, AtRest, [Next]_vars PROVE AtRest'
  OBVIOUS
<1>r. /\ calm /\ ~busy /\ child = None /\ reader = Off
      /\ \A h \in Helpers : stage[h] \notin AtWork
      /\ \A h \in Helpers : child # h
  BY Distinct DEF AtRest, Settled
<1>s. ASSUME UNCHANGED <<target, override, view, busy, mutation, child, reader, calm>>,
             \A h \in Helpers : stage'[h] \notin AtWork,
             probe' \in {Off, Started} \cup Listed \cup {Check(listing) : listing \in Listed}
      PROVE  AtRest'
  <2>1. Settled' <=> Settled
    BY <1>s DEF Settled, view
  <2>2. Listed' = Listed
    BY <1>s DEF Listed, List
  <2>3. \A listing : Check(listing)' = Check(listing)
    BY <1>s DEF Check
  <2>4. {Check(listing) : listing \in Listed}' = {Check(listing) : listing \in Listed}
    BY <1>s, <2>2 DEF Check
  <2> QED
    BY <1>s, <2>1, <2>2, <2>4 DEF AtRest
<1>p. probe \in {Off, Started} \cup Listed \cup {Check(listing) : listing \in Listed}
  BY DEF AtRest
<1>1. CASE ProbeReads
  <2>1. probe' \in Progress(probe)
    BY <1>1 DEF ProbeReads
  <2>2. probe' \in Listed \cup {Check(listing) : listing \in Listed}
    <3>1. CASE probe = Started
      BY <1>r, <2>1, <3>1 DEF Progress
    <3>2. CASE probe # Started
      <4>1. probe # Off /\ ~probe.checked /\ probe' = Check(probe)
        BY <2>1, <3>2 DEF Progress
      <4>2. \A listing : Check(listing).checked
        BY DEF Check
      <4>3. probe \in Listed
        BY <1>p, <3>2, <4>1, <4>2
      <4> QED
        BY <4>1, <4>3
    <3> QED
      BY <3>1, <3>2
  <2> QED
    BY <1>1, <1>r, <1>s, <2>2 DEF ProbeReads, storeVars, view, mutationVars, outside
<1>2. CASE ProbeExits
  <2>1. UNCHANGED view
    BY <1>2, ProbeShowsTheSame
  <2> QED
    BY <1>2, <1>r, <1>s, <2>1 DEF ProbeExits, storeVars, mutationVars, outside
<1>3. CASE StartProbe
  BY <1>3, <1>r, <1>s DEF StartProbe, storeVars, view, mutationVars, outside
<1>4. ASSUME NEW h \in Helpers, Forget(h) PROVE AtRest'
  <2>1. stage' = [stage EXCEPT ![h] = "idle"] /\ UNCHANGED <<target, serviceVars, override, calm>>
    BY <1>4 DEF Forget, Reap, outside
  <2>2. stage \in [Helpers -> Stages]
    BY DEF TypeOK, StoreTypeOK
  <2>3. \A k \in Helpers : stage'[k] \notin AtWork
    BY <1>r, <2>1, <2>2 DEF AtWork
  <2> QED
    BY <1>p, <1>s, <2>1, <2>3 DEF serviceVars, readers, mutationVars, view
<1>5. CASE UNCHANGED vars
  BY <1>5, <1>p, <1>r, <1>s DEF vars, serviceVars, readers, mutationVars, storeVars
<1>6. ASSUME NEW h \in Helpers
      PROVE  ~Authorized(h) /\ ~HelperExits(h) /\ ~HelperWorks(h) /\ ~PackageRemoval(h)
  <2>1. ~Advance(h)
    BY <1>r DEF Advance, TakeTurn, Commit, Withdraw, Succeed, GiveIn, AtWork
  <2> QED
    BY <1>r, <2>1, Distinct DEF Authorized, HelperExits, HelperWorks, PackageRemoval
<1>7. /\ ~(\E policy \in Policies \cup {Absent} : Mutate(policy))
      /\ ~(\E text \in Files : Administrator(text))
      /\ ~Unauthorized /\ ~ReaderReads /\ ~ReaderExits /\ ~Reload /\ ~Calm
  <2>1. Progress(reader) = {}
    <3>1. Off # Started
      BY NoListings
    <3> QED
      BY <1>r, <3>1 DEF Progress
  <2> QED
    BY <1>r, <2>1, Distinct
       DEF Mutate, Administrator, Unauthorized, ReaderReads, ReaderExits, Done, Reload, Calm
<1> QED
  BY <1>1, <1>2, <1>3, <1>4, <1>5, <1>6, <1>7 DEF Next

\* Once everything is at rest, what is shown is the policy that is there, for
\* good: no probe that runs, and none that is started later, shows another.
\* What is left of ReadbackSettles is that rest comes (initialPolicyProbe).
THEOREM WhatIsShownStands == Spec => [](AtRest => []Settled)
<1>1. TypeOK /\ AtRest /\ [Next]_vars => AtRest'
  BY AtRestStep
<1>2. AtRest => Settled
  BY DEF AtRest
<1> QED
  BY <1>1, <1>2, SystemTypeCorrect, PTL DEF Spec
=============================================================================
