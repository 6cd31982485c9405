----------------------------- MODULE UserPolicy -----------------------------
(***************************************************************************)
(* The user policy of plugin/Service.qml: one file, read again every       *)
(* 100 ms, that its owner may edit at any time; the snapshot the service   *)
(* advertises; saves that carry the revision they are based on; and the    *)
(* write under way.  pending # None is policyWriteInFlight as well as      *)
(* pendingUserPolicy: the code sets and clears the two together.           *)
(* Operators named Mutant... are wrong versions of the definition that      *)
(* follows them.                                                           *)
(***************************************************************************)
EXTENDS Naturals

CONSTANTS Settings,      \* what a policy says: enablement and idle delay
          Default,       \* disabled, half an hour
          MaxRevision,   \* Number.MAX_SAFE_INTEGER
          None,
          Missing,       \* there is no file
          Malformed,     \* a text loadUserPolicy cannot take
          Garbled        \* one it rejects for its size or encoding alone

Policy == [revision : 1..MaxRevision, settings : Settings]

\* A text that holds a policy, written as the service writes it or not.
Text == [policy : Policy, canonical : BOOLEAN]
Canonical(p) == [policy |-> p, canonical |-> TRUE]
Unusable == {Missing, Malformed, Garbled}

ASSUME UserPolicyAssumption ==
  /\ MaxRevision \in Nat \ {0}
  /\ Default \in Settings
  /\ None \notin Policy \cup Text \cup Unusable
  /\ Unusable \cap Text = {} /\ Missing \notin {Malformed, Garbled}

VARIABLES
  file,       \* what is on disk
  reading,    \* what a read under way has found, or None
  snapshot,   \* policySnapshot
  accepted,   \* policyAccepted
  pending,    \* pendingUserPolicy
  writable,   \* policyDirectoryWritable
  draft,      \* the policy a panel or another caller has before it
  edited,     \* the file was edited since the service last wrote it
  calm        \* nobody touches the policy any more and the disk works

vars == <<file, reading, snapshot, accepted, pending, writable, draft, edited, calm>>

TypeOK ==
  /\ file \in Text \cup Unusable
  /\ reading \in Text \cup Unusable \cup {None}
  /\ snapshot \in Policy \cup {None}
  /\ accepted \in BOOLEAN
  /\ pending \in Policy \cup {None}
  /\ writable \in BOOLEAN
  /\ draft \in Policy \cup {None}
  /\ edited \in BOOLEAN
  /\ calm \in BOOLEAN

Init ==
  /\ file \in Text \cup Unusable
  /\ reading = None
  /\ snapshot = None
  /\ accepted = FALSE
  /\ pending = None
  /\ writable = TRUE
  /\ draft = None
  /\ edited = FALSE
  /\ calm = FALSE

-----------------------------------------------------------------------------
(***************************************************************************)
(* Reading.                                                                *)
(***************************************************************************)

\* policyFile.reload(), by its timer or because the file changed: what is
\* read is delivered later.
StartRead ==
  /\ reading' = file
  /\ UNCHANGED <<file, snapshot, accepted, pending, writable, draft, edited, calm>>

Reject == accepted' = FALSE /\ UNCHANGED <<snapshot, pending>>

\* The policy is to be written: by Qt.callLater, or right away in a save.
Rewrite(p) == pending' = p /\ accepted' = FALSE /\ UNCHANGED snapshot

Changed(p) == snapshot # None /\ snapshot.settings # p.settings

MutantConsider(p, canonical) ==
  IF snapshot # None /\ p.revision # snapshot.revision
    THEN Reject
    ELSE IF canonical
      THEN snapshot' = p /\ accepted' = TRUE /\ UNCHANGED pending
      ELSE Rewrite(p)

\* A policy that could be parsed: another revision than the advertised one is
\* a conflict; other settings are a new revision, which is written back, as
\* is whatever is not in canonical form.
Consider(p, canonical) ==
  IF snapshot # None /\ p.revision # snapshot.revision
    THEN Reject
    ELSE IF Changed(p)
      THEN IF p.revision = MaxRevision
             THEN Reject
             ELSE Rewrite([p EXCEPT !.revision = @ + 1])
      ELSE IF canonical
        THEN snapshot' = p /\ accepted' = TRUE /\ UNCHANGED pending
        ELSE Rewrite(p)

\* loadUserPolicy: while a write is under way only a garbled text counts.
LoadUserPolicy(text) ==
  IF text = Garbled
    THEN Reject
    ELSE IF pending # None
      THEN UNCHANGED <<accepted, snapshot, pending>>
      ELSE IF text = Malformed
        THEN Reject
        ELSE Consider(text.policy, text.canonical)

MutantLoadFailed(found) == Reject

\* policyFile.onLoadFailed: a service that has never had a policy writes the
\* first one.
LoadFailed(found) ==
  IF found = Missing /\ snapshot = None /\ pending = None
    THEN Rewrite([revision |-> 1, settings |-> Default])
    ELSE Reject

FinishRead ==
  /\ reading # None
  /\ reading' = None
  /\ IF reading = Missing THEN LoadFailed(Missing) ELSE LoadUserPolicy(reading)
  /\ UNCHANGED <<file, writable, draft, edited, calm>>

\* The file is there and cannot be read.
ReadFails ==
  /\ reading # None
  /\ ~calm
  /\ reading' = None
  /\ LoadFailed(None)
  /\ UNCHANGED <<file, writable, draft, edited, calm>>

-----------------------------------------------------------------------------
(***************************************************************************)
(* Writing.                                                                *)
(***************************************************************************)

\* policyFile.onSaved.
Saved(p) ==
  /\ file' = Canonical(p)
  /\ edited' = FALSE
  /\ snapshot' = p
  /\ accepted' = TRUE
  /\ pending' = None

MutantSaveFailed(p) ==
  /\ snapshot' = p
  /\ accepted' = TRUE
  /\ pending' = None
  /\ UNCHANGED <<file, edited>>

\* policyFile.onSaveFailed: the file is as it was.
SaveFailed(p) ==
  /\ accepted' = FALSE
  /\ pending' = None
  /\ UNCHANGED <<file, edited, snapshot>>

\* A write that was put off ends.
FinishWrite ==
  /\ pending # None
  /\ Saved(pending) \/ (~calm /\ SaveFailed(pending))
  /\ UNCHANGED <<reading, writable, draft, calm>>

\* A write that is waited for.
WriteNow(p) == Saved(p) \/ SaveFailed(p)

MutantNextRevision == snapshot.revision + 1

\* The revision after the advertised one, if there is one left.
NextRevision == IF snapshot.revision < MaxRevision THEN snapshot.revision + 1 ELSE None

\* saveUserPolicy, called with the revision of the draft, where it is not
\* refused without effect.
SaveUserPolicy(settings) ==
  /\ ~calm
  /\ \/ /\ ~writable
        /\ Reject
        /\ UNCHANGED <<file, edited, draft>>
     \/ /\ writable
        /\ pending = None
        /\ accepted
        /\ snapshot # None
        /\ draft # None
        /\ draft.revision = snapshot.revision
        /\ NextRevision # None
        /\ LET p == [revision |-> NextRevision, settings |-> settings] IN
           /\ WriteNow(p)
           /\ draft' = IF snapshot' = p THEN p ELSE draft
  /\ UNCHANGED <<reading, writable, calm>>

\* resetUserPolicy does not ask whether the policy is accepted: it is the way
\* out of a conflict.
ResetUserPolicy ==
  /\ ~calm
  /\ pending = None
  /\ snapshot # None => NextRevision # None
  /\ WriteNow([revision |-> IF snapshot = None THEN 1 ELSE NextRevision,
               settings |-> Default])
  /\ UNCHANGED <<reading, writable, draft, calm>>

-----------------------------------------------------------------------------
(***************************************************************************)
(* Around the service.                                                     *)
(***************************************************************************)

\* Panel.refresh without a dirty draft, or a call of userPolicy().
Refresh ==
  /\ snapshot # None
  /\ draft' = snapshot
  /\ UNCHANGED <<file, reading, snapshot, accepted, pending, writable, edited, calm>>

\* policyPermissionProbe.
ProbePermission ==
  /\ writable' \in BOOLEAN
  /\ UNCHANGED <<file, reading, snapshot, accepted, pending, draft, edited, calm>>

\* The owner of the file writes or removes it.
Edit(text) ==
  /\ ~calm
  /\ file' = text
  /\ edited' = TRUE
  /\ UNCHANGED <<reading, snapshot, accepted, pending, writable, draft, calm>>

\* The plugin is loaded again, with its panel.
Reload ==
  /\ ~calm
  /\ reading' = None
  /\ snapshot' = None
  /\ accepted' = FALSE
  /\ pending' = None
  /\ writable' = TRUE
  /\ draft' = None
  /\ UNCHANGED <<file, edited, calm>>

Calm ==
  /\ ~calm
  /\ calm' = TRUE
  /\ UNCHANGED <<file, reading, snapshot, accepted, pending, writable, draft, edited>>

Next ==
  \/ StartRead
  \/ FinishRead
  \/ ReadFails
  \/ FinishWrite
  \/ \E settings \in Settings : SaveUserPolicy(settings)
  \/ ResetUserPolicy
  \/ Refresh
  \/ ProbePermission
  \/ \E text \in Text \cup Unusable : Edit(text)
  \/ Reload
  \/ Calm

\* The reload timer, the reader and the writer.
Fairness == WF_vars(StartRead) /\ WF_vars(FinishRead) /\ WF_vars(FinishWrite)

Spec == Init /\ [][Next]_vars
FairSpec == Spec /\ Fairness

-----------------------------------------------------------------------------
\* A save that is accepted was made by someone who had the advertised policy
\* before them: however edits, rewrites and resets came in between, a revision
\* never stands for two policies (loadUserPolicy, saveUserPolicy).
SaveBuildsOnSeen ==
  [][\A settings \in Settings :
       SaveUserPolicy(settings) /\ snapshot' # snapshot => draft = snapshot]_vars

\* The service never advertises what it has not seen on disk: after a failed
\* save, and while a write is under way, the file is what the snapshot says
\* unless somebody else edited it (onSaved, onSaveFailed).
SnapshotIsDurable == accepted /\ ~edited => file = Canonical(snapshot)

\* When the file is left alone the service comes to a verdict and keeps it:
\* it accepts exactly the policy in the file, and has none only if the file
\* does not hold one.
Settled ==
  /\ pending = None
  /\ accepted <=> snapshot # None /\ file = Canonical(snapshot)
  /\ snapshot = None => file \in {Malformed, Garbled}

SettlesOnFile == calm ~> []Settled
=============================================================================
