---------------------------- MODULE SystemPolicy ----------------------------
(***************************************************************************)
(* The machine-wide policy as plugin/Service.qml sees it, with a helper    *)
(* that keeps the promise of PolicyStore: one mutation at a time, each an  *)
(* authorized invocation of the helper and then a readback by a child of   *)
(* its own; and the probe that reads back every five seconds.  A readback  *)
(* lists the merged configuration and then looks at the owned file.        *)
(* Operators named Mutant... are wrong versions of the definition that     *)
(* follows them.                                                           *)
(***************************************************************************)
EXTENDS PolicyStore

CONSTANTS Overrides,      \* what later files may set instead, or None
          Off, Started,   \* a readback that does not run, or has read nothing
          Launching       \* the helper's launcher asks for authorization

ASSUME Distinct ==
  /\ None \notin Helpers \cup Policies
  /\ Launching \notin Helpers \cup {None}
  /\ Absent \notin Policies /\ Foreign \notin Policies \cup {Absent}

VARIABLES
  busy,        \* systemPolicyBusy
  mutation,    \* systemPolicyMutation
  child,       \* helperProcess: None, Launching or the invocation it runs
  reader,      \* effectivePolicyProcess
  probe,       \* initialPolicyProbe
  requested,   \* requestedSystemPolicy
  effective,   \* effectiveSystemPolicy
  reason,      \* systemPolicyReasonCode
  override,    \* the policy later files set, or None
  submission,  \* what the mutation asks for
  intact,      \* nobody but its helper has changed the policy since
  calm         \* nobody changes the policy any more

readers == <<reader, probe>>
view == <<requested, effective, reason>>
mutationVars == <<busy, mutation, child>>
serviceVars == <<readers, view, mutationVars>>
ghosts == <<submission, intact>>
vars == <<storeVars, serviceVars, override, ghosts, calm>>

Policy == Policies \cup Overrides \cup {None}

\* What a readback has listed, and whether it has looked at the owned file.
Listing ==
  [requested : Policies \cup {None}, effective : Policy, indeterminate : BOOLEAN, checked : BOOLEAN]

ASSUME NoListings == Off # Started /\ Off \notin Listing /\ Started \notin Listing

Verdicts == {"unapplied", "indeterminate", "reset", "not-ready", "applied", "differs", "pending"}

TypeOK ==
  /\ StoreTypeOK
  /\ busy \in BOOLEAN
  /\ mutation \in {"none", "apply", "reset"}
  /\ child \in Helpers \cup {None, Launching}
  /\ reader \in Listing \cup {Off, Started}
  /\ probe \in Listing \cup {Off, Started}
  /\ requested \in Policies \cup {None}
  /\ effective \in Policy
  /\ reason \in Verdicts
  /\ override \in Overrides
  /\ submission \in Policies \cup {Absent}
  /\ intact \in BOOLEAN
  /\ calm \in BOOLEAN

Init ==
  /\ StoreInit
  /\ busy = FALSE
  /\ mutation = "none"
  /\ child = None
  /\ reader = Off
  /\ probe = Started
  /\ requested = None
  /\ effective = None
  /\ reason = "unapplied"
  /\ override \in Overrides
  /\ submission = Absent
  /\ intact = FALSE
  /\ calm = FALSE

outside == UNCHANGED <<override, calm>>

-----------------------------------------------------------------------------
(***************************************************************************)
(* Mutations.                                                              *)
(***************************************************************************)

\* applySystemPolicy and resetSystemPolicy, the latter for Absent, where they
\* are not refused without effect.
Mutate(policy) ==
  /\ ~calm
  /\ ~busy
  /\ busy' = TRUE
  /\ mutation' = IF policy = Absent THEN "reset" ELSE "apply"
  /\ child' = Launching
  /\ submission' = policy
  /\ intact' = TRUE
  /\ UNCHANGED <<storeVars, readers, view>> /\ outside

\* The launcher is allowed to run the helper.
Authorized(h) ==
  /\ child = Launching
  /\ child' = h
  /\ Begin(h, submission)
  /\ UNCHANGED <<readers, view, busy, mutation, ghosts>> /\ outside

\* The service is free for another mutation.
GiveUp ==
  /\ busy' = FALSE
  /\ mutation' = "none"
  /\ child' = None
  /\ submission' = Absent
  /\ intact' = FALSE

\* helperProcess.onExited with 126 or 127.
Unauthorized ==
  /\ child = Launching
  /\ GiveUp
  /\ UNCHANGED <<storeVars, readers, view>> /\ outside

\* The process of an invocation is gone.
Reap(h) ==
  /\ stage' = [stage EXCEPT ![h] = "idle"]
  /\ UNCHANGED <<target, turn, wanted, found, disturbed>>

MutantHelperExits(h) ==
  /\ child = h
  /\ stage[h] \in {"ok", "failed"}
  /\ Reap(h)
  /\ IF stage[h] = "ok"
       THEN /\ child' = None
            /\ reader' = IF probe = Off THEN Started ELSE probe
            /\ reason' = "pending"
            /\ UNCHANGED <<busy, mutation, ghosts>>
       ELSE GiveUp /\ UNCHANGED <<reader, reason>>
  /\ UNCHANGED <<probe, requested, effective>> /\ outside

\* helperProcess.onExited: a success is read back.
HelperExits(h) ==
  /\ child = h
  /\ stage[h] \in {"ok", "failed"}
  /\ Reap(h)
  /\ IF stage[h] = "ok"
       THEN /\ child' = None
            /\ reader' = Started
            /\ reason' = "pending"
            /\ UNCHANGED <<busy, mutation, ghosts>>
       ELSE GiveUp /\ UNCHANGED <<reader, reason>>
  /\ UNCHANGED <<probe, requested, effective>> /\ outside

-----------------------------------------------------------------------------
(***************************************************************************)
(* Readbacks (plugin/bin/policy-readback.cjs).                             *)
(***************************************************************************)

\* systemd-analyze cat-config and reconcile: a file the helper does not
\* recognize may say anything.
List(policy) ==
  [requested |-> policy, effective |-> IF override = None THEN policy ELSE override,
   indeterminate |-> FALSE, checked |-> FALSE]

Listed ==
  IF target = Foreign
    THEN {List(policy) : policy \in Policies \cup {None}}
    ELSE {List(IF target = Absent THEN None ELSE target)}

\* Then the owned file: it must be recognized, and have been listed.
Check(listing) ==
  [requested |-> IF target = Foreign THEN None ELSE listing.requested,
   effective |-> listing.effective,
   indeterminate |-> target = Foreign \/ (target # Absent /\ listing.requested = None),
   checked |-> TRUE]

Unreadable == [requested |-> None, effective |-> None, indeterminate |-> TRUE, checked |-> TRUE]

\* What a readback that runs can have next.
Progress(readback) ==
  IF readback = Started
    THEN Listed \cup (IF calm THEN {} ELSE {Unreadable})
    ELSE IF readback # Off /\ ~readback.checked THEN {Check(readback)} ELSE {}

ReaderReads ==
  /\ reader' \in Progress(reader)
  /\ UNCHANGED <<storeVars, probe, view, mutationVars, ghosts>> /\ outside

ProbeReads ==
  /\ probe' \in Progress(probe)
  /\ UNCHANGED <<storeVars, reader, view, mutationVars, ghosts>> /\ outside

Done(readback) == readback \notin {Off, Started} /\ readback.checked

MutantLoad(listing) ==
  IF listing.indeterminate
    THEN reason' = "indeterminate" /\ UNCHANGED <<requested, effective>>
    ELSE /\ requested' = listing.requested
         /\ effective' = listing.effective
         /\ reason' = CASE listing.requested = None ->
                             IF mutation = "reset" THEN "reset" ELSE "not-ready"
                        [] listing.requested \notin {None, listing.effective} -> "differs"
                        [] OTHER -> "applied"

\* loadSystemPolicyReadback.
Load(listing) ==
  IF listing.indeterminate
    THEN requested' = None /\ effective' = None /\ reason' = "indeterminate"
    ELSE /\ requested' = listing.requested
         /\ effective' = listing.effective
         /\ reason' = CASE listing.requested = None ->
                             IF mutation = "reset" THEN "reset" ELSE "not-ready"
                        [] listing.requested \notin {None, listing.effective} -> "differs"
                        [] OTHER -> "applied"

\* effectivePolicyProcess.onExited: the mutation is over.
ReaderExits ==
  /\ Done(reader)
  /\ reader' = Off
  /\ Load(reader)
  /\ GiveUp
  /\ UNCHANGED <<storeVars, probe>> /\ outside

\* initialPolicyProbe.onExited.
ProbeExits ==
  /\ Done(probe)
  /\ probe' = Off
  /\ Load(probe)
  /\ UNCHANGED <<storeVars, reader, mutationVars, ghosts>> /\ outside

\* The five-second timer, and status().
StartProbe ==
  /\ ~busy
  /\ probe = Off
  /\ reader = Off
  /\ probe' = Started
  /\ UNCHANGED <<storeVars, reader, view, mutationVars, ghosts>> /\ outside

-----------------------------------------------------------------------------
(***************************************************************************)
(* Around the service.                                                     *)
(***************************************************************************)

\* An invocation's step, which the service does not see.
HelperWorks(h) ==
  /\ Advance(h)
  /\ intact' = (intact /\ (child = h \/ target' = target))
  /\ UNCHANGED <<serviceVars, submission>> /\ outside

\* The end of an invocation that is no child of the service.
Forget(h) ==
  /\ child # h
  /\ stage[h] \in {"ok", "failed"}
  /\ Reap(h)
  /\ UNCHANGED <<serviceVars, ghosts>> /\ outside

\* The removal of the helper's package resets the policy as well.
PackageRemoval(h) ==
  /\ ~calm
  /\ Begin(h, Absent)
  /\ UNCHANGED <<serviceVars, ghosts>> /\ outside

Administrator(file) ==
  /\ ~calm
  /\ Edit(file)
  /\ intact' = FALSE
  /\ UNCHANGED <<serviceVars, submission>> /\ outside

\* The plugin is loaded again: a helper that runs goes on by itself.
Reload ==
  /\ ~calm
  /\ GiveUp
  /\ reader' = Off
  /\ probe' = Started
  /\ requested' = None
  /\ effective' = None
  /\ reason' = "unapplied"
  /\ UNCHANGED storeVars /\ outside

Calm ==
  /\ ~calm
  /\ calm' = TRUE
  /\ UNCHANGED <<storeVars, serviceVars, ghosts, override>>

Next ==
  \/ \E policy \in Policies \cup {Absent} : Mutate(policy)
  \/ \E h \in Helpers : \/ Authorized(h) \/ HelperExits(h)
                        \/ HelperWorks(h) \/ Forget(h) \/ PackageRemoval(h)
  \/ Unauthorized
  \/ ReaderReads \/ ReaderExits
  \/ ProbeReads \/ ProbeExits \/ StartProbe
  \/ \E file \in Files : Administrator(file)
  \/ Reload
  \/ Calm

\* Invocations run to their end; children are read and reaped; the timer
\* fires.  Nobody need answer the launcher.
Fairness ==
  /\ \A h \in Helpers :
       /\ WF_vars(HelperWorks(h))
       /\ WF_vars(HelperExits(h))
  /\ WF_vars(ReaderReads) /\ WF_vars(ReaderExits)
  /\ WF_vars(ProbeReads) /\ WF_vars(ProbeExits) /\ WF_vars(StartProbe)

Spec == Init /\ [][Next]_vars
FairSpec == Spec /\ Fairness

-----------------------------------------------------------------------------
\* A mutation that is reported by what was read back, and that nobody else
\* interfered with, is reported with the policy that was submitted, whichever
\* other readbacks ran meanwhile (helperProcess, effectivePolicyProcess).
ReportIsOfSubmission ==
  [][ReaderExits /\ intact /\ reason' # "indeterminate" =>
       requested' = (IF submission = Absent THEN None ELSE submission)]_vars

\* A readback that began before a mutation and ended after it may leave the
\* old policy on display; but when nobody changes the policy any more, and no
\* launcher is left without an answer, the service comes to show the policy
\* that is there, and is free for another mutation.
Settled ==
  /\ ~busy
  /\ requested = IF target \in Policies THEN target ELSE None
  /\ effective = IF target = Foreign THEN None ELSE IF override = None THEN requested ELSE override
  /\ reason = CASE target = Foreign -> "indeterminate"
                [] target = Absent -> "not-ready"
                [] target \in Policies /\ requested = effective -> "applied"
                [] OTHER -> "differs"

ReadbackSettles == calm /\ child # Launching ~> []Settled
=============================================================================
