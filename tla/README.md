# Hibermachy: a TLA+ model of its control

Hibermachy is a desktop plugin that puts a machine through *staged sleep*
(`systemctl suspend-then-hibernate`) by hand or after a full idle delay, keeps a
durable record of every attempt, and manages the machine-wide policy for it
through a privileged helper.  This directory holds TLA+ modules of its control
logic, the TLC configurations that check them on small instances, and TLAPS
proofs for every value of the constants.

    tlc -config sleep_core.cfg StagedSleep.tla      # one run; PROJECT.json lists all
    tlapm StagedSleep_proofs.tla                    # one module's proofs

Paths below are relative to the repository's root; `Service.qml` is
`plugin/Service.qml`.

## 1. Inventory

The plugin service is one Qt/QML event loop: every handler runs to its end
before the next one starts.  All concurrency comes from what it talks to: child
processes, timers, asynchronous file writes, D-Bus signals, the compositor.

| component | state it keeps | operations | talks to |
| --- | --- | --- | --- |
| sleep coordinator (`Service.qml` 691-911, 1050-1069, 1173-1252, 1303-1332) | the history document and its copy on disk, attempt in flight, arm timer, systemctl child, observer readiness | request, arm, dispatch, finish, time out, reset history, load, reload | observer by stdin/stdout lines, `systemctl` by its exit code, the disk by an asynchronous writer |
| evidence observer (`plugin/bin/evidence_core.py`, `hibermachy-sleep-evidence-observer`) | the attempt it holds with its phase, baseline job, job, deadlines | take a submission, arm, read a signal, pass a deadline, exit | logind and systemd signals, the coordinator |
| automatic trigger (`Service.qml` 397-482, 518-536, 1338-1387) | rearm latch, fresh-activity flag, inhibition, stay-awake reading, evaluation in progress | monitor edges, probe polls, evaluation, policy changes | compositor notifications, `omarchy-toggle-idle`, coordinator |
| user policy store (`Service.qml` 913-1048, 1481-1542) | accepted snapshot, pending save, last observed text | load, save with a revision, reset, file change | `policy.json`, the panel, the trigger |
| system policy (`Service.qml` 1071-1171, 1396-1479, `plugin/bin/policy-readback.cjs`) | draft, requested and effective policy, mutation in progress | review, apply, reset, readback | `pkexec` helper, readback process |
| privileged helper (`src/main.rs`, `src/secure_fs.rs`) | nothing of its own; the drop-in directory under a lock | replace-and-verify, remove-and-verify, rollback | file system, other helper instances, administrators |
| effective-policy readback (`plugin/bin/policy-readback.cjs`) | none | merge the drop-ins, check the owned file | systemd configuration |
| native probes (`plugin/bin/native-probe-lib.cjs`) | none | conclude on the shell's contract, on logind's capability, on the helper's protocol | shell, logind, helper |
| lifecycle commands (`lifecycle/production.mjs`) | saved activation, checkout, builds; what others keep: activation, helper package, policy, menu rows | status, setup, update, complete-update, activate, disable, remove, uninstall, purge | `omarchy plugin`, git, makepkg, pacman, pkexec, the native probes, the menu |
| shared menu (`lifecycle/menu.mjs`) | two rows in a file that others own | inspect, reconcile, remove | the file's owner |
| hardware guards (`hardware/mwifiex`, `hardware/iptsd`) | records in `/run` of what they took away: a driver, a daemon | hold before sleep, restore after it | systemd units, `systemd-sleep`'s hooks, the kernel, udev |
| panel and dialogs (`plugin/Panel.qml`) | drafts, focus | edit, confirm | service by IPC |
| journal, notifications, diagnostics (`Service.qml` 197-288, 800-820) | text | format | people |

What is hard: lines of the observer that come after the attempt they are about
has ended; the observer dying; a reload between any two steps and between a
write and the disk; numbers given twice; sleep signals of other transactions;
the two orders of "resumed" and "job removed"; edges of three idle monitors in
any order with a probe, a policy change, an attempt or a reload in between;
saves and reloads of one file at once; one step of a privileged replacement,
of an update or of an uninstall failing, and the command run again; an owner who
saves the shared menu while it is being rewritten; a hardware guard that fails,
runs out of time or overlaps with the next sleep.  `PROJECT.json` lists these hazards at their lines with
the property that watches each, or the reason none does.

What makes each correct: the coordinator asks for sleep at most once per
attempt, records one outcome for it, and never stays busy; the observer says
*completed* only of a transaction it witnessed and lets go of every attempt;
the trigger asks only after input and then a full idle delay, never over an
inhibitor; a save of the user policy builds on the policy its caller saw; a
mutation is reported with the policy that was submitted; the helper says what it
did, puts back what it found when it fails and, killed before a reset has
unlinked it, leaves that policy in the directory; an update run again after a
failure ends with the activation the first run found, an install leaves one
release, an uninstall nothing; the menu's rewriting touches only its own rows;
what a guard takes away for a sleep stays away until its end, and then returns.

## 2. Modules

| module | models | kind |
| --- | --- | --- |
| `SingleFlight` | what the coordinator promises: one flight at a time, serials never reused, one request per flight | abstract |
| `EvidenceContract` | what the observer promises the coordinator, and the two pipes between them | abstract |
| `StagedSleep` | the coordinator, its history and file, observer seen through `EvidenceContract` | detailed; implements `SingleFlight` |
| `StagedSleep_proofs` | proofs about it | proofs |
| `EvidenceObserver`, `MCEvidenceObserver` | the observer with logind, systemd and the bus | detailed; implements `EvidenceContract` |
| `EvidenceObserver_proofs` | proofs about it | proofs |
| `AutomaticTrigger` | the trigger with compositor, probe, policy and attempt reduced to what it reads | detailed |
| `AutomaticTrigger_proofs` | proofs about it | proofs |
| `UserPolicy` | the user policy file, its owner, the service's snapshot and writes, a caller's draft | detailed |
| `UserPolicy_proofs` | proofs about it | proofs |
| `PolicyStore` | what the privileged helper promises of the one policy file | abstract |
| `PolicyHelper` | the helper's two commands, call by call, with faults, kills and an administrator | detailed; implements `PolicyStore` |
| `PolicyHelper_proofs` | proofs about it | proofs |
| `SystemPolicy` | mutations and readbacks of the service, composed with `PolicyStore` | detailed |
| `SystemPolicy_proofs` | proofs about it | proofs |
| `NativeProbes` | what the probes conclude from the answers they get | operators |
| `Lifecycle`, `MCLifecycle` | the lifecycle commands, step by step, and the inventory; EXTENDS `NativeProbes` | detailed |
| `Lifecycle_proofs` | proofs about it and about `Menu` | proofs |
| `MenuText` | the menu's text: parsing, recognition, rewriting | operators |
| `Menu`, `MCMenu` | the two operations on the menu against its owner; EXTENDS `MenuText` | detailed |
| `MwifiexHook` | the Wi-Fi workaround's script, as the guard unit and `systemd-sleep` run it | detailed |
| `IptsdGuard` | the touch workaround's script | detailed |
| `SleepUnits` | the sleep services with both; EXTENDS the two | composition |
| `SleepUnits_proofs` | proofs about it | proofs |

`StagedSleep` and `EvidenceObserver` are two sides of one contract: the
coordinator is checked against an observer that may do anything
`EvidenceContract` allows, and the observer is shown to do nothing else.  So
what `StagedSleep` shows holds with the real observer, and neither model has to
carry the other's state.  `PolicyStore` stands in the same way between
`SystemPolicy`, which EXTENDS it, and `PolicyHelper`, which is shown, and proved,
to implement it.

Operators whose name starts with `Mutant` are wrong versions of the definition
after them: a dropped guard, a missing reset, a swapped order.  Each property of
a passing run is violated when the definition is replaced by its mutant, which
`PROJECT.json` records.

### StagedSleep

`doc` is `historyDocument`, `disk` the file, `writing` what was handed to
`FileView.setText` and has not been written: a later `setText` replaces it,
`FlushHistory` writes it, `FlushFails` loses it (the file view has no failure
handler).  `executing`, `current`, `awaiting`, `dispatched`, `armTimer`,
`ready` are `executionInProgress`, `lastSubmission`, `evidenceObserverAttemptId`,
`evidenceDispatchStarted`, `evidenceArmTimer.running`, `evidenceObserverReady`.
An attempt's `serial` is not in the code: it counts attempts over reloads, so
that two attempts the code calls by one identifier remain two; the code's
comparisons are `SameId`.  `requests` and `closed` are history variables.

An action per handler: `LoadHistory`, `ResetHistory`, `Submit` (all of
`_coordinateStagedSleep`), `SubmitUnpersisted` (its early return),
`RefuseBeforeSubmission`, `HandleArmed`, `HandleTerminal`, `ArmTimeout`,
`ObserverExited`, `SystemctlExits`, and `Reload`, after which the service has
only what is on disk.  `OpenAttempt` is the part two of them share.
`SubmitUnpersisted` leaves the open slot of `doc` to an attempt that does not
execute, as the code does; `OpenSlotAccountedFor` says what is true of it.

Two constants stand for what `src/` does not settle.  `EarlyRequests`: may a
request arrive after the boot identity is known and before the history file has
been read?  The runs say no; with TRUE an attempt can be forgotten when the file
then loads over it.  `Unreadable`: may the file exist and not be read?  The runs
say no; the code then behaves as if there were none.

### EvidenceObserver

`phase`, `baseline`, `job`, `jobDone` are the fields of
`EvidenceState.attempt`, `bus` the signals on their way to the process.
`written` and
`trail` are kept only for the properties.  Logind
and systemd are external: `LogindPrepares`, `JobStarts`, `JobEnds`,
`LogindResumes` send what they may send, for the attempt's unit or another, with
or without a request.  `Deadline` may come at any time in the two phases that
have one, which covers every clock; `awaiting-resume` has none.

### AutomaticTrigger

`expired`, `inhibited` and `queue` belong to the compositor, which sends an edge
to each of the three monitors when its timer expires or input comes; `idles` is
what the monitors have seen.  `fresh`, `rearm`, `baseline`, `inhibitedSeen`,
`stayAwake`, `evaluating`, `executing` are the service's properties; `toggle` is
the Stay Awake setting and `probe` what a running probe has read.  `since` is
kept for the property: what happened since the last automatic attempt (nothing,
input, or input and then the idle delay).  Policy, probes and attempts are
reduced to the steps that change what the trigger reads.  An attempt ends at any
time (`StagedSleep` says how).  `ResetHistory` is refused while an attempt
executes; the refusal for an open slot left behind is left out, which only adds
behaviours.

### UserPolicy

`file` is `user-policy.json`, which its owner may edit at any time; `snapshot`
and `accepted` are `policySnapshot` and `policyAccepted`; `pending` stands for
`policyWriteInFlight` and `pendingUserPolicy`, which the code sets and clears
together.  A text is a policy, canonical or not, or one of three that hold none.
The `FileView` reads asynchronously, so a read is two actions: `StartRead` takes
the text (the 100 ms timer, or a change notification) and `FinishRead` delivers
it, later and possibly stale.  A save waits for its write (`waitForJob`), so
`SaveUserPolicy` and `ResetUserPolicy` are one step each; the first write of a
missing file is put off by `Qt.callLater` and is `FinishWrite`.  `LoadUserPolicy`
is the whole handler: rejection, rewriting in canonical form with the next
revision, acceptance.  `draft` is what the panel or another caller has in front
of it, `edited` and `calm` serve the properties.

### PolicyHelper and PolicyStore

`pc` is where each invocation of the helper is; `wanted` what it was asked for
(`Absent` for a reset), `previous` what it read under the lock, `temp` and
`recovery` its own files, `result` the error on its way out.  `apply` goes
`filling`, `filled`, `checked`, `replaced`, `cleaning` (create and fill the
temporary, read the target again, exchange or rename, read back, unlink), with
`undoing` on the way back; `reset` goes `moving`, `moved`, `verified`, `removed`,
with `restoring`, `recreating`, `placing` on the way back.  `CallFails` is a
system call failing in a closure of `replace_and_verify` or `remove_and_verify`,
`RecoveryFails` one failing after it, `Kill` the end of the process anywhere.
The administrator (`Edit`) takes no lock; `disturbed` are the invocations during
which he wrote.  A file is what it holds; owner, mode and kind are part of
whether the helper recognizes it (`Foreign` if not).

`PolicyStore` keeps the turn, a stage, and the one step (`Commit`) at which an
invocation puts its policy in the place of the one it found; it may put that
back, and says it succeeded only if what was asked for is there.

### SystemPolicy

`busy`, `mutation`, `requested`, `effective`, `reason` are `systemPolicyBusy`,
`systemPolicyMutation`, `requestedSystemPolicy`, `effectiveSystemPolicy`,
`systemPolicyReasonCode`; `child` is `helperProcess`, `reader` and `probe` are
`effectivePolicyProcess` and `initialPolicyProbe`.  A readback is two steps, as
in `policy-readback.cjs`: it lists the merged configuration and then looks at
the owned file, and anyone may write in between.  The children go on by
themselves: the helper through `Advance`, and after a reload without anyone to
reap it for the service (`Forget`).  `submission` is the pair in
`helperProcess.command`.  Left out are `lastSystemPolicyMutationResult`, a text,
and files that the readback accepts and the helper does not (a delay out of
range).  Later files that override the owned one are the constant `Overrides`.

### NativeProbes and Lifecycle

`checkout`, `listed`, `readable`, `intent`, `rows`, `helper`, `policy`, `data`,
`cache` are what is on the machine: the directory
`plugins/dev.hibermachy`, the plugin's entry in `shell.json` and whether that
file parses, `lifecycle-update.json`, the owned menu rows, the helper's program,
the policy drop-in, the two user directories, `~/.cache/hibermachy`.  A checkout
is at a release, at the default branch (just added), changed by hand (`dirty`),
or in a state no command goes on from (`unusable`: half removed, not a
repository, a link).  A helper is of a release, or `stray`: a file there that
the package does not own.  `command`, `pc`, `release`, `current`, `before` are
the command that runs, its next step and the variables `currentActivation` and
`before` of `update`.  `chosen`, `contested`, `ready`, `meddled` are history
variables, `faults` and `edits` count against the bounds.

A step is one check or one call of another program, with everything the code
does up to the next.  `Then` says how a step with an effect ends: the command
goes on, or it ends although the call took effect (it reported an error, a
check right behind it failed, the process was killed).  `Interrupt` is a step
that fails without effect.  A kill may also catch a step half done: the record with
two names, the checkout half added, half removed or with a tree git was writing,
the build half made.  What that leaves is in no command's way by assumption:
`Ready` asks only that the command is one to run and that nothing of others
stands in its way, and `Stuck` names the leftovers a command is refused for.
`omarchy plugin disable` and `remove` are external, and work on a half removed
checkout or fail as any step may.  `setup` is `recipe`, `verify`, `add`, `pin`, `build`, `check`, `rows`;
`update` puts `intent`, `save`, `suspend` before them and `enable`, `clear`
after; `uninstall` and `purge` are `off`, `policy`, `reset`, `query`, `package`,
`absence`, `unlink`, `drop`, and `settings`, `state` for a purge.  The menu and
the helper are seen through what `Menu` and `PolicyHelper` are about: rows are
absent, ours or changed; a reset removes what the helper recognizes.

`Outside` are the others, between any two steps: Quattro or the operator switch
the plugin, edit or break `shell.json`, the checkout, the rows, an
administrator or the service writes the policy, somebody removes or replaces
the helper's file, the loaded service writes its directories.

`Inventory(w)` is what `status` and every command report, for a world `w` of
answers the shell, logind and the runtimes give.  `LiveReadiness` joins the
lifecycle's own checks and the two probes of `NativeProbes`, each with its own
comparison of protocols.

### MenuText and Menu

A text is the sequence of rows, commas and comments between the outer braces, or
has a `Broken` piece in it.  An owned row is `current`, `previous` (one of the
three earlier forms `recognizedEntry` accepts) or `modified`; others' rows have
keys of their own.  `Follows` says which piece comes next when comments are
skipped, so that parsing is a statement about neighbours: rows and commas take
turns.  `Reconciled` and `Removed` are the two rewritings, places for offsets:
the one puts `Addition` behind the text, the other takes the places in `Cuts`
out of it, and `Only` is the text at the places that stay.  In `Menu`, `file.version` is what `writeAtomically` compares
(device, inode, time, size) and `file.sole` whether the file has one name and is
otherwise safe; `Look`, `Stat`, `Read`, `Compare`, `Rename`, or `Link` and
`Unlink` for a menu that is not there, are the steps between which the owner
writes, deletes, or the process dies.  `late` says that somebody wrote after the
last look, the window the code leaves (148-149).

### MwifiexHook, IptsdGuard and SleepUnits

`module`, `marker`, `held` are the driver and the two records of
`hardware/mwifiex/sleep-hook`; `pc` is where each running script is, the guard
unit's (`hold`, `restore`) and the hook's (`pre`, `post`), which may run at once.
A step is one command with the test behind it; it may fail, `modprobe` may have
its effect although it failed or not although it did not, and a script may run
out of time (`Killed`).  `mask`, `recorded`, `daemon`, `touch` are the mask, the
inode on record, the daemon and the script of `hibermachy-iptsd-guard`; `masked`
is whether systemd has seen the mask, which it does at `daemon-reload`.  A mask
is a name for whose it is.

`SleepUnits` has the services: an ordinary sleep, whatever the hook says; a
staged sleep, which requires the Wi-Fi guard (`GuardStarts`, `GuardHolds`,
`GuardFails`), runs the touch guard before and after, goes down and wakes any
number of times, and at its end (`ServiceEnds`) loses its runtime directory and
leaves the Wi-Fi guard to restore.  systemd is external; what is assumed of it
is in the units and drop-ins (`Requires`, `After`, `StopWhenUnneeded`,
`ExecStopPost`, `RuntimeDirectory`).  One service at a time asks for sleep.
`calm` marks the moment from which no command fails.

Each command of the touch guard may fail, before or after its effect, and the
script may be killed between any two: a record may not be made, or be made and
be empty (`"blank"`).  `stranded` is a history variable: of the last mask made,
that it was not put on record, or that its removal was not reached.

The constant `Overlap` stands for what does not always hold: may an ordinary
sleep begin while the Wi-Fi guard still restores?  The run says no; section 5
says what happens otherwise.

## 3. Runs

| run | question | states | bounds |
| --- | --- | --- | --- |
| `sleep_core` | safety of attempts | 1.7 M | 2 attempts, fallback or not, 1 reload, history of 2 entries, no reset |
| `sleep_resets` | what the open slot is of, durability, refinement of `SingleFlight`, every attempt ends | 0.24 M | 2 attempts, 1 reload, resets |
| `evidence` | the observer's contract and completion | 0.69 M | 2 submissions, 2 units, 2 jobs, 2 sleeps |
| `automatic` | the trigger | 0.75 M | 2 undelivered notifications; reloads, attempts, policy changes unbounded |
| `user_policy` | the user policy | 84 k | revisions up to 3, which stands for the largest safe integer; 2 settings; edits, saves, resets, reloads unbounded |
| `policy_helper` | the helper, refinement of `PolicyStore` | 72 k | 2 invocations, 2 policies, 2 faults or kills, 2 writes by the administrator |
| `system_policy` | mutations and readbacks | 0.65 M | 1 helper process at a time, 2 policies, one of them also the override, or no override; mutations, reloads, edits unbounded |
| `lifecycle` | the lifecycle commands and the inventory | 5.4 M | 2 releases, 3 faults or kills, 2 changes by others; commands and the service's writes unbounded |
| `menu` | the menu's rewriting and its publication | 0.19 M | every text of up to 6 rows, commas and comments, and 3 malformed ones; 4 versions of the file; operations, failures and kills as many as versions allow |
| `sleep_units` | the hardware guards around every sleep | 33 k | none but the three attempts the code has; no overlap |
| `reused_identifier`, `interrupted_update` | section 5 | | |

Two attempts are the least for one attempt's evidence to meet another, and a
reload may fall before, between or after them; a history of two entries is
trimmed by the third outcome (refusals are outcomes too, and are not counted).
Two jobs and two sleeps give the observer a foreign transaction beside its own,
in both orders and overlapping.  Two notifications on their way let an
inhibitor's edge and an input's edge be out of step.  Two policies are the least
for an old and a new one; two invocations of the helper meet at the lock, one
fault puts an invocation on its way back and the second strikes there.  In
`system_policy` one process at a time runs the helper: what two at once do to the
file is `policy_helper`'s question, and the package's removal and helpers left
behind by a reload still come between any two steps of the service.

In `lifecycle` two releases are an older and a newer one whose protocols do not
overlap, so that a checkout of one and a helper of the other are told apart; the
newer manifest still speaks to the older helper, so the check of the protocol
alone does not do it.  Three faults interrupt an update, its rerun, and the
command after that; two changes by others come before and during a command.  The
worlds are the one in which everything is in order and eight with one answer
missing or refused.  In `menu` six pieces hold both owned rows next to others'
rows, first, last, apart, repeated or changed, with comments between and a comma
at the end; four versions are the text at first, an owner's edit before and
during an operation, and a publication.

In `sleep_units` nothing is bounded: the scripts and units have finitely many
states, and sleeps, failures, timeouts, boots and an administrator's masks come
any number of times.

Deadlock is checked in `system_policy` and `sleep_units` only: elsewhere, at its bounds or when
nobody asks for anything, the system rests.

**Fairness.**  `StagedSleep`: the arm timer fires, lines are read, a dead child
is reaped (Qt's event loop), and the observer eventually ends what it holds,
which is what `evidence` shows.  `EvidenceObserver`: the main loop reads signals
and submissions and runs its tick every 100 ms, and logind sends the resume
signal after the one that announces sleep.  `AutomaticTrigger`: the Stay Awake
probe, a short command, reads and exits.  `UserPolicy`: the reload timer fires,
reads are delivered, a write put off is done.  `SystemPolicy`: an invocation that
was started runs to its end, children are read and reaped, the five-second timer
fires; nobody need answer the launcher's authorization dialogue, and
`ReadbackSettles` is about the time after it.  No fairness is assumed of
requests, resets, reloads, edits, policy changes, `systemctl`, the disk, or the
user.  `Lifecycle` and `Menu` state no fairness and no liveness: a command ends
or is killed, and what it leaves is judged.  `SleepUnits`: scripts run on (or out
of time), systemd runs what follows; nobody need wake the machine, so
`WifiReturns` begins with a machine that is awake again, or with a sleep that is
being prepared, which may then go down instead.  `calm` marks, in the two policy
models, the moment from which nobody changes anything any more; what they must
come to is stated from there.

## 4. Proofs

TLAPS checks, for every value of the constants the ASSUMEs allow:

| theorem | says |
| --- | --- |
| `StagedSleep_proofs!TypeCorrect` | `Spec => []TypeOK` |
| `StagedSleep_proofs!OneRequestPerAttempt` | `Spec => []RequestAtMostOnce` |
| `StagedSleep_proofs!ImplementsSingleFlight` | `Spec => SingleFlightSpec` |
| `StagedSleep_proofs!OpenSlotIsKnown` | `~EarlyRequests => (Spec => []OpenSlotAccountedFor)` |
| `StagedSleep_proofs!OneOutcomePerAttempt` | `Spec => []HistoriesCloseOnce` |
| `StagedSleep_proofs!DurableOpenGetsOutcome` | `~EarlyRequests /\ ~Unreadable => (Spec => DurableOpenIsClosed)` |
| `StagedSleep_proofs!EndedByItsEvidence` | `MaxResets = 0 => (Spec => EvidenceEndsOwnAttempt)` |
| `StagedSleep_proofs!RequestsAreArmed` | `MaxResets = 0 /\ ~EarlyRequests => (Spec => RequestOnlyWhileArmed)` |
| `StagedSleep_proofs!SleptWasAsked` | `MaxResets = 0 => (Spec => SleptOnlyIfDispatched)` |
| `EvidenceObserver_proofs!ObserverTypeCorrect` | `Spec => []TypeOK` |
| `EvidenceObserver_proofs!ObserverKeepsContract` | `Spec => ImplementsContract` |
| `EvidenceObserver_proofs!CompletionIsWitnessed` | `Spec => CompletedIsWitnessed` |
| `AutomaticTrigger_proofs!TriggerTypeCorrect` | `Spec => []TypeOK` |
| `AutomaticTrigger_proofs!InhibitorsHoldBack` | `Spec => InhibitorHoldsBack` |
| `AutomaticTrigger_proofs!FreshInputForEachAttempt` | `Spec => AttemptFollowsInputAndIdle` |
| `UserPolicy_proofs!PolicyTypeCorrect` | `Spec => []TypeOK` |
| `UserPolicy_proofs!SavesBuildOnSeen` | `Spec => SaveBuildsOnSeen` |
| `UserPolicy_proofs!AcceptedIsDurable` | `Spec => []SnapshotIsDurable` |
| `UserPolicy_proofs!VerdictStands` | `Spec => [](Decided => []Settled)` |
| `PolicyHelper_proofs!HelperTypeCorrect` | `HelperSpec => []HelperTypeOK` |
| `PolicyHelper_proofs!PolicyKept` | `HelperSpec => []PolicySurvivesKill` |
| `PolicyHelper_proofs!SuccessIsInPlace` | `HelperSpec => SuccessInPlace` |
| `PolicyHelper_proofs!FailureIsUndone` | `HelperSpec => FailureRestores` |
| `PolicyHelper_proofs!ResetDestroysNothingElse` | `HelperSpec => ResetSparesOthers` |
| `PolicyHelper_proofs!KeepsStorePromise` | `HelperSpec => ImplementsPolicyStore` |
| `SystemPolicy_proofs!SystemTypeCorrect` | `Spec => []TypeOK` |
| `SystemPolicy_proofs!MutationReportedTruly` | `Spec => ReportIsOfSubmission` |
| `SystemPolicy_proofs!WhatIsShownStands` | `Spec => [](AtRest => []Settled)` |
| `Lifecycle_proofs!LifecycleTypeCorrect` | `LifecycleSpec => []LifecycleTypeOK` |
| `Lifecycle_proofs!ChoiceIsRestored` | `LifecycleSpec => RestoresActivation` |
| `Lifecycle_proofs!MovesWhileOff` | `LifecycleSpec => CheckoutMovesWhileOff` |
| `Lifecycle_proofs!AcceptedLeavesWhole` | `LifecycleSpec => AcceptedIsWhole` |
| `Lifecycle_proofs!InventoryIsTrue` | `LifecycleSpec => ReadyIffEnabled` |
| `Lifecycle_proofs!UninstallLeavesNothing` | `LifecycleSpec => UninstallIsComplete` |
| `Lifecycle_proofs!RerunAccepted` | `LifecycleSpec => RerunIsAccepted` |
| `Lifecycle_proofs!MenuTypeCorrect` | `MenuSpec => []MenuTypeOK` |
| `Lifecycle_proofs!RewritingIsExact` | `MenuSpec => []RewriteIsExact` |
| `Lifecycle_proofs!EditsKept` | `MenuSpec => OwnerEditsKept` |
| `SleepUnits_proofs!UnitsTypeCorrect` | `Spec => []TypeOK` |
| `SleepUnits_proofs!StaysAway` | `Spec => []KeptAway` |
| `SleepUnits_proofs!MaskNeverLeft` | `Spec => []MaskGoesWithService` |
| `SleepUnits_proofs!DriverNeverLost` | `~Overlap => (Spec => DriverAccountedFor)` |

A hypothesis in this table is one a property needs: TLC finds it violated
without.  Which states then violate it is said below or in section 5.

*At most one request.*  `RequestAtMostOnce` is not inductive: nothing in it says
that an attempt about to be dispatched was not requested before.  The
strengthening `FlightInv` adds that an executing attempt is the youngest begun,
that serials beyond the youngest have no requests, and that the attempt in
flight has none until it is dispatched.  The
proof goes by kinds of step: one that begins an attempt, one that dispatches it,
one that ends it, one that touches none of these.  The same step lemmas give
`SingleFlight`'s actions, hence the refinement.

*The open slot.*  `SlotInv` says of a coordinator that executes that the open
slot is the attempt in flight, and of one that does not that the slot is empty
or the file is rejected and nothing is on its way to it; before the history is
loaded nothing executes and the document in memory is empty, which is what
`~EarlyRequests` gives and what an early request would break.  `UnpersistedInv`
adds that an attempt in a slot left behind was neither requested nor closed.

*One outcome per attempt.*  `RecordInv` says of the document in memory, of what
the writer has and of the file that each closes an attempt at most once, knows
no serial beyond the last, and has no outcome of the attempt in flight.  Which of
the three a step copies from which does not matter, so it holds for early
requests, unreadable files and resets too.

*The durable open record.*  `DurableInv` follows an open record nobody has closed
from the file to the writer to memory: what the file has open is open in what
the writer has and, once loaded, in memory.  An early request is recorded in a
document that the file then replaces, and a file that cannot be read is taken
for none and overwritten: with either, TLC finds an open record gone without an
outcome.

*Evidence and attempts.*  `IdentityInv` is that one identifier names one attempt
among everything the coordinator and the observer still know: the attempt held,
the one in flight, and those in the two pipes.  It is what `resetHistory` takes
away by starting to count again; the run `reused_identifier` shows how.  With it,
an outcome ends the attempt it is about.  `CompletionInv` adds the order of the
pipe: before the completion of the attempt in flight is read, so was the
announcement on which `systemctl` was started.  `RequestsAreArmed` needs that
memory says the same as execution (`SlotInv`), hence `~EarlyRequests`.

*The observer's contract.*  `AttemptOK` relates job and baseline to an attempt
being held and armed; `StepOK` is that a step keeps the types and is a step of
the contract or a stutter.  Each handler has a lemma that shows `StepOK`.
`TrailInv` says what the signals seen so far show in each phase: the machine has
not gone down, has gone down once and not come back, has come back after it, the
job on record was seen to start, and, if done, to be removed after that.  A
signal more leaves what the earlier ones show, so completion, at the end, has
all of it behind it.

*The trigger.*  `LatchInv` relates the latch to what has happened: when it is
released (`fresh /\ ~rearm`) input has come since the last attempt, and when an
evaluation is also under way, so has the idle edge after that input.  A latch
spent while an evaluation runs stays spent until new input, which ends the idle
period; an attempt begins only from a released latch.

*Inhibitors.*  What the service believes lags behind the compositor by the
notifications on their way, so the property cannot be had from either alone.
`WordInv`: what the monitors would be after the whole queue is what the
compositor knows of them (`IdleAfter` handles the first notifications of the
queue).  `OrderInv`: word of the idle deadline comes only after word that the
user is idle.  `QuietInv`: under an inhibitor the monitors that respect it have
not expired.  `BeliefInv` relates what the service concludes to the monitors as
it saw them; in it an evaluation whose latch is free belongs to a user who is
idle.  The type invariant needs them too: without them a new policy could find
an idle edge on its way to a service that knows no monitors.  `Renewed` drops the
notifications of the monitors a new policy replaces; `Forget` says of what is
left that it is the rest in its order, which is what the proofs use.

*The user policy.*  `SaveBuildsOnSeen` rests on `RevisionInv`: a draft is the advertised
policy or has a lower revision, and a write put off has a higher one, so equal
revisions mean equal policies while a service lives.  `SnapshotIsDurable` rests
on `DurableInv`, which drops `accepted` from it and adds that the first read of
a file nobody edited is still what the file holds.

*The helper.*  None of its properties is inductive.  `HelperInv` adds to the
types: the lock's holder is exactly the invocation between its first read and
its end (`LockInv`); what an invocation's own files and memory are at each step,
whoever writes the target (`OwnInv`); and, while the administrator does not
write, what the target is at each step of the holder (`QuietInv`).  There is one
lemma per action.  The five properties are then read off at the step that ends
an invocation, and the refinement by the shape of each step: it goes on,
commits, withdraws, succeeds or gives in.

*The system policy.*  `ReportInv` follows a submission through its mutation: the
child is of a mutation, and never beside its readback (`ChildrenOK`); the
invocation the service waits for works on what was submitted and, undisturbed,
has it in place when it succeeds (`HelperOK`); from then on it is in place, and
the readback has found it (`ReadbackOK`).  `TurnOK` is about the store: an
invocation that has just begun is not disturbed, which is what a new one that
follows an abandoned one rests on.  The proofs assume that the names used for
"none", "launching" and "no file" are not names of anything else (`Distinct`,
`NoListings`); nothing is assumed of how many invocations run.

*The lifecycle.*  Nothing a command promises can be read off its last step.
`Course` says which command may be at which step and with which release.
`ChoiceKept` relates the saved activation, `before` and `current` to what the
operator chose, while nobody contests it: it is what survives failures and
reruns.  `OnCourse` says what a command that nothing stood in the way of has
established at each step (the plugin off before the checkout moves, the checkout
at the release before the build, the policy gone before the package), as long as
nobody meddles; `PackageLast` the part of it that holds for interrupted commands
too.  None of it says that the checkout is a tree, that the builds can be
examined or that the record has one name: `RerunAccepted` meets these where a
command looks at them, and finds that nothing else it looks at is the work of an
earlier one.  There is one step per action in each preservation proof, and the action properties are read off at the step
that ends the command.  `InventoryIsTrue` takes from `OnCourse` that the checkout
and the helper are of one release, and from `ReleasesAreWhole` that a release's
manifest speaks to its own helper; `AnswersAssumption` says that no answer of a
probe is taken for its absence.

*The menu.*  `Kept`: at `compare`, a file of the version that was examined has
the text that was read; at `rename`, so has the file, unless somebody wrote
late.  A version names one text because whoever writes begins a new one.
`MenuTexts` adds that every text is one of rows, commas and comments, which
`MenuAssumption` says of what others write, and that what is about to take the
menu's place is the accepted text that was read, rewritten; so `OwnerEditsKept`
rests on what rewriting does.  That is `RewriteIsExact`, for texts of any length
and any number of foreign rows, and needs no induction over the text:

- `Follows` relates places, and a text parses if each place agrees with its
  neighbours.  A neighbour there is exists (`NextPiece`, `PreviousPiece`, from
  the least and greatest place of a finite set) and is the only one
  (`OneNeighbour`).
- `Reconciled` leaves every old piece where it is, and `Addition` is one of a few
  short texts; only the last old piece has a new neighbour, and `Prefix` is a
  comma exactly if that piece is a row (`PrefixFacts`, `ReconciledParses`).
- `Removed` is the text at the places that stay, in the one order there is:
  `Listing(S)` is the only increasing enumeration of `S` (`ListingUnique`).  A row
  that stays keeps its comma unless it is the last, and a comma that stays keeps
  the row before it, because a comma is cut with the row before it, or with the
  last row if that one has none (`CutFacts`, `RemovedParses`).
- What is not the plugin's is neither replaced nor cut, and the places of it in
  the new text, seen in the old, are an increasing enumeration of the old ones:
  by `ListingUnique` the two texts agree there.

*The hardware guards.*  `PhaseInv` and `ScriptInv` say who runs when: service, guard
unit and touch script keep step, and the hook runs only around the machine's
sleep.  `HeldInv` and `DaemonInv` say, step by step, that a guard which says it
holds has put away what it guards and that udev cannot bring it back.  Neither
needs anything of the constants: `KeptAway` holds through overlaps and unwritten
records.  `MaskInv` follows the mask from its making to its removal: it is on record from
the step behind the recording on, and whoever fails before, or does not reach the
removal, has `stranded` it.
`AloneInv` says that the script runs once at a time and that a driver is taken
away only when it is on record, which an overlapping sleep breaks.

The type invariants of `StagedSleep`, `EvidenceObserver`, `PolicyHelper`,
`SystemPolicy`, `Lifecycle` and `Menu` are theorems and in no run.  Those of
`UserPolicy`, `AutomaticTrigger` and `SleepUnits` are in both: they bound the
revision, and say which parts of the state go together.

*What stands.*  `SettlesOnFile` and `ReadbackSettles` say that something comes to
be and then stays.  That it stays is proved: `Decided` and `AtRest` are closed
under every step and imply `Settled`.  Each says more than `Settled`, which a read
begun before the last edit, or a probe begun before the last mutation, may undo
once more.

Every safety property of every passing run is proved.  Only model-checked are the
liveness properties `EveryAttemptEnds`, `EveryHeldAttemptEnds`, `EvaluationEnds`,
`SettlesOnFile`, `ReadbackSettles` and `WifiReturns`, since the prover has no rule
for fairness or ENABLED.  No module declares a recursive operator.

## 5. Where the code and what is said of it part

A run shows each of these:

- `reused_identifier`.  After `resetHistory` numbers start at 1 again
  (`Service.qml` 1065).  An attempt that timed out, still held by the observer,
  and the first one after the reset have one identifier; the old one's
  completion closes the new one, whose request never went out.  `sleep_core`
  shows the same property holds with no reset.
- `interrupted_update`.  An install killed while makepkg builds leaves a
  directory whose `pkg/` may not be read; only a failure that is caught removes
  it (`lifecycle/production.mjs` 290).  The next setup or update begins with
  `validatePurgeTree(releaseCache)` (268), which walks all of it and throws.
  The comment at 293 calls a leftover build directory harmless, and `README.md`
  142-144 says to rerun the same `update`.

Seen while modelling, by reading or by a run that is not kept:

- With `Overlap = TRUE`, `DriverAccountedFor` fails: an ordinary sleep that
  begins while the guard still restores (which may take 102 seconds) touches the
  marker the restoration is about to remove (`sleep-hook` 36), and unloads the
  driver it has just loaded; the driver is gone with no record, although the
  README of `hardware/mwifiex`, 5-6, says the record comes before the removal.
- If `hold` cannot write its record (`hibermachy-iptsd-guard` 57) or is killed
  before it has, `restore` finds none (17), or one that does not fit (72); if
  `restore` is killed before line 21, the record goes with the service's runtime
  directory.  Either way the mask stays, keeps the daemon off, and makes every
  later `hold`, hence every later staged sleep, fail (48-49) until the next
  boot.  The README of `hardware/iptsd`, 12 and 16-18, says that the post action
  restores the daemon after a failed preparation too.  `MaskGoesWithService`
  says that nothing else leaves a mask.
- A reset of the system policy that moved away a file it does not recognize
  returns that error at once (`src/secure_fs.rs` 374); the comment at 389-390
  says the prior policy is then recreated.  The administrator's file stays under
  the temporary name and the target is absent.
- A kill between `linkSync` and `unlinkSync` (`production.mjs` 349, `menu.mjs`
  144-145) leaves the saved activation, or a new menu, with two names, and it is
  refused from then on.  `Lifecycle` has the first among what `Stuck` names.
- A kill while the checkout is added (`production.mjs` 232) or removed (378, 414)
  can leave a directory that every later `setup` and `update` refuses (234-235),
  and a kill while git moves it (242) a changed tree, which they refuse too
  (238).  `README.md` 166 says that rerunning after a partial failure is safe of
  `uninstall`, and of that it is true: `RerunIsAccepted` without an exception.
- A saved activation survives `disable` and `activate`
  (`production.mjs` 359): an update that failed, a `disable` and another update
  end with the plugin enabled, as before the first.  `README.md` 142-144 can be
  read either way; `RestoresActivation` leaves such a `contested` choice open.
- With a pending update and a `shell.json` that cannot be parsed,
  `currentActivation` is null, line 361 does not disable, and the checkout may
  move under a loaded plugin.  A checkout removed by hand while the plugin is
  listed makes `disable` skip the shell (375-377), and a later `setup` ends
  with the plugin enabled.  Both need a change by others (`Alone` excludes them).
- A request made while the history file is rejected takes the open slot in
  memory and then fails to persist (`Service.qml` 1216-1220); until a refused
  request or a reload frees it, a reset of the history is refused (1051).
- `openAttemptPersistedBeforeEnqueue: true` (1224) is written when the text has
  been handed to an asynchronous writer, not when the file has it.
- A save of the user policy compares its revision with the snapshot in memory
  (1023) and overwrites an edit the service has not read yet.
- The lifecycle's `recognizedPolicy` (`production.mjs` 296-303) takes leading
  zeros in the delay, which the helper's does not (`secure_fs.rs` 214-239).

## 6. Plan

Done, in order of importance: the sleep coordinator and its observer, the
trigger, the user policy, the helper and the system policy; the lifecycle
commands with the native probes, the shared menu, and the hardware guards.  Left:

1. The readback's merge as an operator: which drop-in wins, against a reference
   definition.
2. The abandoned `systemctl` of an attempt that has ended, beside the child of
   the next one (a hazard no property covers yet).

## 7. Not modelled

The simulated paths of test mode; the text of journal, notifications and
diagnostics; the history's retry timer (a write that fails in the model may be
lost for good, which is the weaker assumption); the boot identity beyond "known
when requests arrive"; a clock that runs backwards in `trimHistory` (the entry
just appended is young); the archive of rejected history beyond success and
failure; the observer's buffered stdin (a second line in one read is left for
the next wake-up; the coordinator's arm timer covers it).  An administrator's
write to the helper's own temporary files, directory creation (part of starting
or refusing), and the parsing of the helper's arguments.

Of the lifecycle: two commands at once (nothing in the code keeps them apart; a
part of what the second would do is among the others' changes); the parsing of a
recipe, hashes and signatures (a release is its name, and a step that finds them
wrong fails); owner, mode and kind of each file beyond "can be examined";
`purge` without confirmation, which is `uninstall`; temporary files a kill leaves
behind under their random names; the inventory's wording.  Of the probes: the
transport of an answer (it is there, or it is `None`) and the lid action, which
nothing decides on.  Of the menu: characters, so `stringEnd`, `compoundEnd`,
`valueEnd` (`menu.mjs` 33-64) and the layout of what is inserted; comments inside
a row of the plugin's (a comment stands between pieces); the directories above the
menu, which are safe or the step fails.

Of the guards: a restoration by hand (it is the script's `restore` once more);
other units named like the daemon's, which make `hold` fail as any of its commands
may; a `modprobe` that outlives its script by more than the step it was in; an
administrator who changes the mask while the touch guard runs.  Their installers
copy files while nothing sleeps.

Panel, journal and diagnostics have no module; packaging,
dialogs, panel layout, tests and verification scripts are presentation or
infrastructure.
