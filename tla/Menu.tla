-------------------------------- MODULE Menu --------------------------------
(***************************************************************************)
(* reconcileMenu, removeOwnedMenu and writeAtomically of                   *)
(* lifecycle/menu.mjs: the menu is examined, read, rewritten under a       *)
(* temporary name, examined again and replaced, while its owner and other  *)
(* programs edit it and the process may be killed.                         *)
(* Operators named Mutant... are wrong versions of the definition that     *)
(* follows them.                                                           *)
(***************************************************************************)
EXTENDS MenuText

CONSTANTS
  Texts,       \* what the menu may hold at first
  Edits,       \* what others write to it
  MaxVersions  \* the versions others write and commands begin with

ASSUME MenuAssumption ==
  /\ MaxVersions \in Nat
  /\ Nothing \notin Nat
  /\ Nothing \notin Operations
  /\ Texts \cup Edits \subseteq Seq(Pieces)

VARIABLES
  file,       \* the menu: its text, its version (device, inode, time and
              \* size) and whether it is the one name of a safe file; or Nothing
  versions,   \* the versions so far
  operation,  \* the operation that runs, or Nothing
  phase,      \* its next step
  seen,       \* the version that was examined, or Nothing
  source,     \* the text that was read
  next,       \* the text to publish
  outcome,    \* how the last operation ended
  late        \* somebody wrote since the last check before the publication

menuVars == <<file, versions, operation, phase, seen, source, next, outcome, late>>

File(t, v, s) == [text |-> t, version |-> v, sole |-> s]

MenuTypeOK ==
  /\ versions \in Nat
  /\ file = Nothing \/ (file.version \in 0..versions /\ file.sole \in BOOLEAN)
  /\ operation \in Operations \cup {Nothing}
  /\ phase \in {"idle", "look", "stat", "read", "compare", "link", "unlink", "rename"}
  /\ (phase = "idle") <=> (operation = Nothing)
  /\ seen \in 0..versions \cup {Nothing}
  /\ (phase \in {"read", "compare", "rename"}) <=> (seen # Nothing)
  /\ outcome \in {"none", "reconciled", "removed", "unchanged", "refused"}
  /\ late \in BOOLEAN

Unread == <<>>

MenuInit ==
  /\ file \in {File(t, 0, s) : t \in Texts, s \in BOOLEAN} \cup {Nothing}
  /\ versions = 0
  /\ operation = Nothing /\ phase = "idle"
  /\ seen = Nothing /\ source = Unread /\ next = Unread
  /\ outcome = "none" /\ late = FALSE

End(result) ==
  /\ outcome' = result
  /\ operation' = Nothing /\ phase' = "idle"
  /\ seen' = Nothing /\ source' = Unread /\ next' = Unread /\ late' = FALSE

Done == End(IF operation = "reconcile" THEN "reconciled" ELSE "removed")
Decline == End("refused") /\ UNCHANGED <<file, versions>>

-----------------------------------------------------------------------------
(***************************************************************************)
(* The operations.                                                         *)
(***************************************************************************)

Begin(op) ==
  /\ phase = "idle" /\ versions < MaxVersions
  /\ operation' = op /\ phase' = "look" /\ outcome' = "none"
  /\ UNCHANGED <<file, versions, seen, source, next, late>>

\* A menu that is not there is created whole, in directories that are safe.
Look ==
  /\ phase = "look"
  /\ IF file # Nothing
     THEN phase' = "stat" /\ UNCHANGED <<file, versions, operation, seen, source, next, outcome,
                                      late>>
     ELSE \/ operation = "remove" /\ End("unchanged") /\ UNCHANGED <<file, versions>>
          \/ /\ operation = "reconcile"
             /\ next' = Whole /\ phase' = "link"
             /\ UNCHANGED <<file, versions, operation, seen, source, outcome, late>>

ValidMenuPath == file # Nothing /\ file.sole

Stat ==
  /\ phase = "stat"
  /\ IF ValidMenuPath
     THEN /\ seen' = file.version /\ phase' = "read"
          /\ UNCHANGED <<file, versions, operation, source, next, outcome, late>>
     ELSE Decline

\* The text that was read is checked, rewritten, and checked again.
Read ==
  /\ phase = "read"
  /\ LET rewritten == Rewritten(operation, file.text)
     IN CASE file = Nothing \/ ~CheckedDocument(file.text) -> Decline
          [] file # Nothing /\ CheckedDocument(file.text) /\ rewritten = file.text ->
               End("unchanged") /\ UNCHANGED <<file, versions>>
          [] OTHER ->
               IF CheckedDocument(rewritten)
               THEN /\ source' = file.text /\ next' = rewritten
                    /\ phase' = "compare"
                    /\ UNCHANGED <<file, versions, operation, seen, outcome, late>>
               ELSE Decline

\* Only its presence is looked at again.
MutantCompare ==
  /\ phase = "compare"
  /\ IF ValidMenuPath
     THEN phase' = "rename" /\ late' = FALSE /\ UNCHANGED <<file, versions, operation, seen,
                                                         source, next, outcome>>
     ELSE Decline

\* The text is under its temporary name: the menu is examined once more.
Compare ==
  /\ phase = "compare"
  /\ IF ValidMenuPath /\ file.version = seen
     THEN phase' = "rename" /\ late' = FALSE /\ UNCHANGED <<file, versions, operation, seen,
                                                         source, next, outcome>>
     ELSE Decline

Rename ==
  /\ phase = "rename"
  /\ versions' = versions + 1
  /\ file' = File(next, versions', TRUE)
  /\ Done \/ End("refused")

\* A link never takes the place of a file.
Link ==
  /\ phase = "link"
  /\ IF file = Nothing
     THEN /\ versions' = versions + 1
          /\ file' = File(next, versions', FALSE)
          /\ phase' = "unlink"
          /\ UNCHANGED <<operation, seen, source, next, outcome, late>>
     ELSE Decline

\* The temporary name goes, and the menu is the file's only one.
Unlink ==
  /\ phase = "unlink"
  /\ file' = IF file = Nothing THEN Nothing ELSE File(file.text, file.version, TRUE)
  /\ Done \/ End("refused")
  /\ UNCHANGED versions

\* A step fails without effect, or the process is killed before it.
Abort == phase # "idle" /\ Decline

-----------------------------------------------------------------------------
(***************************************************************************)
(* The others: a new text in place or by a new file, or no menu at all.    *)
(***************************************************************************)

Write ==
  /\ versions < MaxVersions /\ versions' = versions + 1
  /\ \E t \in Edits : \E s \in (IF file = Nothing THEN {TRUE} ELSE {file.sole, TRUE}) :
       file' = File(t, versions', s)
  /\ late' = (phase = "rename")
  /\ UNCHANGED <<operation, phase, seen, source, next, outcome>>

Delete ==
  /\ file # Nothing
  /\ versions < MaxVersions /\ versions' = versions + 1
  /\ file' = Nothing
  /\ late' = (phase = "rename")
  /\ UNCHANGED <<operation, phase, seen, source, next, outcome>>

-----------------------------------------------------------------------------
MenuStep == Look \/ Stat \/ Read \/ Compare \/ Rename \/ Link \/ Unlink \/ Abort

MenuNext ==
  \/ \E op \in Operations : Begin(op)
  \/ MenuStep
  \/ Write
  \/ Delete

MenuSpec == MenuInit /\ [][MenuNext]_menuVars

-----------------------------------------------------------------------------
(***************************************************************************)
(* Properties.                                                             *)
(***************************************************************************)

\* All that others wrote: their rows and comments.
NotOurs(text) == {i \in DOMAIN text : text[i] # Comma /\ text[i].key \notin Owned}

\* What a publication replaces is the text that was read, and of that text all
\* that is not the plugin's is in what it publishes, in its order: an edit made
\* while the operation runs is lost only if it falls between the last look and
\* the rename, and a menu that comes to be in the meantime is never replaced
\* (writeAtomically).
OwnerEditsKept ==
  [][/\ phase = "rename" /\ phase' = "idle" /\ file' # file /\ ~late =>
           /\ file # Nothing /\ file.text = source
           /\ Only(file'.text, NotOurs(file'.text)) = Only(file.text, NotOurs(file.text))
     /\ phase = "link" /\ phase' = "unlink" => file = Nothing]_menuVars

\* Whatever others have written around the plugin's rows, a text that is
\* accepted is rewritten into one that is accepted again, so that the second
\* check never refuses: others' rows and comments are all there in their order,
\* the plugin's rows are there once each in their present form or not at all,
\* and the operation run again finds nothing to do (checkedDocument,
\* reconcileMenu, removeOwnedMenu).
RewriteIsExact ==
  phase = "read" /\ file # Nothing /\ CheckedDocument(file.text) =>
    LET result == Rewritten(operation, file.text)
    IN /\ CheckedDocument(result)
       /\ Only(result, NotOurs(result)) = Only(file.text, NotOurs(file.text))
       /\ InspectMenu(result) = IF operation = "remove" THEN "missing" ELSE "compatible"
       /\ \A i \in Mine(result) : result[i] = Current(result[i].key)
       /\ Rewritten(operation, result) = result
=============================================================================
