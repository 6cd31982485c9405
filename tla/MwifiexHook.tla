----------------------------- MODULE MwifiexHook -----------------------------
(***************************************************************************)
(* The Wi-Fi workaround's script, hardware/mwifiex/sleep-hook, as the      *)
(* guard unit runs it (hold, restore) and as systemd-sleep does (pre,      *)
(* post): the two may run at once.  Operators named Mutant... are wrong    *)
(* versions of the definition that follows them.                           *)
(***************************************************************************)
EXTENDS Naturals

VARIABLES
  module,    \* the driver is loaded
  marker,    \* /run/mwifiex-unloaded-for-hibernate
  held,      \* /run/hibermachy-mwifiex-staged-sleep
  pc,        \* the next step of a running script, or how it ended
  attempt,   \* of a restoration
  calm       \* nothing fails any more

records == <<marker, held>>
wifiVars == <<module, records, pc, attempt>>

Scripts == {"guard", "hook"}
Steps == {"hold", "mark", "unload", "find", "try", "load", "clear", "release"}

WifiTypeOK ==
  /\ module \in BOOLEAN /\ marker \in BOOLEAN /\ held \in BOOLEAN
  /\ pc \in [Scripts -> Steps \cup {"off", "ok", "failed"}]
  /\ attempt \in [Scripts -> 1..3]
  /\ calm \in BOOLEAN

At(script, step) == pc[script] = step /\ UNCHANGED calm
Go(script, step) == pc' = [pc EXCEPT ![script] = step]
Fail(script) == ~calm /\ Go(script, "failed")

-----------------------------------------------------------------------------
Hold ==
  /\ At("guard", "hold")
  /\ \/ held' = TRUE /\ Go("guard", "mark")
     \/ UNCHANGED held /\ Fail("guard")
  /\ UNCHANGED <<module, marker, attempt>>

MutantMark(script) ==
  /\ At(script, "mark")
  /\ \/ ~module /\ ~marker /\ UNCHANGED marker /\ Go(script, "ok")
     \/ (module \/ marker) /\ marker' = TRUE /\ Go(script, "unload")
     \/ ~calm /\ module /\ UNCHANGED marker /\ Go(script, "unload")
  /\ UNCHANGED <<module, held, attempt>>

\* prepare: what is taken away is put on record first.
Mark(script) ==
  /\ At(script, "mark")
  /\ \/ ~module /\ ~marker /\ UNCHANGED marker /\ Go(script, "ok")
     \/ (module \/ marker) /\ marker' = TRUE /\ Go(script, "unload")
     \/ (module \/ marker) /\ UNCHANGED marker /\ Fail(script)
  /\ UNCHANGED <<module, held, attempt>>

\* modprobe -r may have taken the driver away although it failed, or not
\* although it did not.
Unload(script) ==
  /\ At(script, "unload")
  /\ \/ module' = FALSE /\ Go(script, "ok")
     \/ module /\ module' \in BOOLEAN /\ Fail(script)
  /\ UNCHANGED <<records, attempt>>

\* The guard's restoration is over once it has let go.
Restored(script) == IF script = "guard" THEN "release" ELSE "ok"

\* restore: there may be nothing to do.
Find(script) ==
  /\ At(script, "find")
  /\ Go(script, IF script = "guard" /\ ~held THEN "ok"
                ELSE IF marker THEN "try" ELSE Restored(script))
  /\ attempt' = [attempt EXCEPT ![script] = 1]
  /\ UNCHANGED <<module, records>>

MutantAgain(script) ==
  /\ ~calm
  /\ IF attempt[script] > 3
       THEN Go(script, "failed") /\ UNCHANGED attempt
       ELSE Go(script, "try") /\ attempt' = [attempt EXCEPT ![script] = @ + 1]

\* An attempt has failed.
Again(script) ==
  /\ ~calm
  /\ IF attempt[script] = 3
       THEN Go(script, "failed") /\ UNCHANGED attempt
       ELSE Go(script, "try") /\ attempt' = [attempt EXCEPT ![script] = @ + 1]

\* A driver that is there may be unwell, and is taken away first.
Try(script) ==
  /\ At(script, "try")
  /\ \/ module' \in {FALSE, module /\ ~calm} /\ Go(script, "load") /\ UNCHANGED attempt
     \/ module /\ module' \in BOOLEAN /\ Again(script)
  /\ UNCHANGED records

Load(script) ==
  /\ At(script, "load")
  /\ \/ module' = TRUE /\ Go(script, "clear") /\ UNCHANGED attempt
     \/ module' \in {module, TRUE} /\ Again(script)
  /\ UNCHANGED records

Clear(script) ==
  /\ At(script, "clear")
  /\ \/ marker' = FALSE /\ Go(script, Restored(script))
     \/ UNCHANGED marker /\ Fail(script)
  /\ UNCHANGED <<module, held, attempt>>

Release ==
  /\ At("guard", "release")
  /\ \/ held' = FALSE /\ Go("guard", "ok")
     \/ UNCHANGED held /\ Fail("guard")
  /\ UNCHANGED <<module, marker, attempt>>

\* A script runs out of time; what it has asked of the driver may still happen.
Killed(script) ==
  /\ pc[script] \in Steps
  /\ Fail(script)
  /\ module' \in {module} \cup (CASE pc[script] \in {"unload", "try"} -> {FALSE}
                                  [] pc[script] = "load" -> {TRUE}
                                  [] OTHER -> {})
  /\ UNCHANGED <<records, attempt, calm>>

MutantFirstStep(phase, staged) == IF phase = "pre" THEN "mark" ELSE "find"

\* pre and post: in a staged sleep the guard owns the driver.
FirstStep(phase, staged) ==
  IF staged /\ held THEN "ok" ELSE IF phase = "pre" THEN "mark" ELSE "find"

ScriptStep(script) ==
  \/ Mark(script) \/ Unload(script) \/ Find(script) \/ Try(script) \/ Load(script) \/ Clear(script)
  \/ script = "guard" /\ (Hold \/ Release)
=============================================================================
