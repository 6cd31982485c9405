---------------------------- MODULE MCLifecycle ----------------------------
(***************************************************************************)
(* Protocols for two releases: the newer one's manifest still asks for     *)
(* what the older helper speaks, and not the other way round.  The default *)
(* branch and a changed checkout ask for more.                             *)
(***************************************************************************)
EXTENDS Lifecycle, TLC

CONSTANTS r1, r2

Protocols(a, b) == [min |-> a, max |-> b]
MCSpeaks == r1 :> Protocols(1, 1) @@ r2 :> Protocols(2, 2)
MCWants ==
  r1 :> Protocols(1, 1) @@ r2 :> Protocols(1, 2) @@
  "branch" :> Protocols(3, 3) @@ "dirty" :> Protocols(1, 1)

\* One answer at a time is not the one hoped for.
Sound ==
  [shell |-> TRUE, features |-> TRUE, version |-> 4, runtime |-> "compatible",
   can |-> [q \in Questions |-> "yes"], block |-> "", boot |-> "boot",
   readback |-> [requested |-> None, effective |-> [delay |-> 7200, onAc |-> FALSE]]]

MCWorlds ==
  {Sound,
   [Sound EXCEPT !.shell = FALSE],
   [Sound EXCEPT !.features = FALSE],
   [Sound EXCEPT !.version = None],
   [Sound EXCEPT !.runtime = "incomplete"],
   [Sound EXCEPT !.can["CanHibernate"] = "challenge"],
   [Sound EXCEPT !.can["CanSuspendThenHibernate"] = "unheard-of"],
   [Sound EXCEPT !.block = None],
   [Sound EXCEPT !.readback = None]}
=============================================================================
