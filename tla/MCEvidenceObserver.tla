------------------------- MODULE MCEvidenceObserver -------------------------
(***************************************************************************)
(* Two attempts for one unit, so that what happens to the job of one may   *)
(* be taken for what happens to the other; another unit may sleep too.     *)
(***************************************************************************)
EXTENDS EvidenceObserver, TLC

CONSTANTS a1, a2, suspend, staged

MCSubmissions == {a1, a2}
MCUnits == {suspend, staged}
MCUnitOf == (a1 :> staged) @@ (a2 :> staged)
=============================================================================
