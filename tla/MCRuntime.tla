----------------------------- MODULE MCRuntime -----------------------------
(* Small instances of Runtime for TLC. Keys are told apart by the worker they *)
(* are placed on; calls are numbered, so that no symmetry is left in them.    *)
EXTENDS Runtime, TLC

CONSTANTS k1, k2

\* the keys of one worker each
PlaceBoth == (k1 :> 0) @@ (k2 :> 1)
PlaceOne == k1 :> 0
=============================================================================
