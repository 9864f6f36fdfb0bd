------------------------------ MODULE MCBridge ------------------------------
(* Small instances of Bridge for TLC: an actor on each of two workers, a      *)
(* callback of the host and one of the first worker.                         *)
EXTENDS Bridge, TLC

CONSTANTS w1, w2, a1, a2, f0, f1

TwoWorkers == {w1, w2}
HomeOf == (a1 :> w1) @@ (a2 :> w2) @@ (f0 :> Host) @@ (f1 :> w1)
=============================================================================
