----------------------------- MODULE MCCallbacks -----------------------------
(* A small instance of Callbacks for TLC: an actor on each of two workers.   *)
EXTENDS Callbacks, TLC

CONSTANTS w1, w2, a1, a2

HomeOf == (a1 :> w1) @@ (a2 :> w2)
=============================================================================
