---------------------------- MODULE MCWorkerNode ----------------------------
(* Small instances of WorkerNode for TLC: operations are interchangeable.    *)
EXTENDS WorkerNodeActor, TLC

OpSymmetry == Permutations(Ops)
=============================================================================
