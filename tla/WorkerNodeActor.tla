-------------------------- MODULE WorkerNodeActor --------------------------
(***************************************************************************)
(* Without a call timeout the mailbox, the request protocol and the worker *)
(* thread together implement SerialActor: dispose, crashes, errors and     *)
(* destroys included.                                                      *)
(***************************************************************************)
EXTENDS WorkerNode

ActorStatus(op) ==
  IF ~InMailbox(op) THEN "idle"
  ELSE IF op \in executing \cup closing THEN "serving"
  ELSE IF op \in begun \/ Settled(op) THEN "done"
  ELSE "waiting"

Actor == INSTANCE SerialActor WITH
  Tasks <- Ops,
  Actors <- ObjectIds,
  NoActor <- 0,
  status <- [op \in Ops |-> ActorStatus(op)],
  actor <- [op \in Ops |-> IF InMailbox(op) THEN obj[op] ELSE 0],
  before <- earlier,
  removals <- {op \in Ops : InMailbox(op) /\ kind[op] \in DestroyKinds},
  served <- begun

\* The calls and destroys of one actor are served one by one in the order the
\* callers issued them, and none after a destroy.
ServesSerially == Actor!Spec
=============================================================================
