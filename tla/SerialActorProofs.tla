------------------------- MODULE SerialActorProofs -------------------------
(***************************************************************************)
(* What SerialActor promises holds for any tasks and actors.               *)
(*                                                                         *)
(* The argument: a task is served only when everything submitted before it *)
(* is done, and of any two tasks of an actor one was submitted before the  *)
(* other, so both cannot be in service.                                    *)
(***************************************************************************)
EXTENDS SerialActor, TLAPS

Statuses == {"idle", "waiting", "serving", "done"}

Typed ==
  /\ status \in [Tasks -> Statuses]
  /\ actor \in [Tasks -> Actors \cup {NoActor}]
  /\ before \in [Tasks -> SUBSET Tasks]
  /\ removals \subseteq Tasks
  /\ served \subseteq Tasks

Idle(t) == status[t] = "idle"

IdleIsFresh ==
  /\ \A t \in Tasks : Idle(t) => actor[t] = NoActor /\ t \notin removals \cup served
  /\ \A t \in Tasks : \A s \in before[t] : ~Idle(s)

\* one of any two tasks of an actor was submitted before the other
Ordered ==
  \A s, t \in Tasks :
    ~Idle(s) /\ ~Idle(t) /\ actor[s] = actor[t] /\ s # t
      => s \in before[t] \/ t \in before[s]

\* a task has its turn when everything before it is done
InTurn ==
  \A t \in Tasks : status[t] = "serving" => \A s \in before[t] : status[s] = "done"

SInv == Typed /\ IdleIsFresh /\ Ordered /\ InTurn

LEMMA InitSInv == Init => SInv
  BY DEF Init, SInv, Typed, Statuses, IdleIsFresh, Idle, Ordered, InTurn

LEMMA SubmitKeeps ==
  ASSUME NoActor \notin Actors, SInv, NEW t \in Tasks, NEW o \in Actors, Submit(t, o)
  PROVE  SInv'
<1> USE DEF SInv, Submit, Idle
<1>1. /\ \A s \in Tasks \ {t} : /\ status'[s] = status[s]
                                /\ actor'[s] = actor[s]
                                /\ before'[s] = before[s]
      /\ status'[t] = "waiting" /\ actor'[t] = o
      /\ before'[t] = {s \in Tasks : actor[s] = o}
      /\ t \notin before'[t]
  BY DEF Typed, IdleIsFresh
<1>2. Typed'
  BY DEF Typed, Statuses
<1>3. IdleIsFresh'
  BY <1>1 DEF IdleIsFresh, Typed
<1>4. Ordered'
  BY <1>1 DEF Ordered, IdleIsFresh, Typed
<1>5. InTurn'
  BY <1>1 DEF InTurn, IdleIsFresh, Typed
<1> QED
  BY <1>2, <1>3, <1>4, <1>5

LEMMA ServeKeeps ==
  ASSUME SInv, NEW t \in Tasks, Serve(t)
  PROVE  SInv'
<1> USE DEF SInv, Serve, Idle
<1>1. /\ \A s \in Tasks \ {t} : status'[s] = status[s]
      /\ status[t] = "waiting" /\ status'[t] \in {"serving", "done"}
  BY DEF Typed
<1>2. Typed'
  BY DEF Typed, Statuses
<1>3. IdleIsFresh' /\ Ordered'
  BY <1>1 DEF IdleIsFresh, Ordered, Typed
<1>4. InTurn'
  BY <1>1 DEF InTurn, Typed
<1> QED
  BY <1>2, <1>3, <1>4

LEMMA EndKeeps ==
  ASSUME SInv, NEW T \in SUBSET Tasks, End(T)
  PROVE  SInv'
<1> USE DEF SInv, End, Idle
<1>1. \A s \in Tasks : /\ s \notin T => status'[s] = status[s]
                       /\ s \in T => ~Idle(s) /\ status'[s] = "done"
  BY DEF Typed
<1>2. Typed'
  BY DEF Typed, Statuses
<1>3. IdleIsFresh' /\ Ordered' /\ InTurn'
  BY <1>1 DEF IdleIsFresh, Ordered, InTurn, Typed
<1> QED
  BY <1>2, <1>3

LEMMA SerialInvariance ==
  ASSUME NoActor \notin Actors
  PROVE  Spec => []SInv
<1>1. SInv /\ [Next]_vars => SInv'
  <2> SUFFICES ASSUME SInv, [Next]_vars PROVE SInv'
    OBVIOUS
  <2>1. CASE \E t \in Tasks, o \in Actors : Submit(t, o)
    BY <2>1, SubmitKeeps
  <2>2. CASE \E t \in Tasks : Serve(t)
    BY <2>2, ServeKeeps
  <2>3. CASE \E T \in SUBSET Tasks : End(T)
    BY <2>3, EndKeeps
  <2>4. CASE UNCHANGED vars
    BY <2>4 DEF vars, SInv, Typed, IdleIsFresh, Idle, Ordered, InTurn
  <2> QED
    BY <2>1, <2>2, <2>3, <2>4 DEF Next
<1> QED
  BY InitSInv, <1>1, PTL DEF Spec

\* An actor serves one task at a time: the mailbox of worker-node.ts as its
\* callers may rely on it.
THEOREM SerialIsExclusive ==
  ASSUME NoActor \notin Actors
  PROVE  Spec => []OneAtATime
<1>1. SInv => OneAtATime
  BY DEF SInv, OneAtATime, Ordered, InTurn, Typed, Idle
<1> QED
  BY <1>1, SerialInvariance, PTL
=============================================================================
