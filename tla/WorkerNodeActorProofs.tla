------------------------ MODULE WorkerNodeActorProofs ------------------------
(***************************************************************************)
(* A node without call timeout implements SerialActor, for any number of   *)
(* operations and actors.                                                  *)
(*                                                                         *)
(* The argument: a quiet step ends some tasks or none, a step of the thread *)
(* touches the task it handles only, and what precedes a task that begins  *)
(* has settled (BeginsInTurn), which without timeouts means that the       *)
(* thread is done with it as well (NothingAbandoned).                      *)
(***************************************************************************)
EXTENDS WorkerNodeActor, WorkerNodeProofs

Removals == {op \in Ops : InMailbox(op) /\ kind[op] \in DestroyKinds}
ActorOf(op) == IF InMailbox(op) THEN obj[op] ELSE 0

\* the task of op goes from one status to another, the others keep theirs
Moves(op, from, to) ==
  /\ ActorStatus(op) = from /\ ActorStatus(op)' = to
  /\ \A q \in Ops \ {op} : ActorStatus(q)' = ActorStatus(q)

SameTasks == UNCHANGED <<kind, obj, earlier>>

LEMMA SameTasksFrame ==
  ASSUME SameTasks
  PROVE  /\ \A op : InMailbox(op)' = InMailbox(op) /\ ActorOf(op)' = ActorOf(op)
         /\ Removals' = Removals
  BY DEF SameTasks, InMailbox, ActorOf, Removals

LEMMA EndsTasks ==
  ASSUME SameTasks, UNCHANGED begun,
         \A op \in Ops :
           \/ ActorStatus(op)' = ActorStatus(op)
           \/ ActorStatus(op) \in {"waiting", "serving"} /\ ActorStatus(op)' = "done"
  PROVE  [Actor!Next]_(Actor!vars)
<1> DEFINE T == {op \in Ops : ActorStatus(op)' # ActorStatus(op)}
<1>1. UNCHANGED <<[op \in Ops |-> IF InMailbox(op) THEN obj[op] ELSE 0], earlier, Removals, begun>>
  BY SameTasksFrame DEF SameTasks, ActorOf
<1>2. CASE T = {}
  <2>1. UNCHANGED [op \in Ops |-> ActorStatus(op)]
    BY <1>2
  <2> QED
    BY <1>1, <2>1 DEF Actor!vars, Removals
<1>3. CASE T # {}
  <2>1. \A op \in T : ActorStatus(op) \in {"waiting", "serving"}
    OBVIOUS
  <2>2. [op \in Ops |-> ActorStatus(op)]' =
          [op \in Ops |-> IF op \in T THEN "done" ELSE ActorStatus(op)]
    OBVIOUS
  <2>3. Actor!End(T)
    BY <1>1, <1>3, <2>1, <2>2 DEF Actor!End, Removals
  <2>4. T \in SUBSET Ops
    OBVIOUS
  <2> QED
    BY <2>3, <2>4 DEF Actor!Next
<1> QED
  BY <1>2, <1>3

LEMMA ServesTask ==
  ASSUME IInv, SameTasks, NEW op \in Ops, begun' = begun \cup {op},
         NEW to \in {"serving", "done"}, Moves(op, "waiting", to),
         \A a \in earlier[op] : ActorStatus(a) = "done" /\ kind[a] \notin DestroyKinds
  PROVE  [Actor!Next]_(Actor!vars)
<1>1. UNCHANGED <<[q \in Ops |-> IF InMailbox(q) THEN obj[q] ELSE 0], earlier, Removals>>
  BY SameTasksFrame DEF SameTasks, ActorOf
<1>2. [q \in Ops |-> ActorStatus(q)]' = [[q \in Ops |-> ActorStatus(q)] EXCEPT ![op] = to]
  BY DEF Moves
<1>3. earlier[op] \subseteq Ops /\ earlier[op] \cap Removals = {}
  BY DEF IInv, TypeOK, Removals
<1>4. Actor!Serve(op)
  BY <1>1, <1>2, <1>3 DEF Actor!Serve, Removals, Moves
<1> QED
  BY <1>4 DEF Actor!Next

LEMMA InitRefines == Init => Actor!Init
<1> SUFFICES ASSUME Init PROVE Actor!Init
  OBVIOUS
<1>1. \A op \in Ops : ~InMailbox(op)
  BY DEF Init, InMailbox
<1>2. \A op \in Ops : ActorStatus(op) = "idle"
  BY <1>1 DEF ActorStatus
<1> QED
  BY <1>1, <1>2 DEF Init, Actor!Init

LEMMA QuietRefines ==
  ASSUME IInv, OrderInv, Quiet
  PROVE  [Actor!Next]_(Actor!vars)
<1>1. SameTasks /\ UNCHANGED begun
  BY DEF Quiet, SameTasks
<1>2. ASSUME NEW op \in Ops
      PROVE  \/ ActorStatus(op)' = ActorStatus(op)
             \/ ActorStatus(op) \in {"waiting", "serving"} /\ ActorStatus(op)' = "done"
  <2>1. /\ InMailbox(op)' = InMailbox(op)
        /\ InThread(op)' => InThread(op)
        /\ op \in begun' <=> op \in begun
        /\ Settled(op) => Settled(op)'
        /\ InThread(op) => op \in begun
    BY <1>1, SameTasksFrame DEF Quiet, ThreadOnlyLoses, InThread, PromisesSettle, Settled,
                                OrderInv, OnePlace
  <2> QED
    BY <2>1 DEF ActorStatus, InThread
<1> QED
  BY <1>1, <1>2, EndsTasks

LEMMA UserRefines ==
  ASSUME IInv, OrderInv, NEW op \in Ops, Refuse(op) \/ Create(op)
  PROVE  [Actor!Next]_(Actor!vars)
<1>1. /\ UNCHANGED <<earlier, executing, closing, begun>>
      /\ kind[op] = "none" /\ (kind' = [kind EXCEPT ![op] = "refused"]
                               \/ kind' = [kind EXCEPT ![op] = "create"])
      /\ \A q \in Ops \ {op} : obj'[q] = obj[q] /\ st'[q] = st[q]
  BY RequestType DEF Refuse, Create, threadVars, history, IInv, TypeOK
<1>2. \A q \in Ops : InMailbox(q)' = InMailbox(q) /\ (InMailbox(q) => q # op)
  BY <1>1 DEF InMailbox, MailboxKinds, DestroyKinds, IInv, TypeOK
<1>3. \A q \in Ops : ActorStatus(q)' = ActorStatus(q)
  BY <1>1, <1>2 DEF ActorStatus, Settled
<1>4. \A q \in Ops : InMailbox(q) => obj'[q] = obj[q] /\ kind'[q] = kind[q]
  BY <1>1, <1>2 DEF IInv, TypeOK
<1>5. Removals' = Removals
  BY <1>2, <1>4 DEF Removals
<1>6. UNCHANGED [q \in Ops |-> IF InMailbox(q) THEN obj[q] ELSE 0]
  BY <1>2, <1>4
<1> QED
  BY <1>1, <1>3, <1>5, <1>6 DEF Actor!vars, Removals

LEMMA EnqueueRefines ==
  ASSUME IInv, OrderInv, NEW op \in Ops, NEW o \in Proxies, NEW k \in MailboxKinds,
         Enqueue(op, k, o)
  PROVE  [Actor!Next]_(Actor!vars)
<1>1. /\ kind[op] = "none" /\ st[op] = "new"
      /\ kind' = [kind EXCEPT ![op] = k]
      /\ obj' = [obj EXCEPT ![op] = o]
      /\ st' = [st EXCEPT ![op] = "queued"]
      /\ earlier' = [earlier EXCEPT ![op] = On(o)]
      /\ UNCHANGED <<executing, closing, begun>>
  BY DEF Enqueue, threadVars, history, IInv, MailboxInv, Shapes
<1>2. o \in ObjectIds /\ o # 0
  BY DEF Proxies, IInv, TypeOK, MailboxInv, Shapes
<1>3. ~InThread(op) /\ op \notin begun
  BY <1>1, Nowhere
<1>4. /\ ~InMailbox(op) /\ InMailbox(op)' /\ kind'[op] = k /\ obj'[op] = o
      /\ \A q \in Ops \ {op} :
           /\ kind'[q] = kind[q] /\ obj'[q] = obj[q] /\ st'[q] = st[q]
           /\ InMailbox(q)' = InMailbox(q)
  BY <1>1, <1>2 DEF IInv, TypeOK, InMailbox, MailboxKinds, DestroyKinds
<1>5. Moves(op, "idle", "waiting")
  <2>1. ActorStatus(op) = "idle"
    BY <1>4 DEF ActorStatus
  <2>2. ActorStatus(op)' = "waiting"
    BY <1>1, <1>3, <1>4 DEF ActorStatus, InThread, Settled, IInv, TypeOK
  <2>3. \A q \in Ops \ {op} : ActorStatus(q)' = ActorStatus(q)
    BY <1>1, <1>4 DEF ActorStatus, Settled
  <2> QED
    BY <2>1, <2>2, <2>3 DEF Moves
<1> DEFINE act == [q \in Ops |-> IF InMailbox(q) THEN obj[q] ELSE 0]
<1>6. [q \in Ops |-> ActorStatus(q)]' =
        [[q \in Ops |-> ActorStatus(q)] EXCEPT ![op] = "waiting"]
  BY <1>5 DEF Moves
<1>7. act' = [act EXCEPT ![op] = o]
  BY <1>4
<1>8. On(o) = {q \in Ops : act[q] = o}
  BY <1>2 DEF On
<1>9. Removals' \in {Removals, Removals \cup {op}}
  BY <1>4 DEF Removals
<1>10. Actor!Submit(op, o)
  BY <1>1, <1>5, <1>6, <1>7, <1>8, <1>9 DEF Actor!Submit, Removals, Moves
<1> QED
  BY <1>2, <1>10 DEF Actor!Next

LEMMA StartRefines ==
  ASSUME IInv, OrderInv, NEW op \in Ops, Start(op)
  PROVE  [Actor!Next]_(Actor!vars)
<1>1. SameTasks /\ UNCHANGED <<begun, executing, closing>> /\ st[op] = "queued"
  BY DEF Start, Ready, opVars, threadVars, history, SameTasks
<1>2. \A q \in Ops \ {op} : st'[q] = st[q]
  <2>1. Request(op)
    BY DEF Start, Request
  <2> QED
    BY <2>1, RequestType DEF IInv
<1>3. ~InThread(op) /\ op \notin begun
  BY <1>1, Nowhere
<1>4. ASSUME NEW q \in Ops
      PROVE  \/ ActorStatus(q)' = ActorStatus(q)
             \/ ActorStatus(q) \in {"waiting", "serving"} /\ ActorStatus(q)' = "done"
  <2>1. InMailbox(q)' = InMailbox(q)
    BY <1>1, SameTasksFrame
  <2>2. CASE q = op
    BY <1>1, <1>3, <2>1, <2>2 DEF ActorStatus, InThread, Settled
  <2>3. CASE q # op
    BY <1>1, <1>2, <2>1, <2>3 DEF ActorStatus, Settled
  <2> QED
    BY <2>2, <2>3
<1> QED
  BY <1>1, <1>4, EndsTasks

\* the thread changes the status of the task it handles only
LEMMA HandlesOne ==
  ASSUME NEW op \in Ops, HostIdle,
         \A q \in Ops \ {op} : InThread(q)' = InThread(q) /\ (q \in begun' <=> q \in begun)
  PROVE  /\ SameTasks
         /\ \A q \in Ops \ {op} : ActorStatus(q)' = ActorStatus(q)
<1>1. SameTasks /\ UNCHANGED st
  BY DEF HostIdle, SameTasks
<1> QED
  BY <1>1, SameTasksFrame DEF ActorStatus, InThread, Settled

\* without timeouts what precedes a task that begins is done
LEMMA BeginsRefine ==
  ASSUME CallTimeout = FALSE, IInv, OrderInv, NEW op \in Ops, Take(op), obj[op] \in objects,
         kind[op] \in MailboxKinds, begun' = begun \cup {op},
         \A q \in Ops \ {op} : InThread(q)' = InThread(q)
  PROVE  [Actor!Next]_(Actor!vars)
<1>1. /\ HostIdle /\ InTransit(op) /\ ~InThread(op) /\ op \notin begun
      /\ st[op] = "sent" /\ InMailbox(op)
  BY Taken, BeginsInTurn DEF OrderInv, NothingAbandoned
<1>2. \A q \in Ops \ {op} : q \in begun' <=> q \in begun
  OBVIOUS
<1>3. SameTasks /\ \A q \in Ops \ {op} : ActorStatus(q)' = ActorStatus(q)
  BY <1>1, <1>2, HandlesOne
<1>4. ActorStatus(op) = "waiting"
  BY <1>1 DEF ActorStatus, InThread, Settled
<1>5. ActorStatus(op)' \in {"serving", "done"}
  BY <1>1, <1>3, SameTasksFrame DEF ActorStatus
<1>6. \A a \in earlier[op] : ActorStatus(a) = "done" /\ kind[a] \notin DestroyKinds
  <2> SUFFICES ASSUME NEW a \in earlier[op]
               PROVE  ActorStatus(a) = "done" /\ kind[a] \notin DestroyKinds
    OBVIOUS
  <2>1. a \in Ops /\ InMailbox(a)
    BY DEF IInv, MailboxInv, EnqueueOrder, On
  <2>2. Settled(a) /\ kind[a] \notin DestroyKinds
    BY BeginsInTurn
  <2>3. ~InThread(a)
    BY <2>1, <2>2 DEF OrderInv, NothingAbandoned, Settled
  <2> QED
    BY <2>1, <2>2, <2>3 DEF ActorStatus, InThread
<1> QED
  BY <1>3, <1>4, <1>5, <1>6, ServesTask DEF Moves

LEMMA HandleRefines ==
  ASSUME CallTimeout = FALSE, IInv, OrderInv, NEW op \in Ops, Handle(op)
  PROVE  [Actor!Next]_(Actor!vars)
<1>1. ASSUME Take(op), UNCHANGED <<executing, closing, begun>>
      PROVE  [Actor!Next]_(Actor!vars)
  <2>1. HostIdle
    BY <1>1, Taken
  <2>2. \A q \in Ops : InThread(q)' = InThread(q)
    BY <1>1 DEF InThread
  <2>3. SameTasks /\ UNCHANGED st
    BY <2>1 DEF HostIdle, SameTasks
  <2>4. \A q \in Ops : ActorStatus(q)' = ActorStatus(q)
    BY <1>1, <2>2, <2>3, SameTasksFrame DEF ActorStatus, InThread, Settled
  <2> QED
    BY <1>1, <2>3, <2>4, EndsTasks
<1>2. CASE HandleCreate(op)
  BY <1>1, <1>2 DEF HandleCreate, history
<1>3. CASE HandleCall(op)
  <2>1. Take(op) /\ kind[op] \in MailboxKinds /\ UNCHANGED closing
    BY <1>3 DEF HandleCall, MailboxKinds
  <2>2. CASE UNCHANGED <<executing, begun>>
    BY <1>1, <2>1, <2>2
  <2>3. CASE obj[op] \in objects /\ executing' = executing \cup {op} /\ begun' = begun \cup {op}
    <3>1. \A q \in Ops \ {op} : InThread(q)' = InThread(q)
      BY <2>1, <2>3 DEF InThread
    <3> QED
      BY <2>1, <2>3, <3>1, BeginsRefine
  <2> QED
    BY <1>3, <2>2, <2>3 DEF HandleCall
<1>4. CASE HandleDestroy(op)
  <2>1. Take(op) /\ kind[op] \in MailboxKinds /\ UNCHANGED executing
    BY <1>4 DEF HandleDestroy, MailboxKinds
  <2>2. CASE UNCHANGED <<closing, begun>>
    BY <1>1, <2>1, <2>2
  <2>3. CASE obj[op] \in objects /\ closing' \in {closing, closing \cup {op}} /\ begun' = begun \cup {op}
    <3>1. \A q \in Ops \ {op} : InThread(q)' = InThread(q)
      BY <2>1, <2>3 DEF InThread
    <3> QED
      BY <2>1, <2>3, <3>1, BeginsRefine
  <2> QED
    BY <1>4, <2>2, <2>3 DEF HandleDestroy
<1> QED
  BY <1>2, <1>3, <1>4 DEF Handle

LEMMA ReturnsRefine ==
  ASSUME IInv, OrderInv, NEW op \in Ops, MethodReturns(op) \/ CloseReturns(op)
  PROVE  [Actor!Next]_(Actor!vars)
<1>1. /\ SameTasks /\ UNCHANGED <<st, begun>>
      /\ InThread(op) /\ \A q \in Ops \ {op} : InThread(q)' = InThread(q)
  <2>1. /\ UNCHANGED <<kind, obj, earlier, st, begun>> /\ InThread(op)
        /\ executing' \in {executing, executing \ {op}}
        /\ closing' \in {closing, closing \ {op}}
    BY DEF MethodReturns, CloseReturns, opVars, history, InThread
  <2> QED
    BY <2>1 DEF SameTasks, InThread
<1>2. op \in begun /\ InMailbox(op)
  BY <1>1 DEF OrderInv, OnePlace
<1>3. \A q \in Ops \ {op} : ActorStatus(q)' = ActorStatus(q)
  BY <1>1, SameTasksFrame DEF ActorStatus, InThread, Settled
<1>4. ActorStatus(op) = "serving" /\ ActorStatus(op)' \in {"serving", "done"}
  BY <1>1, <1>2, SameTasksFrame DEF ActorStatus, InThread
<1> QED
  BY <1>1, <1>3, <1>4, EndsTasks

\* Without a call timeout, a node with its mailboxes, ports and thread
\* implements SerialActor: whatever dispose, crashes and errors do to them, the
\* tasks of an actor are served one by one, in order, none after a destroy.
THEOREM Refinement ==
  ASSUME CallTimeout = FALSE
  PROVE  Spec => ServesSerially
<1>1. IInv /\ OrderInv /\ [Next]_vars => [Actor!Next]_(Actor!vars)
  <2> SUFFICES ASSUME IInv, OrderInv, [Next]_vars
               PROVE  [Actor!Next]_(Actor!vars)
    OBVIOUS
  <2>1. CASE Quiet
    BY <2>1, QuietRefines
  <2>2. ASSUME NEW op \in Ops,
               \/ Refuse(op) \/ Create(op) \/ Start(op)
               \/ \E o \in Proxies, k \in MailboxKinds : Enqueue(op, k, o)
        PROVE  [Actor!Next]_(Actor!vars)
    BY <2>2, UserRefines, StartRefines, EnqueueRefines
  <2>3. ASSUME NEW op \in Ops,
               \/ HandleCreate(op) \/ HandleCall(op) \/ HandleDestroy(op)
               \/ MethodReturns(op) \/ CloseReturns(op)
        PROVE  [Actor!Next]_(Actor!vars)
    BY <2>3, HandleRefines, ReturnsRefine DEF Handle
  <2> QED
    BY <2>1, <2>2, <2>3, Steps
<1> QED
  BY InitRefines, <1>1, OrderInvariance, PTL DEF Spec, ServesSerially, Actor!Spec
=============================================================================
