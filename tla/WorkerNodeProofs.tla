-------------------------- MODULE WorkerNodeProofs --------------------------
(***************************************************************************)
(* Proofs about WorkerNode for any number of operations and actors, with   *)
(* and without timeouts, crashes and failing arguments.                    *)
(*                                                                         *)
(* The argument: as long as the node knows an actor, the promise chain of  *)
(* its mailbox is exactly the enqueue order (TailIsLast, ChainIsOrder), so *)
(* a task that has left the queue has only settled predecessors            *)
(* (StartedInTurn), and two unanswered requests of one actor would have to *)
(* precede one another (EnqueueOrder).                                     *)
(***************************************************************************)
EXTENDS WorkerNode, SequenceTheorems, TLAPS

\* what an operation that is not in a mailbox looks like
Shapes ==
  \A op \in Ops :
    /\ kind[op] \in {"none", "refused"} => obj[op] = 0
    /\ kind[op] = "none" => st[op] = "new"
    /\ kind[op] = "create" => obj[op] # 0
    /\ ~InMailbox(op) => earlier[op] = {} /\ st[op] # "queued"

\* a tracked request has left its mailbox
PendingIsSent == \A op \in pending \cap Ops : st[op] \in {"sent", "rejected"}

\* ids from nextObjectId on are unused
FreshIds ==
  /\ \A o \in localObjects : o < nextObjectId
  /\ \A op \in Ops : obj[op] < nextObjectId
  /\ \A o \in ObjectIds : o >= nextObjectId => mailboxes[o] = NoOp

\* `earlier` relates any two operations of a mailbox, and no others
EnqueueOrder ==
  /\ \A b \in Ops : earlier[b] \subseteq On(obj[b])
  /\ \A a, b \in Ops :
       InMailbox(a) /\ InMailbox(b) /\ obj[a] = obj[b] /\ a # b
         => a \in earlier[b] \/ b \in earlier[a]

UpTo(t) == IF t = NoOp THEN {} ELSE earlier[t] \cup {t}

\* the stored promise of a mailbox is that of its last operation
TailIsLast == \A o \in localObjects : On(o) = UpTo(mailboxes[o])

\* each task is chained to the operation enqueued just before it
ChainIsOrder ==
  \A b \in Ops :
    InMailbox(b) /\ obj[b] \in localObjects => earlier[b] = UpTo(prev[b])

\* a task leaves the queue when everything enqueued before it has settled
StartedInTurn ==
  \A b \in Ops :
    /\ InMailbox(b) /\ obj[b] \in localObjects /\ st[b] # "queued"
    => \A a \in earlier[b] : Settled(a)

MailboxInv ==
  /\ Shapes
  /\ PendingIsSent
  /\ FreshIds
  /\ EnqueueOrder
  /\ TailIsLast
  /\ ChainIsOrder
  /\ StartedInTurn

IInv == TypeOK /\ MailboxInv

-----------------------------------------------------------------------------
(* Type correctness. HandleCreate is typed because a create has an object. *)

LEMMA RequestType ==
  ASSUME TypeOK, NEW op \in Ops, Request(op)
  PROVE  /\ st' \in [Ops -> {"new", "queued", "sent", "resolved", "rejected"}]
         /\ pending' \subseteq Ops
         /\ toWorker' \in Seq(Ops)
         /\ st'[op] \in {"sent", "rejected"}
         /\ \A q \in Ops \ {op} : st'[q] = st[q]
         /\ pending' \cap Ops \subseteq pending \cup {op}
<1>1. toWorker' \in Seq(Ops)
  <2>1. Append(toWorker, op) \in Seq(Ops)
    BY AppendProperties DEF TypeOK
  <2> QED
    BY <2>1 DEF Request, Send, FailEncode, FailClone, Deliver, TypeOK
<1>2. pending' \subseteq pending \cup {op}
  BY DEF Request, Send, FailEncode, FailClone
<1>3. \E s \in {"sent", "rejected"} : st' = [st EXCEPT ![op] = s]
  BY DEF Request, Send, FailEncode, FailClone
<1> QED
  BY <1>1, <1>2, <1>3 DEF TypeOK

LEMMA TerminateType ==
  ASSUME TypeOK, Terminate
  PROVE  /\ phase' = "terminated" /\ pending' = {} /\ alive' = FALSE
         /\ toWorker' \in Seq(Ops) /\ objects' \subseteq ObjectIds
         /\ executing' \subseteq Ops /\ closing' \subseteq Ops
  BY EmptySeq DEF Terminate, StopThread, TypeOK

\* a step that may end the thread changes nothing else of it
LEMMA NotifyDrainType ==
  ASSUME TypeOK, NEW p \in SUBSET pending, NotifyDrain(p)
  PROVE  /\ phase' \in {"open", "closing", "draining", "ending", "terminated"}
         /\ pending' \subseteq p /\ alive' \in BOOLEAN
         /\ toWorker' \in Seq(Ops) /\ objects' \subseteq ObjectIds
         /\ executing' \subseteq Ops /\ closing' \subseteq Ops
  BY TerminateType DEF NotifyDrain, threadVars, TypeOK

LEMMA TakeType ==
  ASSUME TypeOK, NEW r, Take(r)
  PROVE  r \in Ops /\ toWorker' \in Seq(Ops)
  BY DEF Take, TypeOK

LEMMA ReplyType ==
  ASSUME TypeOK, NEW r \in Ops, NEW ok \in BOOLEAN, Reply(r, ok)
  PROVE  toHost' \in Seq([id : Ops, ok : BOOLEAN])
  BY DEF Reply, TypeOK

LEMMA TypeStep ==
  ASSUME TypeOK, Shapes, [Next]_vars
  PROVE  TypeOK'
<1>1. CASE UNCHANGED vars
  BY <1>1 DEF vars, opVars, nodeVars, threadVars, history, TypeOK
<1>2. ASSUME NEW op \in Ops, Refuse(op)
      PROVE  TypeOK'
  BY <1>2 DEF Refuse, nodeVars, threadVars, history, TypeOK
<1>3. ASSUME NEW op \in Ops, Create(op)
      PROVE  TypeOK'
  <2>1. nextObjectId \in ObjectIds /\ nextObjectId' \in 1..(MaxObject + 1)
    BY <1>3, NodeAssumption DEF Create, TypeOK, ObjectIds
  <2>2. /\ kind' \in [Ops -> {"none", "refused", "create"} \cup MailboxKinds]
        /\ obj' \in [Ops -> ObjectIds \cup {0}]
        /\ localObjects' \subseteq ObjectIds
    BY <1>3, <2>1 DEF Create, TypeOK
  <2>3. Request(op)
    BY <1>3 DEF Create
  <2> QED
    BY <1>3, <2>1, <2>2, <2>3, RequestType DEF Create, threadVars, history, TypeOK
<1>4. ASSUME NEW op \in Ops, NEW o \in Proxies, NEW k \in MailboxKinds, Enqueue(op, k, o)
      PROVE  TypeOK'
  <2>1. o \in ObjectIds
    BY <1>4 DEF Proxies, Shapes, TypeOK
  <2>2. On(o) \subseteq Ops
    BY DEF On
  <2> QED
    BY <1>4, <2>1, <2>2
    DEF Enqueue, threadVars, history, TypeOK, MailboxKinds, DestroyKinds
<1>5. ASSUME NEW op \in Ops, Start(op)
      PROVE  TypeOK'
  <2>1. Request(op)
    BY <1>5 DEF Start, Request
  <2> QED
    BY <1>5, <2>1, RequestType DEF Start, opVars, nodeVars, threadVars, history, TypeOK
<1>6. ASSUME NEW c \in BOOLEAN, Dispose(c)
      PROVE  TypeOK'
  BY <1>6 DEF Dispose, Drain, opVars, nodeVars, threadVars, history, TypeOK
<1>7. CASE Finally
  <2>1. st' \in [Ops -> {"new", "queued", "sent", "resolved", "rejected"}]
    BY <1>7 DEF Finally, RejectPending, TypeOK
  <2> QED
    BY <1>7, <2>1, TerminateType DEF Finally, opVars, nodeVars, history, TypeOK
<1>8. CASE DropResponse
  BY <1>8 DEF DropResponse, opVars, nodeVars, threadVars, history, TypeOK
<1>9. CASE CloseAllActors
  BY <1>9 DEF CloseAllActors, Drain, opVars, nodeVars, threadVars, history, TypeOK
<1>10. ASSUME NEW op \in Ops, Respond(op)
       PROVE  TypeOK'
  <2>1. st' \in [Ops -> {"new", "queued", "sent", "resolved", "rejected"}]
    BY <1>10 DEF Respond, TypeOK
  <2>2. toHost' \in Seq([id : Ops, ok : BOOLEAN])
    BY <1>10 DEF Respond, TypeOK
  <2>3. /\ localObjects' \subseteq ObjectIds
        /\ mailboxes' \in [ObjectIds -> Ops \cup {NoOp}]
    BY <1>10 DEF Respond, TypeOK
  <2> QED
    BY <1>10, <2>1, <2>2, <2>3, NotifyDrainType DEF Respond, opVars, history, TypeOK
<1>11. ASSUME NEW op \in Ops, TimerFires(op)
       PROVE  TypeOK'
  <2>1. st' \in [Ops -> {"new", "queued", "sent", "resolved", "rejected"}]
    BY <1>11 DEF TimerFires, TypeOK
  <2> QED
    BY <1>11, <2>1, NotifyDrainType
    DEF TimerFires, opVars, nodeVars, history, TypeOK
<1>12. CASE WorkerError
  <2>1. st' \in [Ops -> {"new", "queued", "sent", "resolved", "rejected"}]
    BY <1>12 DEF WorkerError, RejectPending, TypeOK
  <2>2. CASE Terminate
    BY <1>12, <2>1, <2>2, TerminateType
    DEF WorkerError, opVars, nodeVars, history, TypeOK
  <2>3. CASE pending' = {} /\ UNCHANGED <<phase, alive, toWorker, threadVars>>
    BY <1>12, <2>1, <2>3
    DEF WorkerError, opVars, nodeVars, threadVars, history, TypeOK
  <2> QED
    BY <1>12, <2>2, <2>3 DEF WorkerError
<1>13. ASSUME NEW op \in Ops, HandleCreate(op)
       PROVE  TypeOK'
  <2>1. obj[op] \in ObjectIds
    BY <1>13 DEF HandleCreate, Shapes, TypeOK
  <2> QED
    BY <1>13, <2>1, TakeType, ReplyType
    DEF HandleCreate, Take, opVars, nodeVars, history, TypeOK
<1>14. ASSUME NEW op \in Ops, HandleCall(op)
       PROVE  TypeOK'
  <2>1. toHost' \in Seq([id : Ops, ok : BOOLEAN])
    BY <1>14, ReplyType DEF HandleCall, TypeOK
  <2> QED
    BY <1>14, <2>1, TakeType
    DEF HandleCall, Take, opVars, nodeVars, TypeOK
<1>15. ASSUME NEW op \in Ops, MethodReturns(op)
       PROVE  TypeOK'
  <2>1. toHost' \in Seq([id : Ops, ok : BOOLEAN])
    BY <1>15, ReplyType DEF MethodReturns
  <2> QED
    BY <1>15, <2>1 DEF MethodReturns, opVars, nodeVars, history, TypeOK
<1>16. ASSUME NEW op \in Ops, HandleDestroy(op)
       PROVE  TypeOK'
  <2>1. toHost' \in Seq([id : Ops, ok : BOOLEAN])
    BY <1>16, ReplyType DEF HandleDestroy, TypeOK
  <2>2. closes' \in [ObjectIds -> Nat]
    <3>1. CASE closes' = [closes EXCEPT ![obj[op]] = @ + 1] /\ obj[op] \in ObjectIds
      BY <3>1 DEF TypeOK
    <3>2. CASE UNCHANGED closes
      BY <3>2 DEF TypeOK
    <3> QED
      BY <1>16, <3>1, <3>2 DEF HandleDestroy, TypeOK
  <2>3. objects' \subseteq ObjectIds /\ closing' \subseteq Ops /\ begun' \subseteq Ops
    BY <1>16 DEF HandleDestroy, TypeOK
  <2>4. toWorker' \in Seq(Ops)
    BY <1>16, TakeType DEF HandleDestroy
  <2> QED
    BY <1>16, <2>1, <2>2, <2>3, <2>4
    DEF HandleDestroy, Take, opVars, nodeVars, TypeOK
<1>17. ASSUME NEW op \in Ops, CloseReturns(op)
       PROVE  TypeOK'
  <2>1. toHost' \in Seq([id : Ops, ok : BOOLEAN])
    BY <1>17, ReplyType DEF CloseReturns
  <2> QED
    BY <1>17, <2>1 DEF CloseReturns, opVars, nodeVars, history, TypeOK
<1>18. CASE Crash
  BY <1>18, EmptySeq DEF Crash, StopThread, opVars, nodeVars, history, TypeOK
<1> QED
  BY <1>1, <1>2, <1>3, <1>4, <1>5, <1>6, <1>7, <1>8, <1>9, <1>10, <1>11, <1>12,
     <1>13, <1>14, <1>15, <1>16, <1>17, <1>18
  DEF Next, UserStep, HostReceive, Handle

-----------------------------------------------------------------------------
(* What a step does to the mailboxes. Apart from the actions of the user    *)
(* and the start of a task, a step only settles tracked requests and, when  *)
(* a destroy is answered, forgets an actor.                                 *)

Settling ==
  /\ UNCHANGED <<opVars, nextObjectId>>
  /\ localObjects' \subseteq localObjects
  /\ \A o \in localObjects' : mailboxes'[o] = mailboxes[o]
  /\ \A o \in ObjectIds : mailboxes'[o] \in {mailboxes[o], NoOp}
  /\ pending' \cap Ops \subseteq pending
  /\ \A op \in Ops : \/ st'[op] = st[op]
                     \/ op \in pending /\ st'[op] \in {"resolved", "rejected"}
  /\ \A op \in pending' \cap Ops : st'[op] \in {st[op], "rejected"}

LEMMA RejectPendingSettles ==
  ASSUME RejectPending
  PROVE  /\ \A op \in Ops : \/ st'[op] = st[op]
                            \/ op \in pending /\ st'[op] = "rejected"
  BY DEF RejectPending

LEMMA PendingAfterDrain ==
  ASSUME NEW p, Terminate \/ NotifyDrain(p)
  PROVE  pending' \subseteq p
  BY DEF NotifyDrain, Terminate

LEMMA Classify ==
  ASSUME TypeOK, [Next]_vars
  PROVE  \/ Settling
         \/ \E op \in Ops :
              \/ Refuse(op)
              \/ Create(op)
              \/ Start(op)
              \/ \E o \in Proxies, k \in MailboxKinds : Enqueue(op, k, o)
<1>1. ASSUME UNCHANGED <<opVars, st, nodeVars>>, pending' \cap Ops \subseteq pending
      PROVE  Settling
  BY <1>1 DEF Settling, nodeVars, TypeOK
<1>2. CASE UNCHANGED vars
  BY <1>1, <1>2 DEF vars
<1>3. ASSUME NEW c \in BOOLEAN, Dispose(c)
      PROVE  Settling
  BY <1>1, <1>3 DEF Dispose
<1>4. CASE Finally
  <2>1. UNCHANGED <<opVars, nodeVars>> /\ pending' = {} /\ RejectPending
    BY <1>4 DEF Finally, Terminate
  <2> QED
    BY <2>1, RejectPendingSettles DEF Settling, nodeVars, TypeOK
<1>5. CASE DropResponse
  BY <1>1, <1>5 DEF DropResponse
<1>6. CASE CloseAllActors
  BY <1>1, <1>6 DEF CloseAllActors
<1>7. ASSUME NEW op \in Ops, Respond(op)
      PROVE  Settling
  <2>1. UNCHANGED <<opVars, nextObjectId>> /\ op \in pending
    BY <1>7 DEF Respond
  <2>2. pending' \subseteq pending \ {op}
    BY <1>7, PendingAfterDrain DEF Respond
  <2>3. \E s \in {"resolved", "rejected"} : st' = [st EXCEPT ![op] = s]
    BY <1>7 DEF Respond
  <2>4. /\ localObjects' \subseteq localObjects
        /\ \A o \in localObjects' : mailboxes'[o] = mailboxes[o]
        /\ \A o \in ObjectIds : mailboxes'[o] \in {mailboxes[o], NoOp}
    BY <1>7 DEF Respond, TypeOK
  <2> QED
    BY <2>1, <2>2, <2>3, <2>4 DEF Settling, TypeOK
<1>8. ASSUME NEW op \in Ops, TimerFires(op)
      PROVE  Settling
  <2>1. UNCHANGED <<opVars, nodeVars>> /\ op \in pending
    BY <1>8 DEF TimerFires
  <2>2. pending' \subseteq pending \ {op}
    BY <1>8, PendingAfterDrain DEF TimerFires
  <2>3. st' = [st EXCEPT ![op] = IF Settled(op) THEN @ ELSE "rejected"]
    BY <1>8 DEF TimerFires
  <2> QED
    BY <2>1, <2>2, <2>3 DEF Settling, nodeVars, TypeOK
<1>9. CASE WorkerError
  <2>1. UNCHANGED <<opVars, nodeVars>> /\ pending' = {} /\ RejectPending
    BY <1>9 DEF WorkerError, Terminate
  <2> QED
    BY <2>1, RejectPendingSettles DEF Settling, nodeVars, TypeOK
<1>10. ASSUME NEW op \in Ops, Handle(op) \/ MethodReturns(op) \/ CloseReturns(op)
       PROVE  Settling
  BY <1>1, <1>10
  DEF Handle, HandleCreate, HandleCall, HandleDestroy, Take, MethodReturns, CloseReturns
<1>11. CASE Crash
  BY <1>1, <1>11 DEF Crash
<1> QED
  BY <1>2, <1>3, <1>4, <1>5, <1>6, <1>7, <1>8, <1>9, <1>10, <1>11
  DEF Next, UserStep, HostReceive

-----------------------------------------------------------------------------
(* The invariant is inductive: one lemma per kind of step.                  *)

LEMMA InitIInv == Init => IInv
<1> SUFFICES ASSUME Init PROVE IInv
  OBVIOUS
<1>1. TypeOK
  <2>1. toWorker \in Seq(Ops) /\ toHost \in Seq([id : Ops, ok : BOOLEAN])
    BY EmptySeq DEF Init
  <2>2. nextObjectId \in 1..(MaxObject + 1)
    BY NodeAssumption DEF Init
  <2> QED
    BY <2>1, <2>2 DEF Init, TypeOK
<1>2. Shapes /\ PendingIsSent /\ FreshIds
  BY NodeAssumption
  DEF Init, Shapes, PendingIsSent, FreshIds, InMailbox, MailboxKinds, DestroyKinds, ObjectIds
<1>3. EnqueueOrder /\ TailIsLast /\ ChainIsOrder /\ StartedInTurn
  BY DEF Init, EnqueueOrder, TailIsLast, ChainIsOrder, StartedInTurn, InMailbox
<1> QED
  BY <1>1, <1>2, <1>3 DEF IInv, MailboxInv

LEMMA SettlingKeeps ==
  ASSUME TypeOK, TypeOK', MailboxInv, Settling
  PROVE  MailboxInv'
<1>1. /\ UNCHANGED <<kind, obj, earlier, prev, nextObjectId>>
      /\ localObjects' \subseteq localObjects
      /\ \A o \in localObjects' : mailboxes'[o] = mailboxes[o]
      /\ \A op \in Ops : InMailbox(op)' = InMailbox(op)
      /\ \A o : On(o)' = On(o)
  BY DEF Settling, opVars, InMailbox, On
<1>2. \A op \in Ops : /\ Settled(op) => Settled(op)'
                      /\ st'[op] = "queued" <=> st[op] = "queued"
                      /\ st'[op] = "new" <=> st[op] = "new"
  BY DEF Settling, Settled, MailboxInv, PendingIsSent
<1>3. Shapes'
  BY <1>1, <1>2 DEF MailboxInv, Shapes
<1>4. PendingIsSent'
  BY DEF Settling, MailboxInv, PendingIsSent
<1>5. FreshIds'
  BY <1>1 DEF Settling, MailboxInv, FreshIds
<1>6. EnqueueOrder'
  BY <1>1 DEF MailboxInv, EnqueueOrder
<1>7. TailIsLast' /\ ChainIsOrder'
  BY <1>1 DEF MailboxInv, TailIsLast, ChainIsOrder, UpTo
<1>8. StartedInTurn'
  BY <1>1, <1>2 DEF MailboxInv, StartedInTurn, TypeOK
<1> QED
  BY <1>3, <1>4, <1>5, <1>6, <1>7, <1>8 DEF MailboxInv

LEMMA RefuseKeeps ==
  ASSUME TypeOK, MailboxInv, NEW op \in Ops, Refuse(op)
  PROVE  MailboxInv'
<1>1. /\ UNCHANGED <<obj, earlier, prev, localObjects, nextObjectId, mailboxes, pending>>
      /\ kind' = [kind EXCEPT ![op] = "refused"]
      /\ st' = [st EXCEPT ![op] = "rejected"]
      /\ kind[op] = "none"
  BY DEF Refuse, nodeVars
<1>2. /\ \A q \in Ops : InMailbox(q)' = InMailbox(q)
      /\ ~InMailbox(op)
      /\ \A o : On(o)' = On(o)
  BY <1>1 DEF InMailbox, On, MailboxKinds, DestroyKinds, TypeOK
<1>3. \A q \in Ops : Settled(q) => Settled(q)'
  BY <1>1 DEF Settled, TypeOK
<1>4. Shapes'
  BY <1>1, <1>2 DEF MailboxInv, Shapes, TypeOK
<1>5. PendingIsSent' /\ FreshIds'
  BY <1>1 DEF MailboxInv, PendingIsSent, FreshIds, TypeOK
<1>6. EnqueueOrder' /\ TailIsLast' /\ ChainIsOrder'
  BY <1>1, <1>2 DEF MailboxInv, EnqueueOrder, TailIsLast, ChainIsOrder, UpTo
<1>7. StartedInTurn'
  BY <1>1, <1>2, <1>3 DEF MailboxInv, StartedInTurn, TypeOK
<1> QED
  BY <1>4, <1>5, <1>6, <1>7 DEF MailboxInv

LEMMA CreateKeeps ==
  ASSUME TypeOK, MailboxInv, NEW op \in Ops, Create(op)
  PROVE  MailboxInv'
<1>1. /\ UNCHANGED <<earlier, prev, mailboxes>>
      /\ kind[op] = "none" /\ kind' = [kind EXCEPT ![op] = "create"]
      /\ obj' = [obj EXCEPT ![op] = nextObjectId]
      /\ nextObjectId' = nextObjectId + 1
      /\ localObjects' = localObjects \cup {nextObjectId}
      /\ nextObjectId \in ObjectIds
  BY NodeAssumption DEF Create, TypeOK, ObjectIds
<1>2. /\ st'[op] \in {"sent", "rejected"}
      /\ \A q \in Ops \ {op} : st'[q] = st[q]
      /\ pending' \cap Ops \subseteq pending \cup {op}
  BY RequestType DEF Create
<1>3. /\ ~InMailbox(op) /\ ~InMailbox(op)'
      /\ \A q \in Ops : InMailbox(q)' = InMailbox(q)
      /\ \A q \in Ops : InMailbox(q) => obj'[q] = obj[q]
      /\ \A o : On(o)' = On(o)
  BY <1>1 DEF InMailbox, On, MailboxKinds, DestroyKinds, TypeOK
<1>4. \A q \in Ops : Settled(q) => Settled(q)'
  BY <1>1, <1>2 DEF Settled, MailboxInv, Shapes
<1>5. Shapes'
  BY <1>1, <1>2, <1>3 DEF MailboxInv, Shapes, TypeOK, ObjectIds
<1>6. PendingIsSent'
  BY <1>2 DEF MailboxInv, PendingIsSent
<1>7. FreshIds'
  <2>1. nextObjectId \in Nat /\ \A o \in ObjectIds : o \in Nat
    BY NodeAssumption DEF TypeOK, ObjectIds
  <2>2. \A p \in localObjects' : p < nextObjectId'
    BY <1>1, <2>1 DEF MailboxInv, FreshIds, TypeOK
  <2>3. \A q \in Ops : obj'[q] < nextObjectId'
    <3>1. \A q \in Ops : obj[q] \in Nat /\ obj[q] < nextObjectId
      BY <2>1 DEF MailboxInv, FreshIds, TypeOK
    <3> QED
      BY <1>1, <2>1, <3>1 DEF TypeOK
  <2>4. \A p \in ObjectIds : p >= nextObjectId' => mailboxes'[p] = NoOp
    BY <1>1, <2>1 DEF MailboxInv, FreshIds
  <2> QED
    BY <2>2, <2>3, <2>4 DEF FreshIds
<1>8. \A q \in Ops : earlier[q] # {} => InMailbox(q)
  BY DEF MailboxInv, Shapes
<1>9. EnqueueOrder'
  <2>1. (\A q \in Ops : earlier[q] \subseteq On(obj[q]))'
    BY <1>1, <1>3, <1>8 DEF MailboxInv, EnqueueOrder
  <2> QED
    BY <1>1, <1>3, <2>1 DEF MailboxInv, EnqueueOrder
<1>10. TailIsLast'
  <2>1. On(nextObjectId) = {} /\ mailboxes[nextObjectId] = NoOp
    BY <1>1 DEF On, MailboxInv, FreshIds, TypeOK, ObjectIds
  <2> QED
    BY <1>1, <1>3, <2>1 DEF MailboxInv, TailIsLast, UpTo
<1>11. \A q \in Ops : InMailbox(q) => obj[q] # nextObjectId
  BY <1>1 DEF MailboxInv, FreshIds, TypeOK, ObjectIds
<1>12. ChainIsOrder'
  BY <1>1, <1>3, <1>11 DEF MailboxInv, ChainIsOrder, UpTo
<1>13. StartedInTurn'
  BY <1>1, <1>2, <1>3, <1>4, <1>11 DEF MailboxInv, StartedInTurn, TypeOK
<1> QED
  BY <1>5, <1>6, <1>7, <1>9, <1>10, <1>12, <1>13 DEF MailboxInv

LEMMA StartKeeps ==
  ASSUME TypeOK, MailboxInv, NEW op \in Ops, Start(op)
  PROVE  MailboxInv'
<1>1. UNCHANGED <<kind, obj, earlier, prev, localObjects, nextObjectId, mailboxes>>
  BY DEF Start, opVars, nodeVars
<1>2. /\ st'[op] \in {"sent", "rejected"}
      /\ \A q \in Ops \ {op} : st'[q] = st[q]
      /\ pending' \cap Ops \subseteq pending \cup {op}
  <2>1. Request(op)
    BY DEF Start, Request
  <2> QED
    BY <2>1, RequestType
<1>3. st[op] = "queued" /\ prev[op] \in {NoOp} \cup {p \in Ops : Settled(p)}
  BY DEF Start, Ready
<1>4. /\ \A q \in Ops : InMailbox(q)' = InMailbox(q)
      /\ \A o : On(o)' = On(o)
      /\ InMailbox(op)
  BY <1>1, <1>3 DEF InMailbox, On, MailboxInv, Shapes
<1>5. \A q \in Ops : Settled(q) => Settled(q)'
  BY <1>2, <1>3 DEF Settled
<1>6. Shapes' /\ PendingIsSent' /\ FreshIds'
  BY <1>1, <1>2, <1>4
  DEF MailboxInv, Shapes, PendingIsSent, FreshIds, InMailbox, MailboxKinds, DestroyKinds
<1>7. EnqueueOrder' /\ TailIsLast' /\ ChainIsOrder'
  BY <1>1, <1>4 DEF MailboxInv, EnqueueOrder, TailIsLast, ChainIsOrder, UpTo
<1>8. obj[op] \in localObjects => \A a \in earlier[op] : Settled(a)
  <2> SUFFICES ASSUME obj[op] \in localObjects
               PROVE  \A a \in earlier[op] : Settled(a)
    OBVIOUS
  <2>1. earlier[op] = UpTo(prev[op])
    BY <1>4 DEF MailboxInv, ChainIsOrder
  <2>2. CASE prev[op] = NoOp
    BY <2>1, <2>2 DEF UpTo
  <2>3. ASSUME NEW p \in Ops, prev[op] = p, p # NoOp, Settled(p)
        PROVE  \A a \in earlier[op] : Settled(a)
    <3>1. earlier[op] = earlier[p] \cup {p}
      BY <2>1, <2>3 DEF UpTo
    <3>2. InMailbox(p) /\ obj[p] = obj[op]
      BY <3>1 DEF MailboxInv, EnqueueOrder, On
    <3>3. \A a \in earlier[p] : Settled(a)
      BY <2>3, <3>2 DEF MailboxInv, StartedInTurn, Settled
    <3> QED
      BY <2>3, <3>1, <3>3
  <2> QED
    BY <1>3, <2>2, <2>3
<1>9. StartedInTurn'
  BY <1>1, <1>2, <1>4, <1>5, <1>8 DEF MailboxInv, StartedInTurn, TypeOK
<1> QED
  BY <1>6, <1>7, <1>9 DEF MailboxInv

LEMMA EnqueueKeeps ==
  ASSUME TypeOK, MailboxInv, NEW op \in Ops, NEW o \in Proxies, NEW k \in MailboxKinds,
         Enqueue(op, k, o)
  PROVE  MailboxInv'
<1>1. /\ kind[op] = "none" /\ kind' = [kind EXCEPT ![op] = k]
      /\ obj' = [obj EXCEPT ![op] = o]
      /\ st' = [st EXCEPT ![op] = "queued"]
      /\ earlier' = [earlier EXCEPT ![op] = On(o)]
      /\ prev' = [prev EXCEPT ![op] = mailboxes[o]]
      /\ mailboxes' = [mailboxes EXCEPT ![o] = op]
      /\ UNCHANGED <<localObjects, nextObjectId, pending>>
  BY DEF Enqueue
<1>2. /\ o \in ObjectIds /\ o # 0
      /\ \E c \in Ops : obj[c] = o
  BY DEF Proxies, MailboxInv, Shapes, TypeOK
<1>3. k \notin {"none", "refused", "create"}
  BY DEF MailboxKinds, DestroyKinds
<1>4. /\ ~InMailbox(op) /\ InMailbox(op)' /\ obj'[op] = o
      /\ \A q \in Ops \ {op} : InMailbox(q)' = InMailbox(q)
      /\ \A q \in Ops \ {op} : /\ obj'[q] = obj[q] /\ st'[q] = st[q]
                               /\ earlier'[q] = earlier[q] /\ prev'[q] = prev[q]
      /\ earlier'[op] = On(o) /\ prev'[op] = mailboxes[o] /\ st'[op] = "queued"
  BY <1>1, <1>2, <1>3 DEF InMailbox, MailboxKinds, DestroyKinds, TypeOK
<1>5. /\ op \notin On(o)
      /\ On(o)' = On(o) \cup {op}
      /\ \A p : p # o => On(p)' = On(p)
  BY <1>4 DEF On
<1>6. \A q \in Ops \ {op} : op \notin earlier[q]
  BY <1>4 DEF MailboxInv, EnqueueOrder, On
<1>7. \A q \in Ops \ {op} : Settled(q)' = Settled(q)
  BY <1>4 DEF Settled
<1>8. Shapes'
  BY <1>1, <1>2, <1>3, <1>4 DEF MailboxInv, Shapes, TypeOK
<1>9. PendingIsSent'
  BY <1>1, <1>4 DEF MailboxInv, PendingIsSent, Shapes
<1>10. FreshIds'
  <2>1. o < nextObjectId
    BY <1>2 DEF MailboxInv, FreshIds
  <2>2. \A q \in Ops : obj'[q] < nextObjectId
    BY <1>4, <2>1 DEF MailboxInv, FreshIds
  <2>3. \A p \in ObjectIds : p >= nextObjectId => mailboxes'[p] = NoOp
    BY <1>1, <1>2, <2>1 DEF MailboxInv, FreshIds, TypeOK, ObjectIds
  <2> QED
    BY <1>1, <2>2, <2>3 DEF MailboxInv, FreshIds
<1>11. EnqueueOrder'
  <2>1. (\A b \in Ops : earlier[b] \subseteq On(obj[b]))'
    BY <1>4, <1>5 DEF MailboxInv, EnqueueOrder
  <2>2. ASSUME NEW a \in Ops, NEW b \in Ops, InMailbox(a)', InMailbox(b)',
               obj'[a] = obj'[b], a # b
        PROVE  a \in earlier'[b] \/ b \in earlier'[a]
    <3>1. CASE a = op
      BY <1>4, <2>2, <3>1 DEF On
    <3>2. CASE b = op
      BY <1>4, <2>2, <3>2 DEF On
    <3>3. CASE a # op /\ b # op
      BY <1>4, <2>2, <3>3 DEF MailboxInv, EnqueueOrder
    <3> QED
      BY <3>1, <3>2, <3>3
  <2> QED
    BY <2>1, <2>2 DEF EnqueueOrder
<1>12. \A t \in Ops \cup {NoOp} : t # op => UpTo(t)' = UpTo(t)
  BY <1>4 DEF UpTo
<1>13. TailIsLast'
  <2> SUFFICES ASSUME NEW p \in localObjects'
               PROVE  On(p)' = UpTo(mailboxes[p])'
    BY DEF TailIsLast
  <2>1. p \in localObjects /\ p \in ObjectIds
    BY <1>1 DEF TypeOK
  <2>2. CASE p = o
    <3>1. mailboxes'[p] = op /\ op # NoOp
      BY <1>1, <1>2, <2>2, NodeAssumption DEF TypeOK
    <3> QED
      BY <1>4, <1>5, <2>2, <3>1 DEF UpTo
  <2>3. CASE p # o
    <3>1. mailboxes'[p] = mailboxes[p] /\ mailboxes[p] \in Ops \cup {NoOp}
      BY <1>1, <2>1, <2>3 DEF TypeOK
    <3>2. mailboxes[p] # op
      BY <1>4, <2>1, NodeAssumption DEF MailboxInv, TailIsLast, UpTo, On
    <3> QED
      BY <1>5, <1>12, <2>1, <2>3, <3>1, <3>2 DEF MailboxInv, TailIsLast
  <2> QED
    BY <2>2, <2>3
<1>14. ChainIsOrder'
  <2> SUFFICES ASSUME NEW b \in Ops, InMailbox(b)', obj'[b] \in localObjects'
               PROVE  earlier'[b] = UpTo(prev[b])'
    BY DEF ChainIsOrder
  <2>1. CASE b = op
    <3>1. On(o) = UpTo(mailboxes[o]) /\ mailboxes[o] \in Ops \cup {NoOp}
      BY <1>1, <1>2, <1>4, <2>1 DEF MailboxInv, TailIsLast, TypeOK
    <3>2. mailboxes[o] # op
      BY <1>5, <3>1, NodeAssumption DEF UpTo
    <3> QED
      BY <1>4, <1>12, <2>1, <3>1, <3>2
  <2>2. CASE b # op
    <3>1. earlier[b] = UpTo(prev[b]) /\ prev[b] \in Ops \cup {NoOp}
      BY <1>1, <1>4, <2>2 DEF MailboxInv, ChainIsOrder, TypeOK
    <3>2. prev[b] # op
      BY <1>6, <2>2, <3>1, NodeAssumption DEF UpTo
    <3> QED
      BY <1>4, <1>12, <2>2, <3>1, <3>2
  <2> QED
    BY <2>1, <2>2
<1>15. StartedInTurn'
  <2> SUFFICES ASSUME NEW b \in Ops, InMailbox(b)', obj'[b] \in localObjects',
                      st'[b] # "queued", NEW a \in earlier'[b]
               PROVE  Settled(a)'
    BY DEF StartedInTurn
  <2>1. b # op
    BY <1>4
  <2>2. a \in earlier[b] /\ Settled(a)
    BY <1>1, <1>4, <2>1 DEF MailboxInv, StartedInTurn
  <2>3. a \in Ops \ {op}
    BY <1>6, <2>1, <2>2 DEF TypeOK
  <2> QED
    BY <1>7, <2>2, <2>3
<1> QED
  BY <1>8, <1>9, <1>10, <1>11, <1>13, <1>14, <1>15 DEF MailboxInv

LEMMA NextIInv == IInv /\ [Next]_vars => IInv'
<1> SUFFICES ASSUME IInv, [Next]_vars PROVE IInv'
  OBVIOUS
<1>1. TypeOK'
  BY TypeStep DEF IInv, MailboxInv
<1>2. MailboxInv'
  BY <1>1, Classify, SettlingKeeps, RefuseKeeps, CreateKeeps, StartKeeps, EnqueueKeeps
  DEF IInv
<1> QED
  BY <1>1, <1>2 DEF IInv

LEMMA Invariance == Spec => []IInv
  BY InitIInv, NextIInv, PTL DEF Spec

\* Every reachable state of a node, its ports and its thread is well typed.
THEOREM TypeCorrect == Spec => []TypeOK
<1>1. IInv => TypeOK
  BY DEF IInv
<1> QED
  BY <1>1, Invariance, PTL

\* The mailbox of an actor the node knows never has two unanswered requests,
\* however calls, destroys, timeouts, errors, crashes and dispose interleave.
THEOREM Exclusion == Spec => []MailboxExclusion
<1>1. IInv => MailboxExclusion
  BY DEF IInv, MailboxInv, EnqueueOrder, StartedInTurn, MailboxExclusion, Settled
<1> QED
  BY <1>1, Invariance, PTL

-----------------------------------------------------------------------------
(* The order in which operations reach their actor.                        *)
(*                                                                         *)
(* The argument: a request is in one place at a time (the port, a handler  *)
(* of the thread, an answer), so what a handler finds at the head of the   *)
(* port has not been handled before. The port keeps enqueue order as long  *)
(* as the node knows the actor (PortOrder), the thread holds no actor that *)
(* the node has forgotten (Actors), and a destroy that settled has either  *)
(* removed the actor or lost its thread (DestroySettles).                  *)

InThread(op) == op \in executing \cup closing
Answering(op) == \E i \in DOMAIN toHost : toHost[i].id = op

\* a thread that is gone holds nothing, and the host is told after the fact
Dead ==
  /\ crashNotice => ~alive
  /\ ~alive => /\ toWorker = <<>>
               /\ objects = {} /\ executing = {} /\ closing = {}

\* each request is in one place, where it has left its mailbox and is not
\* resolved; a handler that is suspended has reached its actor
OnePlace ==
  \A op \in Ops :
    /\ kind[op] \in MailboxKinds => obj[op] # 0
    /\ InTransit(op) => st[op] \in {"sent", "rejected"} /\ ~Answering(op) /\ op \notin begun
    /\ InThread(op) => st[op] \in {"sent", "rejected"} /\ ~Answering(op) /\ op \in begun
    /\ Answering(op) => st[op] \notin {"new", "queued"}
    /\ op \in begun => InMailbox(op) /\ st[op] \notin {"new", "queued"}
    /\ op \in executing => kind[op] = "call"
    /\ op \in closing => kind[op] \in DestroyKinds

\* no operation is twice in the port, and none before one enqueued earlier
PortOrder ==
  \A i, j \in DOMAIN toWorker :
    i < j /\ toWorker[i] \in Ops =>
      /\ toWorker[j] # toWorker[i]
      /\ obj[toWorker[i]] \in localObjects => toWorker[j] \notin earlier[toWorker[i]]

\* an actor has one create, which resolved before anything else was asked of
\* the actor, and the node knows each actor of the thread
Actors ==
  /\ objects \subseteq localObjects
  /\ \A b, c \in Ops : kind[b] = "create" /\ kind[c] = "create" /\ obj[b] = obj[c] => b = c
  /\ \A c \in Ops : kind[c] = "create" /\ st[c] # "resolved" => obj[c] \in localObjects
  /\ \A b \in Ops : InMailbox(b) =>
       \E c \in Ops : kind[c] = "create" /\ obj[c] = obj[b] /\ st[c] = "resolved"

\* a destroy is answered when the actor is gone, never with an error
DestroySettles ==
  /\ \A i \in DOMAIN toHost : \A d \in Ops :
       toHost[i].id = d /\ kind[d] \in DestroyKinds => toHost[i].ok /\ obj[d] \notin objects
  /\ \A d \in Ops : kind[d] \in DestroyKinds =>
       /\ st[d] = "rejected" => ~alive
       /\ st[d] = "resolved" => obj[d] \notin localObjects

\* without a call timeout the host gives up on nothing the thread still has
NothingAbandoned ==
  ~CallTimeout => \A op \in Ops : InTransit(op) \/ InThread(op) => st[op] = "sent"

\* a call is answered with a result only when its method has run
AnswersTell ==
  /\ \A i \in DOMAIN toHost : \A c \in Ops :
       toHost[i].id = c /\ toHost[i].ok /\ kind[c] = "call" => c \in begun
  /\ \A c \in Ops : kind[c] = "call" /\ st[c] = "resolved" => c \in begun

OrderInv ==
  /\ Dead
  /\ OnePlace
  /\ PortOrder
  /\ Actors
  /\ DestroySettles
  /\ NothingAbandoned
  /\ AnswersTell
  /\ BegunInOrder
  /\ DestroyIsFinal

-----------------------------------------------------------------------------
(* The ports as sequences.                                                  *)

LEMMA Appended ==
  ASSUME NEW S, NEW s \in Seq(S), NEW e \in S
  PROVE  \A i \in DOMAIN Append(s, e) :
           \/ i \in DOMAIN s /\ Append(s, e)[i] = s[i] /\ i <= Len(s)
           \/ i = Len(s) + 1 /\ Append(s, e)[i] = e
  OBVIOUS

LEMMA Shifted ==
  ASSUME NEW S, NEW s \in Seq(S), s # <<>>
  PROVE  /\ \A i \in DOMAIN Tail(s) : i + 1 \in DOMAIN s /\ Tail(s)[i] = s[i + 1]
         /\ 1 \in DOMAIN s /\ Head(s) = s[1]
  OBVIOUS

LEMMA Positions ==
  ASSUME NEW S, NEW s \in Seq(S)
  PROVE  DOMAIN s \subseteq Nat \ {0} /\ \A i \in DOMAIN s : i <= Len(s)
  OBVIOUS

\* a message is read from the port or the port is left alone or emptied: what
\* is in it keeps its order
PortOnlyLoses ==
  \/ toWorker' \in {toWorker, <<>>}
  \/ toWorker # <<>> /\ toWorker' = Tail(toWorker)

LEMMA PortKeepsOrder ==
  ASSUME TypeOK, PortOnlyLoses
  PROVE  /\ \A op \in Ops : InTransit(op)' => InTransit(op)
         /\ \A i, j \in DOMAIN toWorker' :
              i < j =>
                \E k, l \in DOMAIN toWorker :
                  k < l /\ toWorker[k] = toWorker'[i] /\ toWorker[l] = toWorker'[j]
<1> USE DEF TypeOK, InTransit
<1>1. CASE toWorker' = toWorker
  BY <1>1
<1>2. CASE toWorker' = <<>>
  BY <1>2
<1>3. CASE toWorker # <<>> /\ toWorker' = Tail(toWorker)
  <2>1. \A i \in DOMAIN toWorker' : i + 1 \in DOMAIN toWorker /\ toWorker'[i] = toWorker[i + 1]
    BY <1>3, Shifted
  <2>2. DOMAIN toWorker' \subseteq Nat
    BY <1>3
  <2> QED
    BY <2>1, <2>2
<1> QED
  BY <1>1, <1>2, <1>3 DEF PortOnlyLoses

-----------------------------------------------------------------------------
(* Quiet steps: those that give the thread no operation to handle. They end *)
(* handlers, settle promises and drop messages.                             *)

ThreadOnlyLoses ==
  /\ objects' \subseteq objects /\ executing' \subseteq executing /\ closing' \subseteq closing
  /\ Dead'
  /\ alive' => alive
  /\ PortOnlyLoses

AnswersOnlyLose ==
  \A i \in DOMAIN toHost' :
    toHost'[i].id \notin Ops \/ \E j \in DOMAIN toHost : toHost'[i] = toHost[j]

\* a promise settles by its answer, or is rejected with its thread gone or
\* by its timer
PromisesSettle ==
  \A op \in Ops :
    \/ st'[op] = st[op]
    \/ /\ st[op] \in {"sent", "rejected"} /\ st'[op] \in {"resolved", "rejected"}
       /\ kind[op] \in DestroyKinds /\ st'[op] = "resolved" => obj[op] \notin localObjects'
       /\ kind[op] = "call" /\ st'[op] = "resolved" => st[op] = "resolved" \/ op \in begun
       /\ \/ Answering(op) /\ (kind[op] \in DestroyKinds => st'[op] = "resolved")
          \/ st'[op] = "rejected" /\ ~alive'
          \/ st'[op] = "rejected" /\ CallTimeout /\ kind[op] = "call"

Quiet ==
  /\ UNCHANGED <<kind, obj, earlier, begun>>
  /\ localObjects' \subseteq localObjects
  /\ \A o \in localObjects \ localObjects' :
       o \notin objects /\ \E d \in Ops : InMailbox(d) /\ obj[d] = o
  /\ ThreadOnlyLoses
  /\ AnswersOnlyLose
  /\ PromisesSettle

LEMMA QuietKeeps ==
  ASSUME IInv, OrderInv, Quiet
  PROVE  OrderInv'
<1> USE DEF OrderInv
<1>1. /\ UNCHANGED <<kind, obj, earlier, begun>>
      /\ localObjects' \subseteq localObjects /\ objects' \subseteq objects
      /\ \A op \in Ops : InMailbox(op)' = InMailbox(op)
      /\ \A op \in Ops : InThread(op)' => InThread(op)
      /\ closing' \subseteq closing /\ executing' \subseteq executing
  BY DEF Quiet, ThreadOnlyLoses, InMailbox, InThread
<1>2. \A op \in Ops : InTransit(op)' => InTransit(op)
  BY PortKeepsOrder DEF Quiet, ThreadOnlyLoses, IInv
<1>3. \A op \in Ops : Answering(op)' => Answering(op)
  BY DEF Quiet, AnswersOnlyLose, Answering
<1>4. \A op \in Ops :
        /\ st'[op] \in {"new", "queued"} <=> st[op] \in {"new", "queued"}
        /\ Settled(op) => Settled(op)'
        /\ st'[op] = "resolved" => st[op] = "resolved" \/ Answering(op)
        /\ ~(st[op] = "resolved" /\ st'[op] # "resolved")
  BY DEF Quiet, PromisesSettle, Settled
<1>5. Dead'
  BY DEF Quiet, ThreadOnlyLoses
<1>6. OnePlace'
  <2>1. \A op \in Ops : st[op] \in {"sent", "rejected"} /\ ~Answering(op)
                        => st'[op] \in {"sent", "rejected"}
    BY DEF Quiet, PromisesSettle
  <2> QED
    BY <1>1, <1>2, <1>3, <1>4, <2>1 DEF OnePlace
<1>7. PortOrder'
  <2> SUFFICES ASSUME NEW i \in DOMAIN toWorker', NEW j \in DOMAIN toWorker',
                      i < j, toWorker'[i] \in Ops
               PROVE  /\ toWorker'[j] # toWorker'[i]
                      /\ obj[toWorker'[i]] \in localObjects
                           => toWorker'[j] \notin earlier[toWorker'[i]]
    BY <1>1 DEF PortOrder
  <2>1. \E k, l \in DOMAIN toWorker :
          k < l /\ toWorker[k] = toWorker'[i] /\ toWorker[l] = toWorker'[j]
    BY PortKeepsOrder DEF Quiet, ThreadOnlyLoses, IInv
  <2> QED
    BY <2>1 DEF PortOrder
<1>8. Actors'
  <2>1. objects' \subseteq localObjects'
    BY <1>1 DEF Quiet, Actors
  <2>2. ASSUME NEW c \in Ops, kind'[c] = "create", st'[c] # "resolved"
        PROVE  obj'[c] \in localObjects'
    <3>1. kind[c] = "create" /\ st[c] # "resolved" /\ obj[c] \in localObjects
      BY <1>1, <1>4, <2>2 DEF Actors
    <3>2. ~\E d \in Ops : InMailbox(d) /\ obj[d] = obj[c]
      BY <3>1 DEF Actors
    <3> QED
      BY <1>1, <3>1, <3>2 DEF Quiet
  <2>3. \A b \in Ops : InMailbox(b)' =>
          \E c \in Ops : kind'[c] = "create" /\ obj'[c] = obj'[b] /\ st'[c] = "resolved"
    BY <1>1, <1>4 DEF Actors
  <2> QED
    BY <1>1, <2>1, <2>2, <2>3 DEF Actors
<1>9. DestroySettles'
  <2>1. (\A i \in DOMAIN toHost : \A d \in Ops :
           toHost[i].id = d /\ kind[d] \in DestroyKinds => toHost[i].ok /\ obj[d] \notin objects)'
    BY <1>1 DEF Quiet, AnswersOnlyLose, DestroySettles
  <2>2. (\A d \in Ops : kind[d] \in DestroyKinds =>
           /\ st[d] = "rejected" => ~alive
           /\ st[d] = "resolved" => obj[d] \notin localObjects)'
    BY <1>1 DEF Quiet, ThreadOnlyLoses, PromisesSettle, DestroySettles, DestroyKinds
  <2> QED
    BY <2>1, <2>2 DEF DestroySettles
<1>10. NothingAbandoned'
  <2> SUFFICES ASSUME ~CallTimeout, NEW op \in Ops, InTransit(op)' \/ InThread(op)'
               PROVE  st'[op] = "sent"
    BY DEF NothingAbandoned
  <2>1. st[op] = "sent" /\ ~Answering(op)
    BY <1>1, <1>2 DEF NothingAbandoned, OnePlace
  <2>2. alive'
    BY <1>5 DEF Dead, InTransit, InThread
  <2> QED
    BY <2>1, <2>2 DEF Quiet, PromisesSettle
<1>11. BegunInOrder' /\ DestroyIsFinal'
  <2>1. \A b \in begun : earlier[b] \subseteq Ops
    BY DEF IInv, TypeOK
  <2> QED
    BY <1>1, <1>2, <1>4, <2>1 DEF BegunInOrder, DestroyIsFinal
<1>12. AnswersTell'
  BY <1>1 DEF Quiet, AnswersOnlyLose, PromisesSettle, AnswersTell
<1> QED
  BY <1>5, <1>6, <1>7, <1>8, <1>9, <1>10, <1>11, <1>12

\* worker.terminate(), whether or not this step is the one that calls it
LEMMA EndOfThread ==
  ASSUME Dead, UNCHANGED crashNotice, NEW p, Terminate \/ NotifyDrain(p)
  PROVE  ThreadOnlyLoses
<1>1. CASE Terminate
  BY <1>1 DEF Terminate, StopThread, ThreadOnlyLoses, PortOnlyLoses, Dead
<1>2. CASE UNCHANGED <<alive, toWorker, threadVars>>
  BY <1>2 DEF threadVars, ThreadOnlyLoses, PortOnlyLoses, Dead
<1> QED
  BY <1>1, <1>2 DEF NotifyDrain

LEMMA RejectedWithThread ==
  ASSUME IInv, RejectPending, ~alive'
  PROVE  PromisesSettle
  BY DEF IInv, MailboxInv, PendingIsSent, RejectPending, PromisesSettle

\* an answer is taken from the port to the host
LEMMA AnswerTaken ==
  ASSUME TypeOK, toHost # <<>>, toHost' = Tail(toHost)
  PROVE  AnswersOnlyLose /\ 1 \in DOMAIN toHost /\ Head(toHost) = toHost[1]
  BY Shifted DEF TypeOK, AnswersOnlyLose

LEMMA HostIsQuiet ==
  ASSUME IInv, OrderInv,
         \/ \E closeActors \in BOOLEAN : Dispose(closeActors)
         \/ CloseAllActors \/ Finally \/ DropResponse \/ WorkerError
         \/ \E op \in Ops : Respond(op) \/ TimerFires(op)
  PROVE  Quiet
<1> USE DEF OrderInv
<1>1. ASSUME UNCHANGED <<opVars, nodeVars, begun>>,
             ThreadOnlyLoses, AnswersOnlyLose, PromisesSettle
      PROVE  Quiet
  BY <1>1 DEF Quiet, opVars, nodeVars
<1>2. UNCHANGED toHost => AnswersOnlyLose
  BY DEF AnswersOnlyLose
<1>3. UNCHANGED st => PromisesSettle
  BY DEF PromisesSettle
<1>4. ASSUME NEW closeActors \in BOOLEAN, Dispose(closeActors)
      PROVE  Quiet
  <2>1. UNCHANGED <<opVars, nodeVars, begun, toWorker, toHost, st, crashNotice, alive, threadVars>>
    BY <1>4 DEF Dispose, history
  <2>2. ThreadOnlyLoses
    BY <2>1 DEF ThreadOnlyLoses, PortOnlyLoses, threadVars, Dead
  <2> QED
    BY <1>1, <1>2, <1>3, <2>1, <2>2
<1>5. CASE Finally
  <2>1. UNCHANGED <<opVars, nodeVars, begun, toHost, crashNotice>> /\ Terminate /\ RejectPending
    BY <1>5 DEF Finally, history
  <2>2. ThreadOnlyLoses /\ PromisesSettle
    BY <2>1, EndOfThread, RejectedWithThread DEF Terminate, StopThread
  <2> QED
    BY <1>1, <1>2, <2>1, <2>2
<1>6. CASE DropResponse
  <2>1. /\ UNCHANGED <<opVars, nodeVars, begun, st, crashNotice, alive, toWorker, threadVars>>
        /\ toHost # <<>> /\ toHost' = Tail(toHost)
    BY <1>6 DEF DropResponse, history
  <2>2. ThreadOnlyLoses
    BY <2>1 DEF ThreadOnlyLoses, PortOnlyLoses, threadVars, Dead
  <2> QED
    BY <1>1, <1>3, <2>1, <2>2, AnswerTaken DEF IInv
<1>7. CASE CloseAllActors
  <2>1. UNCHANGED <<opVars, nodeVars, begun, toWorker, toHost, st, crashNotice, alive, threadVars>>
    BY <1>7 DEF CloseAllActors, history
  <2>2. ThreadOnlyLoses
    BY <2>1 DEF ThreadOnlyLoses, PortOnlyLoses, threadVars, Dead
  <2> QED
    BY <1>1, <1>2, <1>3, <2>1, <2>2
<1>8. CASE WorkerError
  <2>1. /\ UNCHANGED <<opVars, nodeVars, begun, toHost>> /\ RejectPending
        /\ crashNotice' = FALSE /\ ~alive
        /\ Terminate \/ UNCHANGED <<alive, toWorker, threadVars>>
    BY <1>8 DEF WorkerError, history, Dead
  <2>2. ThreadOnlyLoses /\ ~alive'
    BY <2>1 DEF ThreadOnlyLoses, PortOnlyLoses, threadVars, Dead, Terminate, StopThread
  <2> QED
    BY <1>1, <1>2, <2>1, <2>2, RejectedWithThread
<1>9. ASSUME NEW op \in Ops, TimerFires(op)
      PROVE  Quiet
  <2>1. /\ UNCHANGED <<opVars, nodeVars, begun, toHost, crashNotice>>
        /\ CallTimeout /\ kind[op] = "call" /\ op \in pending
        /\ NotifyDrain(pending \ {op})
        /\ st' = [st EXCEPT ![op] = IF Settled(op) THEN @ ELSE "rejected"]
    BY <1>9 DEF TimerFires, history
  <2>2. st[op] \in {"sent", "rejected"}
    BY <2>1 DEF IInv, MailboxInv, PendingIsSent
  <2>3. PromisesSettle
    BY <2>1, <2>2 DEF IInv, TypeOK, PromisesSettle, Settled, DestroyKinds
  <2> QED
    BY <1>1, <1>2, <2>1, <2>3, EndOfThread
<1>10. ASSUME NEW op \in Ops, Respond(op)
       PROVE  Quiet
  <2>1. /\ UNCHANGED <<kind, obj, earlier, begun, crashNotice>>
        /\ toHost # <<>> /\ toHost' = Tail(toHost)
        /\ Head(toHost).id = op /\ op \in pending
        /\ NotifyDrain(pending \ {op})
        /\ st' = [st EXCEPT ![op] = IF Head(toHost).ok THEN "resolved" ELSE "rejected"]
        /\ localObjects' = IF Head(toHost).ok /\ kind[op] \in DestroyKinds
                              THEN localObjects \ {obj[op]} ELSE localObjects
    BY <1>10 DEF Respond, opVars, history
  <2>2. AnswersOnlyLose /\ 1 \in DOMAIN toHost /\ Head(toHost) = toHost[1]
    BY <2>1, AnswerTaken DEF IInv
  <2>3. Answering(op) /\ st[op] \in {"sent", "rejected"}
    BY <2>1, <2>2 DEF Answering, IInv, MailboxInv, PendingIsSent
  <2>4. kind[op] \in DestroyKinds => /\ Head(toHost).ok /\ obj[op] \notin objects
                                     /\ InMailbox(op)
    BY <2>1, <2>2 DEF DestroySettles, OnePlace, InMailbox, MailboxKinds
  <2>8. kind[op] = "call" /\ Head(toHost).ok => op \in begun
    BY <2>1, <2>2 DEF AnswersTell
  <2>5. PromisesSettle
    BY <2>1, <2>3, <2>4, <2>8 DEF IInv, TypeOK, PromisesSettle
  <2>6. ThreadOnlyLoses
    BY <2>1, EndOfThread
  <2>7. \A o \in localObjects \ localObjects' :
          o \notin objects /\ \E d \in Ops : InMailbox(d) /\ obj[d] = o
    BY <2>1, <2>4
  <2> QED
    BY <2>1, <2>2, <2>5, <2>6, <2>7 DEF Quiet
<1> QED
  BY <1>4, <1>5, <1>6, <1>7, <1>8, <1>9, <1>10

LEMMA CrashIsQuiet ==
  ASSUME IInv, OrderInv, Crash \/ UNCHANGED vars
  PROVE  Quiet
<1> USE DEF OrderInv, Quiet, opVars, nodeVars, threadVars, history
<1>1. UNCHANGED st => PromisesSettle
  BY DEF PromisesSettle
<1>2. UNCHANGED toHost => AnswersOnlyLose
  BY DEF AnswersOnlyLose
<1>3. CASE Crash
  <2>1. ThreadOnlyLoses
    BY <1>3 DEF Crash, StopThread, ThreadOnlyLoses, PortOnlyLoses, Dead
  <2> QED
    BY <1>1, <1>2, <1>3, <2>1 DEF Crash
<1>4. CASE UNCHANGED vars
  <2>1. ThreadOnlyLoses
    BY <1>4 DEF vars, ThreadOnlyLoses, PortOnlyLoses, Dead
  <2> QED
    BY <1>1, <1>2, <1>4, <2>1 DEF vars
<1> QED
  BY <1>3, <1>4

-----------------------------------------------------------------------------
(* The thread handles an operation.                                         *)

HostIdle ==
  UNCHANGED <<kind, obj, earlier, st, localObjects, crashNotice, alive>>

\* the handler of op takes it from the port
LEMMA Taken ==
  ASSUME IInv, OrderInv, NEW op \in Ops, Take(op)
  PROVE  /\ HostIdle /\ alive
         /\ InTransit(op) /\ ~InThread(op) /\ op \notin begun /\ ~Answering(op)
         /\ \A q \in Ops : InTransit(q)' => InTransit(q) /\ q # op
         /\ PortOrder'
         /\ \A a \in earlier[op] : obj[op] \in localObjects => ~InTransit(a)'
<1>1. /\ HostIdle /\ alive /\ toWorker # <<>> /\ Head(toWorker) = op
      /\ toWorker' = Tail(toWorker)
  BY DEF Take, HostIdle, opVars, nodeVars
<1>2. /\ \A i \in DOMAIN toWorker' : i + 1 \in DOMAIN toWorker /\ toWorker'[i] = toWorker[i + 1]
      /\ 1 \in DOMAIN toWorker /\ toWorker[1] = op
      /\ DOMAIN toWorker' \subseteq Nat \ {0}
  BY <1>1, Shifted, Positions DEF IInv, TypeOK
<1>3. \A i \in DOMAIN toWorker' : toWorker'[i] # op
  BY <1>2 DEF OrderInv, PortOrder
<1>4. PortOrder'
  BY <1>1, <1>2 DEF OrderInv, PortOrder, HostIdle
<1>5. \A a \in earlier[op] : obj[op] \in localObjects => ~InTransit(a)'
  BY <1>2 DEF OrderInv, PortOrder, InTransit
<1>6. InTransit(op) /\ \A q \in Ops : InTransit(q)' => InTransit(q) /\ q # op
  BY <1>2, <1>3 DEF InTransit
<1> QED
  BY <1>1, <1>4, <1>5, <1>6 DEF OrderInv, OnePlace

\* when an operation begins, those enqueued before it have settled and left
\* the port, and no destroy is among them
LEMMA BeginsInTurn ==
  ASSUME IInv, OrderInv, NEW op \in Ops, Take(op), kind[op] \in MailboxKinds, obj[op] \in objects
  PROVE  /\ InMailbox(op)
         /\ \A a \in earlier[op] : Settled(a) /\ ~InTransit(a)' /\ kind[a] \notin DestroyKinds
<1> USE DEF OrderInv
<1>1. InMailbox(op) /\ obj[op] \in localObjects
  BY DEF OnePlace, InMailbox, Actors
<1>2. alive /\ st[op] # "queued" /\ \A a \in earlier[op] : ~InTransit(a)'
  BY <1>1, Taken DEF OnePlace
<1>3. \A a \in earlier[op] : a \in Ops /\ obj[a] = obj[op] /\ Settled(a)
  BY <1>1, <1>2 DEF IInv, MailboxInv, StartedInTurn, EnqueueOrder, On
<1> QED
  BY <1>1, <1>2, <1>3 DEF DestroySettles, Settled

LEMMA Answered ==
  ASSUME TypeOK, NEW op \in Ops, NEW ok \in BOOLEAN, Reply(op, ok)
  PROVE  /\ \A i \in DOMAIN toHost' :
              toHost'[i] = [id |-> op, ok |-> ok] \/ \E j \in DOMAIN toHost : toHost'[i] = toHost[j]
         /\ \A q \in Ops : Answering(q)' => Answering(q) \/ q = op
<1>1. \A i \in DOMAIN toHost' :
         toHost'[i] = [id |-> op, ok |-> ok] \/ \E j \in DOMAIN toHost : toHost'[i] = toHost[j]
  BY Appended DEF Reply, TypeOK
<1> QED
  BY <1>1 DEF Answering

\* What a step of the thread may do for operation op: begin it, keep it,
\* answer it.
LEMMA HandlingKeeps ==
  ASSUME IInv, OrderInv, NEW op \in Ops, HostIdle, alive,
         \A q \in Ops : InTransit(q)' => InTransit(q) /\ q # op,
         \A q \in Ops \ {op} :
           /\ q \in executing' => q \in executing
           /\ q \in closing' => q \in closing
           /\ q \in begun' => q \in begun,
         \A q \in Ops : Answering(q)' => Answering(q) \/ (q = op /\ ~InThread(op)'),
         \A q \in Ops : q \in begun => q \in begun',
         InTransit(op) \/ InThread(op),
         InThread(op)' => op \in begun',
         op \in executing' => kind[op] = "call",
         op \in closing' => kind[op] \in DestroyKinds,
         PortOrder',
         \/ objects' \subseteq objects
         \/ kind[op] = "create" /\ InTransit(op) /\ objects' \subseteq objects \cup {obj[op]},
         \A i \in DOMAIN toHost' :
           \/ \E j \in DOMAIN toHost : toHost'[i] = toHost[j]
           \/ /\ toHost'[i].id = op
              /\ kind[op] \in DestroyKinds => toHost'[i].ok /\ obj[op] \notin objects'
              /\ kind[op] = "call" /\ toHost'[i].ok => op \in begun',
         op \in begun' /\ op \notin begun =>
           /\ InMailbox(op)
           /\ \A a \in earlier[op] :
                Settled(a) /\ ~InTransit(a)' /\ kind[a] \notin DestroyKinds,
         begun' \subseteq Ops
  PROVE  OrderInv'
<1> USE DEF OrderInv, HostIdle
<1>1. /\ UNCHANGED <<kind, obj, earlier, st, localObjects, crashNotice, alive>>
      /\ \A q \in Ops : InMailbox(q)' = InMailbox(q)
      /\ \A q : Settled(q)' = Settled(q)
  BY DEF InMailbox, Settled
<1>2. st[op] \in {"sent", "rejected"}
  BY DEF OnePlace
<1>3. Dead'
  BY DEF Dead
<1>4. OnePlace'
  <2>1. ASSUME NEW q \in Ops \ {op}
        PROVE  /\ InTransit(q)' => InTransit(q) /\ q \notin begun'
               /\ InThread(q)' => InThread(q) /\ q \in begun'
               /\ Answering(q)' => Answering(q)
               /\ q \in begun' => q \in begun
               /\ q \in executing' => q \in executing
               /\ q \in closing' => q \in closing
    <3>1. /\ InTransit(q)' => InTransit(q)
          /\ InThread(q)' => InThread(q)
          /\ Answering(q)' => Answering(q)
          /\ q \in begun' <=> q \in begun
          /\ q \in executing' => q \in executing
          /\ q \in closing' => q \in closing
      BY <2>1 DEF InThread
    <3>2. (InTransit(q) => q \notin begun) /\ (InThread(q) => q \in begun)
      BY <2>1 DEF OnePlace
    <3> QED
      BY <3>1, <3>2
  <2>2. /\ ~InTransit(op)' /\ ~(InThread(op)' /\ Answering(op)')
        /\ op \in begun' => InMailbox(op)
    BY DEF OnePlace
  <2> QED
    BY <1>1, <1>2, <2>1, <2>2 DEF OnePlace
<1>5. Actors'
  <2>1. objects' \subseteq localObjects
    BY <1>2 DEF Actors
  <2> QED
    BY <1>1, <2>1 DEF Actors
<1>6. DestroySettles'
  <2>1. \A i \in DOMAIN toHost : \A d \in Ops :
          toHost[i].id = d /\ kind[d] \in DestroyKinds => toHost[i].ok /\ obj[d] \notin objects'
    <3> SUFFICES ASSUME NEW i \in DOMAIN toHost, NEW d \in Ops,
                        toHost[i].id = d, kind[d] \in DestroyKinds
                 PROVE  toHost[i].ok /\ obj[d] \notin objects'
      OBVIOUS
    <3>1. toHost[i].ok /\ obj[d] \notin objects /\ InMailbox(d)
      BY DEF DestroySettles, OnePlace, InMailbox, MailboxKinds
    <3>2. PICK c \in Ops : kind[c] = "create" /\ obj[c] = obj[d] /\ st[c] = "resolved"
      BY <3>1 DEF Actors
    <3>3. kind[op] = "create" /\ InTransit(op) => obj[op] # obj[d]
      BY <1>2, <3>2 DEF Actors
    <3> QED
      BY <3>1, <3>3
  <2>2. (\A i \in DOMAIN toHost : \A d \in Ops :
           toHost[i].id = d /\ kind[d] \in DestroyKinds => toHost[i].ok /\ obj[d] \notin objects)'
    BY <1>1, <2>1
  <2> QED
    BY <1>1, <2>2 DEF DestroySettles
<1>7. NothingAbandoned'
  BY DEF NothingAbandoned, InThread
<1>8. BegunInOrder'
  <2> SUFFICES ASSUME NEW b \in begun', NEW a \in earlier[b]
               PROVE  Settled(a) /\ ~InTransit(a)'
    BY <1>1 DEF BegunInOrder
  <2>1. a \in Ops
    BY DEF IInv, TypeOK
  <2> QED
    BY <2>1 DEF BegunInOrder
<1>9. DestroyIsFinal'
  BY DEF DestroyIsFinal
<1>10. AnswersTell'
  BY <1>1 DEF AnswersTell
<1> QED
  BY <1>3, <1>4, <1>5, <1>6, <1>7, <1>8, <1>9, <1>10

LEMMA HandleCreateKeeps ==
  ASSUME IInv, OrderInv, NEW op \in Ops, HandleCreate(op)
  PROVE  OrderInv'
<1>1. PICK ok \in BOOLEAN :
        Reply(op, ok) /\ objects' = IF ok THEN objects \cup {obj[op]} ELSE objects
  BY DEF HandleCreate
<1>2. Take(op) /\ kind[op] = "create" /\ UNCHANGED <<executing, closing, begun>>
  BY DEF HandleCreate, history
<1>3. /\ \A q \in Ops : InThread(q)' = InThread(q)
      /\ \A q \in begun : q \in Ops
  BY <1>2 DEF InThread, IInv, TypeOK
<1>4. \A i \in DOMAIN toHost' :
        toHost'[i].id = op \/ \E j \in DOMAIN toHost : toHost'[i] = toHost[j]
  BY <1>1, Answered DEF IInv
<1>5. \A q \in Ops : Answering(q)' => Answering(q) \/ q = op
  BY <1>1, Answered DEF IInv
<1>6. /\ kind[op] \notin DestroyKinds \cup {"call"} /\ begun' \subseteq Ops
      /\ objects' \subseteq objects \cup {obj[op]}
  BY <1>1, <1>2 DEF DestroyKinds, IInv, TypeOK
<1>7. ~InThread(op)' /\ op \notin executing' /\ op \notin closing'
  BY <1>2, <1>3, Taken DEF InThread
<1> QED
  BY <1>2, <1>3, <1>4, <1>5, <1>6, <1>7, Taken, HandlingKeeps

LEMMA HandleCallKeeps ==
  ASSUME IInv, OrderInv, NEW op \in Ops, HandleCall(op)
  PROVE  OrderInv'
<1>1. Take(op) /\ kind[op] = "call" /\ UNCHANGED <<objects, closing>>
  BY DEF HandleCall
<1>2. begun \subseteq Ops /\ begun' \subseteq Ops
  BY DEF HandleCall, IInv, TypeOK
<1>3. CASE Reply(op, FALSE) /\ UNCHANGED <<executing, begun>>
  <2>1. \A q \in Ops : InThread(q)' = InThread(q)
    BY <1>1, <1>3 DEF InThread
  <2>2. PICK ok \in BOOLEAN : Reply(op, ok) /\ (kind[op] = "call" => ~ok)
    BY <1>3
  <2>3. /\ \A i \in DOMAIN toHost' :
             \/ toHost'[i].id = op /\ (kind[op] = "call" => ~toHost'[i].ok)
             \/ \E j \in DOMAIN toHost : toHost'[i] = toHost[j]
        /\ \A q \in Ops : Answering(q)' => Answering(q) \/ q = op
    BY <2>2, Answered DEF IInv
  <2> QED
    BY <1>1, <1>2, <1>3, <2>1, <2>3, Taken, HandlingKeeps DEF DestroyKinds, InThread
<1>4. CASE /\ obj[op] \in objects /\ UNCHANGED toHost
           /\ executing' = executing \cup {op} /\ begun' = begun \cup {op}
  <2>1. InThread(op)' /\ \A q \in Ops \ {op} : InThread(q)' = InThread(q)
    BY <1>1, <1>4 DEF InThread
  <2>2. \A q \in Ops : Answering(q)' = Answering(q)
    BY <1>4 DEF Answering
  <2>3. op \notin closing
    BY <1>1, Taken DEF InThread
  <2>4. kind[op] \in MailboxKinds
    BY <1>1 DEF MailboxKinds
  <2> QED
    BY <1>1, <1>2, <1>4, <2>1, <2>2, <2>3, <2>4, Taken, BeginsInTurn, HandlingKeeps
<1> QED
  BY <1>3, <1>4 DEF HandleCall

LEMMA HandleDestroyKeeps ==
  ASSUME IInv, OrderInv, NEW op \in Ops, HandleDestroy(op)
  PROVE  OrderInv'
<1>1. Take(op) /\ kind[op] \in DestroyKinds /\ UNCHANGED executing
  BY DEF HandleDestroy
<1>2. begun \subseteq Ops /\ begun' \subseteq Ops
  BY DEF HandleDestroy, IInv, TypeOK
<1>3. op \notin executing /\ op \notin closing /\ kind[op] \in MailboxKinds
  BY <1>1, Taken DEF InThread, MailboxKinds
<1>4. CASE /\ obj[op] \in objects /\ UNCHANGED <<objects, toHost>>
           /\ closing' = closing \cup {op} /\ begun' = begun \cup {op}
  <2>1. InThread(op)' /\ \A q \in Ops \ {op} : InThread(q)' = InThread(q)
    BY <1>1, <1>4 DEF InThread
  <2>2. \A q \in Ops : Answering(q)' = Answering(q)
    BY <1>4 DEF Answering
  <2> QED
    BY <1>1, <1>2, <1>3, <1>4, <2>1, <2>2, Taken, BeginsInTurn, HandlingKeeps
<1>5. CASE /\ objects' = objects \ {obj[op]}
           /\ begun' = IF obj[op] \in objects THEN begun \cup {op} ELSE begun
           /\ Reply(op, TRUE) /\ UNCHANGED closing
  <2>1. \A q \in Ops : InThread(q)' = InThread(q)
    BY <1>1, <1>5 DEF InThread
  <2>6. PICK ok \in BOOLEAN : Reply(op, ok) /\ (kind[op] \in DestroyKinds => ok)
    BY <1>5
  <2>2. /\ \A i \in DOMAIN toHost' :
             \/ toHost'[i].id = op /\ (kind[op] \in DestroyKinds => toHost'[i].ok)
             \/ \E j \in DOMAIN toHost : toHost'[i] = toHost[j]
        /\ \A q \in Ops : Answering(q)' => Answering(q) \/ q = op
    BY <2>6, Answered DEF IInv
  <2>3. objects' \subseteq objects /\ obj[op] \notin objects'
    BY <1>5
  <2>4. op \in begun' /\ op \notin begun =>
          /\ InMailbox(op)
          /\ \A a \in earlier[op] :
               Settled(a) /\ ~InTransit(a)' /\ kind[a] \notin DestroyKinds
    BY <1>1, <1>3, <1>5, BeginsInTurn
  <2>5. ~InThread(op)' /\ kind[op] # "call"
    BY <1>1, <1>3, <2>1 DEF InThread, DestroyKinds
  <2> QED
    BY <1>1, <1>2, <1>3, <1>5, <2>1, <2>2, <2>3, <2>4, <2>5, Taken, HandlingKeeps
<1> QED
  BY <1>4, <1>5 DEF HandleDestroy

LEMMA ReturnsKeep ==
  ASSUME IInv, OrderInv, NEW op \in Ops, MethodReturns(op) \/ CloseReturns(op)
  PROVE  OrderInv'
<1>1. /\ HostIdle /\ UNCHANGED <<begun, toWorker>> /\ InThread(op)
      /\ executing' = executing \ {op} /\ closing' = closing \ {op}
  BY DEF MethodReturns, CloseReturns, HostIdle, opVars, nodeVars, history, InThread,
         OrderInv, OnePlace, DestroyKinds
<1>2. alive /\ begun \subseteq Ops /\ op \in begun
  BY <1>1 DEF OrderInv, Dead, OnePlace, InThread, IInv, TypeOK
<1>3. /\ ~InThread(op)' /\ \A q \in Ops \ {op} : InThread(q)' = InThread(q)
      /\ \A q \in Ops : InTransit(q)' => InTransit(q) /\ q # op
  BY <1>1 DEF InThread, InTransit, OrderInv, OnePlace
<1>4. PortOrder'
  BY <1>1 DEF HostIdle, PortOrder, OrderInv
<1>5. PICK ok \in BOOLEAN : Reply(op, ok) /\ (kind[op] \in DestroyKinds => ok)
  BY DEF MethodReturns, CloseReturns, OrderInv, OnePlace, DestroyKinds
<1>6. objects' \subseteq objects /\ (kind[op] \in DestroyKinds => obj[op] \notin objects')
  BY DEF MethodReturns, CloseReturns, OrderInv, OnePlace, DestroyKinds
<1>7. /\ \A i \in DOMAIN toHost' :
           \/ toHost'[i].id = op /\ (kind[op] \in DestroyKinds => toHost'[i].ok)
           \/ \E j \in DOMAIN toHost : toHost'[i] = toHost[j]
      /\ \A q \in Ops : Answering(q)' => Answering(q) \/ q = op
  BY <1>5, Answered DEF IInv
<1> QED
  BY <1>1, <1>2, <1>3, <1>4, <1>6, <1>7, HandlingKeeps

-----------------------------------------------------------------------------
(* User code, and the start of a mailbox task.                              *)

\* an operation that has not been issued, or waits in its mailbox, is nowhere
LEMMA Nowhere ==
  ASSUME OrderInv, NEW op \in Ops, st[op] \in {"new", "queued"}
  PROVE  ~InTransit(op) /\ ~InThread(op) /\ ~Answering(op) /\ op \notin begun
  BY DEF OrderInv, OnePlace

ThreadIdle == UNCHANGED <<toHost, alive, crashNotice, threadVars, begun>>

LEMMA ThreadIdleFrame ==
  ASSUME ThreadIdle
  PROVE  /\ UNCHANGED <<toHost, alive, crashNotice, objects, executing, closing, begun>>
         /\ \A q : InThread(q)' = InThread(q) /\ Answering(q)' = Answering(q)
  BY DEF ThreadIdle, threadVars, InThread, Answering

\* request() posts op behind everything else, or fails and posts nothing
LEMMA Requested ==
  ASSUME IInv, OrderInv, NEW op \in Ops, Request(op), ~InTransit(op)
  PROVE  /\ \A q \in Ops : InTransit(q)' => InTransit(q) \/ (q = op /\ st'[op] = "sent")
         /\ \A i, j \in DOMAIN toWorker' : i < j =>
              \/ i \in DOMAIN toWorker /\ j \in DOMAIN toWorker
                 /\ toWorker'[i] = toWorker[i] /\ toWorker'[j] = toWorker[j]
              \/ /\ toWorker'[j] = op
                 /\ \E k \in DOMAIN toWorker : toWorker'[i] = toWorker[k]
         /\ toWorker' = toWorker \/ alive
<1>1. CASE toWorker' = toWorker
  BY <1>1 DEF InTransit
<1>2. CASE alive /\ toWorker' = Append(toWorker, op) /\ st'[op] = "sent"
  <2>1. /\ \A i \in DOMAIN toWorker' :
             \/ i \in DOMAIN toWorker /\ toWorker'[i] = toWorker[i] /\ i <= Len(toWorker)
             \/ i = Len(toWorker) + 1 /\ toWorker'[i] = op
        /\ Len(toWorker) \in Nat
    BY <1>2, Appended DEF IInv, TypeOK
  <2> QED
    BY <1>2, <2>1, Positions DEF InTransit, IInv, TypeOK
<1> QED
  BY <1>1, <1>2 DEF Request, Send, FailEncode, FailClone, Deliver, IInv, TypeOK

LEMMA RefuseKeepsOrder ==
  ASSUME IInv, OrderInv, NEW op \in Ops, Refuse(op)
  PROVE  OrderInv'
<1> USE DEF OrderInv
<1>1. /\ UNCHANGED <<obj, earlier, localObjects, toWorker>> /\ ThreadIdle
      /\ kind[op] = "none" /\ st[op] = "new"
      /\ kind' = [kind EXCEPT ![op] = "refused"]
      /\ st' = [st EXCEPT ![op] = "rejected"]
  BY DEF Refuse, nodeVars, history, ThreadIdle, IInv, MailboxInv, Shapes
<1>2. /\ \A q \in Ops : InMailbox(q)' = InMailbox(q) /\ InTransit(q)' = InTransit(q)
      /\ \A q \in Ops : Settled(q) => Settled(q)'
      /\ \A q \in Ops : q # op => kind'[q] = kind[q] /\ st'[q] = st[q]
      /\ kind'[op] = "refused" /\ st'[op] = "rejected"
  BY <1>1 DEF InMailbox, InTransit, Settled, MailboxKinds, DestroyKinds, IInv, TypeOK
<1>3. Dead' /\ PortOrder'
  BY <1>1, ThreadIdleFrame DEF Dead, PortOrder
<1>4. OnePlace'
  BY <1>1, <1>2, ThreadIdleFrame, Nowhere DEF OnePlace, MailboxKinds, DestroyKinds, InThread
<1>5. Actors'
  BY <1>1, <1>2, ThreadIdleFrame DEF Actors
<1>6. DestroySettles'
  BY <1>1, <1>2, ThreadIdleFrame DEF DestroySettles, DestroyKinds
<1>7. NothingAbandoned'
  BY <1>1, <1>2, ThreadIdleFrame, Nowhere DEF NothingAbandoned
<1>8. BegunInOrder' /\ DestroyIsFinal'
  <2>1. \A b \in begun : earlier[b] \subseteq Ops
    BY DEF IInv, TypeOK
  <2> QED
    BY <1>1, <1>2, <2>1, ThreadIdleFrame DEF BegunInOrder, DestroyIsFinal, DestroyKinds
<1>9. AnswersTell'
  BY <1>1, <1>2, ThreadIdleFrame DEF AnswersTell
<1> QED
  BY <1>3, <1>4, <1>5, <1>6, <1>7, <1>8, <1>9

LEMMA CreateKeepsOrder ==
  ASSUME IInv, OrderInv, NEW op \in Ops, Create(op)
  PROVE  OrderInv'
<1> USE DEF OrderInv
<1>1. /\ UNCHANGED earlier /\ ThreadIdle /\ Request(op)
      /\ kind[op] = "none" /\ st[op] = "new"
      /\ kind' = [kind EXCEPT ![op] = "create"]
      /\ obj' = [obj EXCEPT ![op] = nextObjectId]
      /\ localObjects' = localObjects \cup {nextObjectId}
  BY DEF Create, history, ThreadIdle, IInv, MailboxInv, Shapes
<1>2. /\ ~InTransit(op) /\ ~InThread(op) /\ ~Answering(op) /\ op \notin begun
      /\ ~InMailbox(op) /\ ~InMailbox(op)'
  BY <1>1, Nowhere DEF InMailbox, MailboxKinds, DestroyKinds, IInv, TypeOK
<1>3. /\ st'[op] \in {"sent", "rejected"} /\ \A q \in Ops \ {op} : st'[q] = st[q]
      /\ kind'[op] = "create" /\ obj'[op] = nextObjectId
      /\ \A q \in Ops \ {op} : kind'[q] = kind[q] /\ obj'[q] = obj[q] /\ InMailbox(q)' = InMailbox(q)
  BY <1>1, RequestType DEF IInv, TypeOK, InMailbox
<1>4. \A q \in Ops : obj[q] # nextObjectId
  BY NodeAssumption DEF IInv, TypeOK, MailboxInv, FreshIds, ObjectIds
<1>5. \A q \in Ops : Settled(q) => Settled(q)'
  BY <1>1, <1>3 DEF Settled
<1>6. nextObjectId # 0 /\ \A q \in Ops : earlier[q] \subseteq Ops \ {op}
  BY <1>2, NodeAssumption DEF IInv, TypeOK, MailboxInv, EnqueueOrder, On
<1>7. Dead'
  BY <1>1, <1>2, ThreadIdleFrame, Requested DEF Dead
<1>8. \A q \in Ops : InTransit(q)' => InTransit(q) \/ (q = op /\ st'[op] = "sent")
  BY <1>1, <1>2, Requested
<1>9. OnePlace'
  BY <1>2, <1>3, <1>6, <1>8, ThreadIdleFrame, <1>1 DEF OnePlace, MailboxKinds, DestroyKinds, InThread
<1>10. PortOrder'
  <2> SUFFICES ASSUME NEW i \in DOMAIN toWorker', NEW j \in DOMAIN toWorker',
                      i < j, toWorker'[i] \in Ops
               PROVE  /\ toWorker'[j] # toWorker'[i]
                      /\ obj'[toWorker'[i]] \in localObjects'
                           => toWorker'[j] \notin earlier'[toWorker'[i]]
    BY DEF PortOrder
  <2>1. CASE /\ i \in DOMAIN toWorker /\ j \in DOMAIN toWorker
             /\ toWorker'[i] = toWorker[i] /\ toWorker'[j] = toWorker[j]
    <3>1. toWorker[i] # op
      BY <1>2, <2>1 DEF InTransit
    <3>2. obj'[toWorker[i]] = obj[toWorker[i]] /\ obj[toWorker[i]] # nextObjectId
      BY <1>3, <1>4, <2>1, <3>1
    <3> QED
      BY <1>1, <2>1, <3>2 DEF PortOrder
  <2>2. CASE toWorker'[j] = op /\ \E k \in DOMAIN toWorker : toWorker'[i] = toWorker[k]
    <3>1. toWorker'[i] # op
      BY <1>2, <2>2 DEF InTransit
    <3> QED
      BY <1>1, <1>6, <2>2, <3>1
  <2> QED
    BY <1>1, <1>2, <2>1, <2>2, Requested
<1>11. Actors'
  <2>1. (\A b, c \in Ops : kind[b] = "create" /\ kind[c] = "create" /\ obj[b] = obj[c] => b = c)'
    BY <1>3, <1>4 DEF Actors
  <2>2. (\A c \in Ops : kind[c] = "create" /\ st[c] # "resolved" => obj[c] \in localObjects)'
    BY <1>1, <1>3 DEF Actors
  <2>3. (\A b \in Ops : InMailbox(b) =>
           \E c \in Ops : kind[c] = "create" /\ obj[c] = obj[b] /\ st[c] = "resolved")'
    <3> SUFFICES ASSUME NEW b \in Ops, InMailbox(b)'
                 PROVE  \E c \in Ops : kind'[c] = "create" /\ obj'[c] = obj'[b] /\ st'[c] = "resolved"
      OBVIOUS
    <3>1. b # op /\ InMailbox(b) /\ obj'[b] = obj[b]
      BY <1>2, <1>3
    <3>2. PICK c \in Ops : kind[c] = "create" /\ obj[c] = obj[b] /\ st[c] = "resolved"
      BY <3>1 DEF Actors
    <3>3. c # op
      BY <1>1, <3>2
    <3> QED
      BY <1>3, <3>1, <3>2, <3>3
  <2> QED
    BY <1>1, <2>1, <2>2, <2>3, ThreadIdleFrame DEF Actors
<1>12. DestroySettles'
  <2>1. \A d \in Ops : kind'[d] \in DestroyKinds =>
          d # op /\ kind[d] \in DestroyKinds /\ obj'[d] = obj[d] /\ st'[d] = st[d]
          /\ obj[d] # nextObjectId
    BY <1>3, <1>4 DEF DestroyKinds
  <2> QED
    BY <1>1, <2>1, ThreadIdleFrame DEF DestroySettles
<1>13. NothingAbandoned'
  BY <1>1, <1>2, <1>3, <1>8, ThreadIdleFrame DEF NothingAbandoned
<1>14. BegunInOrder' /\ DestroyIsFinal'
  <2>1. begun \subseteq Ops
    BY DEF IInv, TypeOK
  <2> QED
    BY <1>1, <1>3, <1>5, <1>6, <1>8, <2>1, ThreadIdleFrame DEF BegunInOrder, DestroyIsFinal
<1>15. AnswersTell'
  BY <1>1, <1>3, ThreadIdleFrame DEF AnswersTell
<1> QED
  BY <1>7, <1>9, <1>10, <1>11, <1>12, <1>13, <1>14, <1>15

LEMMA StartKeepsOrder ==
  ASSUME IInv, OrderInv, NEW op \in Ops, Start(op)
  PROVE  OrderInv'
<1> USE DEF OrderInv
<1>1. /\ UNCHANGED <<kind, obj, earlier, localObjects>> /\ ThreadIdle
      /\ st[op] = "queued" /\ Request(op)
      /\ kind[op] # "call" => st'[op] = "sent"
  BY DEF Start, Ready, Send, Request, history, ThreadIdle, opVars, nodeVars, IInv, TypeOK
<1>2. ~InTransit(op) /\ ~InThread(op) /\ ~Answering(op) /\ op \notin begun
  BY <1>1, Nowhere
<1>3. st'[op] \in {"sent", "rejected"} /\ \A q \in Ops \ {op} : st'[q] = st[q]
  BY <1>1, RequestType DEF IInv
<1>4. /\ \A q \in Ops : InMailbox(q)' = InMailbox(q)
      /\ \A q \in Ops : Settled(q) => q # op /\ Settled(q)'
  BY <1>1, <1>3 DEF InMailbox, Settled
<1>5. Dead'
  BY <1>1, <1>2, ThreadIdleFrame, Requested DEF Dead
<1>6. \A q \in Ops : InTransit(q)' => InTransit(q) \/ (q = op /\ st'[op] = "sent")
  BY <1>1, <1>2, Requested
<1>7. OnePlace'
  BY <1>1, <1>2, <1>3, <1>4, <1>6, ThreadIdleFrame DEF OnePlace
<1>8. PortOrder'
  <2> SUFFICES ASSUME NEW i \in DOMAIN toWorker', NEW j \in DOMAIN toWorker',
                      i < j, toWorker'[i] \in Ops
               PROVE  /\ toWorker'[j] # toWorker'[i]
                      /\ obj[toWorker'[i]] \in localObjects
                           => toWorker'[j] \notin earlier[toWorker'[i]]
    BY <1>1 DEF PortOrder
  <2>1. CASE /\ i \in DOMAIN toWorker /\ j \in DOMAIN toWorker
             /\ toWorker'[i] = toWorker[i] /\ toWorker'[j] = toWorker[j]
    BY <2>1 DEF PortOrder
  <2>2. CASE toWorker'[j] = op /\ \E k \in DOMAIN toWorker : toWorker'[i] = toWorker[k]
    <3>1. InTransit(toWorker'[i]) /\ toWorker'[i] # op
      BY <1>2, <2>2 DEF InTransit
    <3>2. st[toWorker'[i]] # "queued"
      BY <3>1 DEF OnePlace
    <3>3. earlier[toWorker'[i]] # {} => InMailbox(toWorker'[i])
      BY DEF IInv, MailboxInv, Shapes
    <3>4. obj[toWorker'[i]] \in localObjects => op \notin earlier[toWorker'[i]]
      BY <1>4, <3>2, <3>3 DEF IInv, MailboxInv, StartedInTurn
    <3> QED
      BY <2>2, <3>1, <3>4
  <2> QED
    BY <1>1, <1>2, <2>1, <2>2, Requested
<1>9. Actors'
  BY <1>1, <1>3, <1>4, ThreadIdleFrame DEF Actors
<1>10. DestroySettles'
  BY <1>1, <1>3, ThreadIdleFrame DEF DestroySettles, DestroyKinds
<1>11. NothingAbandoned'
  BY <1>1, <1>2, <1>3, <1>6, ThreadIdleFrame DEF NothingAbandoned
<1>12. BegunInOrder' /\ DestroyIsFinal'
  <2>1. \A b \in begun : earlier[b] \subseteq Ops
    BY DEF IInv, TypeOK
  <2> QED
    BY <1>1, <1>4, <1>6, <2>1, ThreadIdleFrame DEF BegunInOrder, DestroyIsFinal
<1>13. AnswersTell'
  BY <1>1, <1>3, ThreadIdleFrame DEF AnswersTell
<1> QED
  BY <1>5, <1>7, <1>8, <1>9, <1>10, <1>11, <1>12, <1>13

LEMMA EnqueueKeepsOrder ==
  ASSUME IInv, OrderInv, NEW op \in Ops, NEW o \in Proxies, NEW k \in MailboxKinds,
         Enqueue(op, k, o)
  PROVE  OrderInv'
<1> USE DEF OrderInv
<1>1. /\ kind[op] = "none" /\ st[op] = "new" /\ ThreadIdle
      /\ kind' = [kind EXCEPT ![op] = k]
      /\ obj' = [obj EXCEPT ![op] = o]
      /\ st' = [st EXCEPT ![op] = "queued"]
      /\ earlier' = [earlier EXCEPT ![op] = On(o)]
      /\ UNCHANGED <<localObjects, toWorker>>
  BY DEF Enqueue, history, ThreadIdle, IInv, MailboxInv, Shapes
<1>2. ~InTransit(op) /\ ~InThread(op) /\ ~Answering(op) /\ op \notin begun
  BY <1>1, Nowhere
<1>3. PICK c \in Ops : kind[c] = "create" /\ st[c] = "resolved" /\ obj[c] = o
  BY DEF Proxies
<1>4. o \in ObjectIds /\ o # 0 /\ k \notin {"none", "refused", "create"}
  BY <1>3 DEF IInv, TypeOK, MailboxInv, Shapes, MailboxKinds, DestroyKinds
<1>5. /\ kind'[op] = k /\ obj'[op] = o /\ st'[op] = "queued" /\ ~InMailbox(op)
      /\ \A q \in Ops \ {op} :
           /\ kind'[q] = kind[q] /\ obj'[q] = obj[q]
           /\ st'[q] = st[q] /\ earlier'[q] = earlier[q]
           /\ InMailbox(q)' = InMailbox(q) /\ Settled(q)' = Settled(q)
      /\ \A q \in Ops : InTransit(q)' = InTransit(q)
  BY <1>1 DEF IInv, TypeOK, InMailbox, Settled, InTransit, MailboxKinds, DestroyKinds
<1>6. \A q \in Ops \ {op} : earlier[q] \subseteq Ops \ {op}
  BY <1>5 DEF IInv, TypeOK, MailboxInv, EnqueueOrder, On
<1>7. Dead'
  BY <1>1, ThreadIdleFrame DEF Dead
<1>8. OnePlace'
  BY <1>1, <1>2, <1>4, <1>5, ThreadIdleFrame DEF OnePlace, InThread
<1>9. PortOrder'
  <2>1. \A i \in DOMAIN toWorker : toWorker[i] # op
    BY <1>2 DEF InTransit
  <2> QED
    BY <1>1, <1>5, <2>1 DEF PortOrder
<1>10. Actors'
  <2>1. (\A b \in Ops : InMailbox(b) =>
           \E d \in Ops : kind[d] = "create" /\ obj[d] = obj[b] /\ st[d] = "resolved")'
    <3> SUFFICES ASSUME NEW b \in Ops, InMailbox(b)'
                 PROVE  \E d \in Ops : kind'[d] = "create" /\ obj'[d] = obj'[b] /\ st'[d] = "resolved"
      OBVIOUS
    <3>1. PICK d \in Ops : kind[d] = "create" /\ obj[d] = obj'[b] /\ st[d] = "resolved"
      BY <1>3, <1>5 DEF Actors
    <3>2. d # op
      BY <1>1, <3>1
    <3> QED
      BY <1>5, <3>1, <3>2
  <2> QED
    BY <1>1, <1>4, <1>5, <2>1, ThreadIdleFrame DEF Actors
<1>11. DestroySettles'
  <2>1. \A i \in DOMAIN toHost : toHost[i].id # op
    BY <1>2 DEF Answering
  <2> QED
    BY <1>1, <1>5, <2>1, ThreadIdleFrame DEF DestroySettles
<1>12. NothingAbandoned'
  BY <1>1, <1>2, <1>5, ThreadIdleFrame DEF NothingAbandoned
<1>13. BegunInOrder' /\ DestroyIsFinal'
  <2>1. \A b \in begun : b \in Ops \ {op} /\ earlier[b] \subseteq Ops \ {op}
    BY <1>2, <1>6 DEF IInv, TypeOK
  <2> QED
    BY <1>1, <1>5, <2>1, ThreadIdleFrame DEF BegunInOrder, DestroyIsFinal
<1>14. AnswersTell'
  <2>1. \A i \in DOMAIN toHost : toHost[i].id # op
    BY <1>2 DEF Answering
  <2> QED
    BY <1>1, <1>5, <2>1, ThreadIdleFrame DEF AnswersTell
<1> QED
  BY <1>7, <1>8, <1>9, <1>10, <1>11, <1>12, <1>13, <1>14

-----------------------------------------------------------------------------
(* The order invariant.                                                     *)

LEMMA InitOrderInv == Init => OrderInv
  BY DEF Init, OrderInv, Dead, OnePlace, PortOrder, Actors, DestroySettles,
         NothingAbandoned, AnswersTell, BegunInOrder, DestroyIsFinal, InTransit, InThread, Answering,
         InMailbox, MailboxKinds, DestroyKinds

\* the kinds of step the proofs distinguish
LEMMA Steps ==
  ASSUME IInv, OrderInv, [Next]_vars
  PROVE  \/ Quiet
         \/ \E op \in Ops :
              \/ Refuse(op) \/ Create(op) \/ Start(op)
              \/ \E o \in Proxies, k \in MailboxKinds : Enqueue(op, k, o)
              \/ HandleCreate(op) \/ HandleCall(op) \/ HandleDestroy(op)
              \/ MethodReturns(op) \/ CloseReturns(op)
<1>1. CASE \/ \E closeActors \in BOOLEAN : Dispose(closeActors)
           \/ CloseAllActors \/ Finally \/ HostReceive \/ WorkerError
           \/ \E op \in Ops : TimerFires(op)
  BY <1>1, HostIsQuiet DEF HostReceive
<1>2. CASE Crash \/ UNCHANGED vars
  BY <1>2, CrashIsQuiet
<1>3. CASE \E op \in Ops :
             UserStep(op) \/ Start(op) \/ Handle(op) \/ MethodReturns(op) \/ CloseReturns(op)
  BY <1>3 DEF UserStep, Handle
<1> QED
  BY <1>1, <1>2, <1>3 DEF Next

LEMMA NextOrderInv ==
  ASSUME IInv, OrderInv, [Next]_vars
  PROVE  OrderInv'
<1>1. CASE Quiet
  BY <1>1, QuietKeeps
<1>2. ASSUME NEW op \in Ops,
             \/ Refuse(op) \/ Create(op) \/ Start(op)
             \/ \E o \in Proxies, k \in MailboxKinds : Enqueue(op, k, o)
      PROVE  OrderInv'
  BY <1>2, RefuseKeepsOrder, CreateKeepsOrder, StartKeepsOrder, EnqueueKeepsOrder
<1>3. ASSUME NEW op \in Ops,
             \/ HandleCreate(op) \/ HandleCall(op) \/ HandleDestroy(op)
             \/ MethodReturns(op) \/ CloseReturns(op)
      PROVE  OrderInv'
  BY <1>3, HandleCreateKeeps, HandleCallKeeps, HandleDestroyKeeps, ReturnsKeep
<1> QED
  BY <1>1, <1>2, <1>3, Steps

LEMMA OrderInvariance == Spec => [](IInv /\ OrderInv)
<1>1. Init => IInv /\ OrderInv
  BY InitIInv, InitOrderInv
<1>2. IInv /\ OrderInv /\ [Next]_vars => (IInv /\ OrderInv)'
  BY NextIInv, NextOrderInv
<1> QED
  BY <1>1, <1>2, PTL DEF Spec

\* Operations reach their actor in the order callers issued them: when one
\* begins, all earlier ones have settled and none is still in the port.
THEOREM OrderKept == Spec => []BegunInOrder
<1>1. OrderInv => BegunInOrder
  BY DEF OrderInv
<1> QED
  BY <1>1, OrderInvariance, PTL

\* Nothing reaches an actor that was enqueued after its destroy, although the
\* node deletes the mailbox while tasks may still be chained behind it.
THEOREM FinalDestroy == Spec => []DestroyIsFinal
<1>1. OrderInv => DestroyIsFinal
  BY DEF OrderInv
<1> QED
  BY <1>1, OrderInvariance, PTL

\* Two methods or closers of one actor run at the same time only when the
\* host has given up on one of them, which takes a call timeout.
THEOREM NoOtherOverlap == Spec => []OverlapOnlyAfterTimeout
<1>1. IInv /\ OrderInv => OverlapOnlyAfterTimeout
  <2> SUFFICES ASSUME IInv, OrderInv,
                      NEW a \in executing \cup closing, NEW b \in executing \cup closing,
                      a # b, obj[a] = obj[b]
               PROVE  Settled(a) \/ Settled(b)
    BY DEF OverlapOnlyAfterTimeout
  <2>1. a \in Ops /\ b \in Ops
    BY DEF IInv, TypeOK
  <2>2. a \in begun /\ b \in begun /\ InMailbox(a) /\ InMailbox(b)
    BY <2>1 DEF OrderInv, OnePlace, InThread
  <2>3. a \in earlier[b] \/ b \in earlier[a]
    BY <2>1, <2>2 DEF IInv, MailboxInv, EnqueueOrder
  <2> QED
    BY <2>2, <2>3 DEF OrderInv, BegunInOrder
<1> QED
  BY <1>1, OrderInvariance, PTL

\* A promise that resolved tells the truth: the method of a call has run to its
\* end, a destroyed actor is gone, whichever late or failed answers there are.
THEOREM AnswersAreTrue == Spec => []ResolvedMeansDone
<1>1. IInv /\ OrderInv => ResolvedMeansDone
  <2> SUFFICES ASSUME IInv, OrderInv, NEW op \in Ops, st[op] = "resolved"
               PROVE  /\ op \notin executing \cup closing
                      /\ kind[op] = "call" => op \in begun
                      /\ kind[op] \in DestroyKinds => obj[op] \notin objects
    BY DEF ResolvedMeansDone
  <2>1. op \notin executing \cup closing
    BY DEF OrderInv, OnePlace, InThread
  <2>2. kind[op] = "call" => op \in begun
    BY DEF OrderInv, AnswersTell
  <2>3. kind[op] \in DestroyKinds => obj[op] \notin objects
    BY DEF OrderInv, DestroySettles, Actors
  <2> QED
    BY <2>1, <2>2, <2>3
<1> QED
  BY <1>1, OrderInvariance, PTL

\* what is posted between a drain that had nothing to wait for and `finally` comes
\* from the mailboxes: a closed node makes no creates
PostedLate == phase = "ending" => \A r \in pending : InMailbox(r)

\* a drain that has nothing to wait for starts with nothing pending
LEMMA WhatDrains ==
  ASSUME [Next]_vars, phase' = "ending", phase # "ending"
  PROVE  pending = {} /\ pending' = {}
<1>1. CASE CloseAllActors \/ \E closeActors \in BOOLEAN : Dispose(closeActors)
  BY <1>1 DEF CloseAllActors, Dispose, Drain
<1>2. ASSUME NEW op \in Ops, UserStep(op) \/ Start(op) \/ Handle(op) \/ MethodReturns(op) \/ CloseReturns(op)
      PROVE  phase' = phase
  BY <1>2 DEF UserStep, Create, Refuse, Enqueue, Start, Handle, HandleCreate, HandleCall, HandleDestroy,
              Take, MethodReturns, CloseReturns
<1>3. ASSUME NEW op \in Ops, Respond(op) \/ TimerFires(op)
      PROVE  phase' \in {phase, "terminated"}
  BY <1>3 DEF Respond, TimerFires, NotifyDrain, Terminate
<1>4. CASE DropResponse \/ Crash \/ Finally \/ WorkerError \/ UNCHANGED vars
  BY <1>4 DEF DropResponse, Crash, Finally, WorkerError, Terminate, vars
<1> QED
  BY <1>1, <1>2, <1>3, <1>4 DEF Next, HostReceive

LEMMA PostedLateStep ==
  ASSUME TypeOK, Shapes, PostedLate, [Next]_vars
  PROVE  PostedLate'
<1> SUFFICES ASSUME phase' = "ending" PROVE \A r \in pending' : InMailbox(r)'
  BY DEF PostedLate
<1>1. CASE phase # "ending"
  BY <1>1, WhatDrains
<1>2. CASE phase = "ending"
  <2>1. \A r \in pending : r \in Ops /\ InMailbox(r)
    BY <1>2 DEF PostedLate, TypeOK
  <2>2. CASE Settling
    BY <2>1, <2>2, TypeStep DEF Settling, opVars, InMailbox, TypeOK
  <2>3. ASSUME NEW op \in Ops, Start(op) PROVE \A r \in pending' : InMailbox(r)'
    <3>1. UNCHANGED opVars /\ pending' \subseteq pending \cup {op} /\ InMailbox(op)
      BY <2>3 DEF Start, Ready, Request, Send, FailEncode, FailClone, Shapes
    <3> QED
      BY <2>1, <3>1 DEF opVars, InMailbox
  <2>4. ASSUME NEW op \in Ops, Refuse(op) PROVE \A r \in pending' : InMailbox(r)'
    <3>1. kind[op] = "none" /\ UNCHANGED <<obj, pending>> /\ kind' = [kind EXCEPT ![op] = "refused"]
      BY <2>4 DEF Refuse
    <3>2. op \notin pending
      BY <2>1, <3>1 DEF InMailbox, MailboxKinds, DestroyKinds
    <3> QED
      BY <2>1, <3>1, <3>2 DEF InMailbox, TypeOK
  <2>5. ASSUME NEW op \in Ops, Create(op) \/ \E o \in Proxies, k \in MailboxKinds : Enqueue(op, k, o)
        PROVE  FALSE
    BY <1>2, <2>5 DEF Create, Enqueue
  <2> QED
    BY <2>2, <2>3, <2>4, <2>5, Classify
<1> QED
  BY <1>1, <1>2

\* Only three steps end the node: `finally` after a drain that had nothing to wait
\* for, the answer or timer of the last request, and the 'error' event, of which
\* the host learns from a thread that is gone.
LEMMA WhatTerminates ==
  ASSUME Dead, [Next]_vars, phase' = "terminated", phase # "terminated"
  PROVE  ~alive \/ phase = "ending" \/ \E r \in Ops : pending \subseteq {r}
<1>1. CASE Finally
  BY <1>1 DEF Finally
<1>2. ASSUME NEW op \in Ops, Respond(op) \/ TimerFires(op) PROVE pending \subseteq {op}
  <2>1. NotifyDrain(pending \ {op})
    BY <1>2 DEF Respond, TimerFires
  <2>2. pending \ {op} = {}
    BY <2>1 DEF NotifyDrain
  <2> QED
    BY <2>2
<1>3. CASE WorkerError
  BY <1>3 DEF WorkerError, Dead
<1>4. ASSUME NEW op \in Ops, UserStep(op) \/ Start(op) \/ Handle(op) \/ MethodReturns(op) \/ CloseReturns(op)
      PROVE  phase' = phase
  BY <1>4 DEF UserStep, Create, Refuse, Enqueue, Start, Handle, HandleCreate, HandleCall, HandleDestroy,
              Take, MethodReturns, CloseReturns
<1>5. CASE DropResponse \/ Crash \/ UNCHANGED vars
  BY <1>5 DEF DropResponse, Crash, vars
<1>6. ASSUME CloseAllActors \/ \E closeActors \in BOOLEAN : Dispose(closeActors)
      PROVE  phase' # "terminated"
  BY <1>6 DEF CloseAllActors, Dispose, Drain
<1> QED
  BY <1>1, <1>2, <1>3, <1>4, <1>5, <1>6 DEF Next, HostReceive

\* Dispose stops a live thread only when every request it tracked was answered, but
\* the last one at most, whose answer or timeout the step is.  What it may stop
\* otherwise was not yet posted when it drained, with nothing else in flight, and
\* comes from mailboxes.
THEOREM DisposeAwaits == Spec => DisposeWaits
<1>1. IInv /\ Dead /\ PostedLate /\ [Next]_vars =>
        [/\ phase' = "ending" /\ phase # "ending" => pending = {}
         /\ phase' = "terminated" /\ phase # "terminated" =>
              \/ ~alive
              \/ \E r \in Ops : pending \subseteq {r}
              \/ phase = "ending" /\ \A r \in pending : InMailbox(r)]_vars
  BY WhatTerminates, WhatDrains DEF PostedLate
<1>2. Init => PostedLate
  BY DEF Init, PostedLate
<1>3. IInv /\ PostedLate /\ [Next]_vars => PostedLate'
  BY PostedLateStep DEF IInv, MailboxInv
<1>4. OrderInv => Dead
  BY DEF OrderInv
<1> QED
  BY <1>1, <1>2, <1>3, <1>4, OrderInvariance, PTL DEF Spec, DisposeWaits
=============================================================================
