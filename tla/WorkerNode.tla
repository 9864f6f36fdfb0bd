----------------------------- MODULE WorkerNode -----------------------------
(***************************************************************************)
(* One worker thread and the WorkerNode that drives it from the host       *)
(* (worker-node.ts, and the command handler of runtime-worker.ts).         *)
(*                                                                         *)
(* A user operation op is a create, a method call, a destroy, or a drop    *)
(* (destroy with { close: false }).  Calls, destroys and drops wait their  *)
(* turn in the mailbox of their actor, a chain of promises: prev[op] is    *)
(* the task op is chained to and mailboxes[o] the last task of actor o.    *)
(* A started task posts one request; `pending` holds the requests whose    *)
(* promise the node still tracks, and gracefulTerminate waits for it to    *)
(* become empty.                                                           *)
(*                                                                         *)
(* Both event loops run to completion.  A host step is one macrotask (a    *)
(* message, a timer, an error event, user code) or the start of a mailbox  *)
(* task, which is a microtask: a macrotask waits until no task is ready.   *)
(* The worker runs in parallel, one message or one resumed await a step.   *)
(***************************************************************************)
EXTENDS Naturals, Sequences

CONSTANTS
  Ops,            \* identities of user operations: each is used once
  NoOp,           \* "no task": the resolved promise a mailbox starts from
  MaxObject,      \* bound: how many actors are created
  CallTimeout,    \* is callTimeoutMs configured?
  WorkerMayCrash, \* may the thread die of an uncaught error?
  ArgsMayFail     \* may arguments fail to encode or to clone?

ASSUME NodeAssumption ==
  /\ NoOp \notin Ops
  /\ MaxObject \in Nat
  /\ CallTimeout \in BOOLEAN
  /\ WorkerMayCrash \in BOOLEAN
  /\ ArgsMayFail \in BOOLEAN

ObjectIds == 1..MaxObject
DestroyKinds == {"destroy", "drop"}
MailboxKinds == {"call"} \cup DestroyKinds

VARIABLES
  \* user operations
  kind,         \* what an operation is; "none" until it is issued
  obj,          \* the actor it addresses
  st,           \* its promise, as the node sees it
  earlier,      \* history: operations in the actor's mailbox before it
  \* fields of the WorkerNode
  phase,        \* progress of gracefulTerminate; `closed` unless "open"
  pending, localObjects, nextObjectId,
  mailboxes, prev,
  crashNotice,  \* an 'error' event the host has not handled yet
  \* the two message ports, first in first out
  toWorker, toHost,
  \* the worker thread
  alive, objects,
  executing,    \* calls whose method has not returned
  closing,      \* destroys that await closeActor
  begun,        \* history: operations that reached their actor
  closes        \* history: how often closeActor ran on an actor

opVars == <<kind, obj, earlier, prev>>
nodeVars == <<localObjects, nextObjectId, mailboxes>>
threadVars == <<objects, executing, closing>>
history == <<begun, closes>>
vars == <<opVars, st, nodeVars, phase, pending, crashNotice, toWorker, toHost,
          alive, threadVars, history>>

Settled(op) == st[op] \in {"resolved", "rejected"}
InMailbox(op) == kind[op] \in MailboxKinds /\ obj[op] # 0
On(o) == {p \in Ops : InMailbox(p) /\ obj[p] = o}
\* the caller holds a proxy once the create has resolved
Proxies == {obj[c] : c \in {p \in Ops : kind[p] = "create" /\ st[p] = "resolved"}}

TypeOK ==
  /\ kind \in [Ops -> {"none", "refused", "create"} \cup MailboxKinds]
  /\ obj \in [Ops -> ObjectIds \cup {0}]
  /\ st \in [Ops -> {"new", "queued", "sent", "resolved", "rejected"}]
  /\ earlier \in [Ops -> SUBSET Ops]
  /\ prev \in [Ops -> Ops \cup {NoOp}]
  /\ phase \in {"open", "closing", "draining", "ending", "terminated"}
  /\ pending \subseteq Ops
  /\ localObjects \subseteq ObjectIds
  /\ nextObjectId \in 1..(MaxObject + 1)
  /\ mailboxes \in [ObjectIds -> Ops \cup {NoOp}]
  /\ crashNotice \in BOOLEAN
  /\ toWorker \in Seq(Ops)
  /\ toHost \in Seq([id : Ops, ok : BOOLEAN])
  /\ alive \in BOOLEAN
  /\ objects \subseteq ObjectIds
  /\ executing \subseteq Ops
  /\ closing \subseteq Ops
  /\ begun \subseteq Ops
  /\ closes \in [ObjectIds -> Nat]

Init ==
  /\ kind = [op \in Ops |-> "none"]
  /\ obj = [op \in Ops |-> 0]
  /\ st = [op \in Ops |-> "new"]
  /\ earlier = [op \in Ops |-> {}]
  /\ prev = [op \in Ops |-> NoOp]
  /\ phase = "open"
  /\ pending = {}
  /\ localObjects = {}
  /\ nextObjectId = 1
  /\ mailboxes = [o \in ObjectIds |-> NoOp]
  /\ crashNotice = FALSE
  /\ toWorker = <<>>
  /\ toHost = <<>>
  /\ alive = TRUE
  /\ objects = {}
  /\ executing = {}
  /\ closing = {}
  /\ begun = {}
  /\ closes = [o \in ObjectIds |-> 0]

-----------------------------------------------------------------------------
(* request() and post(). A message to a dead thread is silently dropped.   *)

Deliver(r) == toWorker' = IF alive THEN Append(toWorker, r) ELSE toWorker

Send(op) ==
  /\ st' = [st EXCEPT ![op] = "sent"]
  /\ pending' = pending \cup {op}
  /\ Deliver(op)

\* encodeValue throws (a circular structure): there is no request at all
FailEncode(op) ==
  /\ st' = [st EXCEPT ![op] = "rejected"]
  /\ UNCHANGED <<pending, toWorker>>

\* postMessage throws inside the promise executor, after pending.set: the
\* promise is rejected and the entry stays
FailClone(op) ==
  /\ st' = [st EXCEPT ![op] = "rejected"]
  /\ pending' = pending \cup {op}
  /\ UNCHANGED toWorker

Request(op) ==
  \/ Send(op)
  \/ ArgsMayFail /\ FailEncode(op)
  \/ ArgsMayFail /\ FailClone(op)

-----------------------------------------------------------------------------
(* User code calls the node.                                               *)

\* assertOpen, or destroy's check that the actor is known, throws
Refuse(op) ==
  /\ kind[op] = "none"
  /\ phase # "open" \/ Proxies \ localObjects # {}
  /\ kind' = [kind EXCEPT ![op] = "refused"]
  /\ st' = [st EXCEPT ![op] = "rejected"]
  /\ UNCHANGED <<obj, earlier, prev, nodeVars, phase, pending, crashNotice,
                 toWorker, toHost, alive, threadVars, history>>

\* mutant: the object id is taken after the increment
Create_PreIncrement(op) ==
  /\ kind[op] = "none" /\ phase = "open"
  /\ nextObjectId <= MaxObject
  /\ kind' = [kind EXCEPT ![op] = "create"]
  /\ obj' = [obj EXCEPT ![op] = nextObjectId + 1]
  /\ nextObjectId' = nextObjectId + 1
  /\ localObjects' = localObjects \cup {nextObjectId}
  /\ Request(op)
  /\ UNCHANGED <<earlier, prev, mailboxes, phase, crashNotice, toHost, alive,
                 threadVars, history>>

Create(op) ==
  /\ kind[op] = "none" /\ phase = "open"
  /\ nextObjectId <= MaxObject
  /\ kind' = [kind EXCEPT ![op] = "create"]
  /\ obj' = [obj EXCEPT ![op] = nextObjectId]
  /\ nextObjectId' = nextObjectId + 1
  /\ localObjects' = localObjects \cup {nextObjectId}
  /\ Request(op)
  /\ UNCHANGED <<earlier, prev, mailboxes, phase, crashNotice, toHost, alive,
                 threadVars, history>>

\* mutant: destroy deletes the mailbox when it is enqueued, not when answered
Enqueue_DeleteEarly(op, k, o) ==
  /\ kind[op] = "none" /\ phase = "open"
  /\ k \in DestroyKinds => o \in localObjects
  /\ kind' = [kind EXCEPT ![op] = k]
  /\ obj' = [obj EXCEPT ![op] = o]
  /\ st' = [st EXCEPT ![op] = "queued"]
  /\ earlier' = [earlier EXCEPT ![op] = On(o)]
  /\ prev' = [prev EXCEPT ![op] = mailboxes[o]]
  /\ mailboxes' = [mailboxes EXCEPT ![o] = IF k = "call" THEN op ELSE NoOp]
  /\ UNCHANGED <<localObjects, nextObjectId, phase, pending, crashNotice,
                 toWorker, toHost, alive, threadVars, history>>

\* call and destroy up to the microtask that starts the task
Enqueue(op, k, o) ==
  /\ kind[op] = "none" /\ phase = "open"
  /\ k \in DestroyKinds => o \in localObjects
  /\ kind' = [kind EXCEPT ![op] = k]
  /\ obj' = [obj EXCEPT ![op] = o]
  /\ st' = [st EXCEPT ![op] = "queued"]
  /\ earlier' = [earlier EXCEPT ![op] = On(o)]
  /\ prev' = [prev EXCEPT ![op] = mailboxes[o]]
  /\ mailboxes' = [mailboxes EXCEPT ![o] = op]
  /\ UNCHANGED <<localObjects, nextObjectId, phase, pending, crashNotice,
                 toWorker, toHost, alive, threadVars, history>>

\* mutant: the task runs without waiting for the one it is chained to
Ready_Unchained(op) == st[op] = "queued"

\* the promise op is chained to has settled, either way
Ready(op) ==
  /\ st[op] = "queued"
  /\ prev[op] \in {NoOp} \cup {p \in Ops : Settled(p)}

\* no microtask is left: no mailbox task can start, dispose is not finishing
MicrotasksDrained == phase \notin {"closing", "ending"} /\ \A op \in Ops : ~Ready(op)

\* a mailbox task runs: doCall, or destroy's request (plain data: cannot fail)
Start(op) ==
  /\ Ready(op)
  /\ IF kind[op] = "call" THEN Request(op) ELSE Send(op)
  /\ UNCHANGED <<opVars, nodeVars, phase, crashNotice, toHost, alive,
                 threadVars, history>>

-----------------------------------------------------------------------------
(* The end of a node: drain, the finally block, worker.terminate().        *)

StopThread ==
  /\ alive' = FALSE
  /\ toWorker' = <<>>
  /\ objects' = {}
  /\ executing' = {}
  /\ closing' = {}

Terminate ==
  /\ phase' = "terminated"
  /\ pending' = {}
  /\ StopThread

\* mutant: drain's waiter is woken whatever is still pending
NotifyDrain_Unchecked(p) ==
  IF phase = "draining"
    THEN Terminate
    ELSE /\ pending' = p
         /\ UNCHANGED <<phase, alive, toWorker, threadVars>>

\* pending becomes p. The waiter of drain() resumes, and terminates the
\* thread, several microtasks before the next mailbox task starts.
NotifyDrain(p) ==
  IF p = {} /\ phase = "draining"
    THEN Terminate
    ELSE /\ pending' = p
         /\ UNCHANGED <<phase, alive, toWorker, threadVars>>

\* every request still tracked is rejected
RejectPending ==
  st' = [op \in Ops |-> IF op \in pending /\ ~Settled(op) THEN "rejected" ELSE st[op]]

\* drain() is called: it returns at once if nothing is pending
Drain == phase' = IF pending = {} THEN "ending" ELSE "draining"

\* gracefulTerminate up to its first await
Dispose(closeActors) ==
  /\ phase = "open"
  /\ IF closeActors THEN phase' = "closing" ELSE Drain
  /\ UNCHANGED <<opVars, st, nodeVars, pending, crashNotice, toWorker, toHost,
                 alive, threadVars, history>>

\* closeAllActors finds the node closed and sends nothing: a microtask later
\* gracefulTerminate drains, after the tasks that were first of their mailbox.
CloseAllActors ==
  /\ phase = "closing"
  /\ \A op \in Ops : st[op] = "queued" => prev[op] # NoOp
  /\ Drain
  /\ UNCHANGED <<opVars, st, nodeVars, pending, crashNotice, toWorker, toHost,
                 alive, threadVars, history>>

\* Nothing was pending when dispose drained: its finally block is the next
\* microtask but one, after the tasks that were first of their mailbox.
Finally ==
  /\ phase = "ending"
  /\ \A op \in Ops : st[op] = "queued" => prev[op] # NoOp
  /\ Terminate /\ RejectPending
  /\ UNCHANGED <<opVars, nodeVars, crashNotice, toHost, history>>

-----------------------------------------------------------------------------
(* Macrotasks of the host: responses, timers, the worker's error event.    *)

\* a response nobody waits for: its request timed out or was rejected
DropResponse ==
  /\ MicrotasksDrained
  /\ toHost # <<>> /\ Head(toHost).id \notin pending
  /\ toHost' = Tail(toHost)
  /\ UNCHANGED <<opVars, st, nodeVars, phase, pending, crashNotice, toWorker,
                 alive, threadVars, history>>

\* An op's response settles its promise; after a destroy the node forgets
\* the actor and its mailbox, still before the next task starts.
Respond(op) ==
  /\ MicrotasksDrained
  /\ toHost # <<>> /\ Head(toHost).id = op /\ op \in pending
  /\ toHost' = Tail(toHost)
  /\ st' = [st EXCEPT ![op] = IF Head(toHost).ok THEN "resolved" ELSE "rejected"]
  /\ NotifyDrain(pending \ {op})
  /\ IF Head(toHost).ok /\ kind[op] \in DestroyKinds
       THEN /\ localObjects' = localObjects \ {obj[op]}
            /\ mailboxes' = [mailboxes EXCEPT ![obj[op]] = NoOp]
       ELSE UNCHANGED <<localObjects, mailboxes>>
  /\ UNCHANGED <<opVars, nextObjectId, crashNotice, history>>

\* mutant: the timer forgets the request without rejecting its promise
TimerFires_NoReject(op) ==
  /\ MicrotasksDrained
  /\ CallTimeout /\ kind[op] = "call" /\ op \in pending
  /\ NotifyDrain(pending \ {op})
  /\ UNCHANGED <<opVars, st, nodeVars, crashNotice, toHost, history>>

\* mutant: the timer does not wake drain
TimerFires_NoNotify(op) ==
  /\ MicrotasksDrained
  /\ CallTimeout /\ kind[op] = "call" /\ op \in pending
  /\ st' = [st EXCEPT ![op] = IF Settled(op) THEN @ ELSE "rejected"]
  /\ pending' = pending \ {op}
  /\ UNCHANGED <<opVars, nodeVars, phase, crashNotice, toWorker, toHost, alive,
                 threadVars, history>>

\* The timer of a call: armed before postMessage, so it also clears the entry
\* a failed clone left behind.
TimerFires(op) ==
  /\ MicrotasksDrained
  /\ CallTimeout /\ kind[op] = "call" /\ op \in pending
  /\ st' = [st EXCEPT ![op] = IF Settled(op) THEN @ ELSE "rejected"]
  /\ NotifyDrain(pending \ {op})
  /\ UNCHANGED <<opVars, nodeVars, crashNotice, toHost, history>>

\* The 'error' event: every pending request is rejected. A dispose in
\* progress terminates; otherwise the node stays open on a dead thread.
WorkerError ==
  /\ MicrotasksDrained
  /\ crashNotice
  /\ crashNotice' = FALSE
  /\ RejectPending
  /\ IF phase = "draining"
       THEN Terminate
       ELSE pending' = {} /\ UNCHANGED <<phase, alive, toWorker, threadVars>>
  /\ UNCHANGED <<opVars, nodeVars, toHost, history>>

-----------------------------------------------------------------------------
(* The worker thread.                                                      *)

Reply(r, ok) == toHost' = Append(toHost, [id |-> r, ok |-> ok])

Take(r) ==
  /\ alive /\ toWorker # <<>> /\ Head(toWorker) = r
  /\ toWorker' = Tail(toWorker)
  /\ UNCHANGED <<opVars, st, nodeVars, phase, pending, crashNotice, alive>>

\* create: the class may be unknown and the constructor may throw
HandleCreate(op) ==
  /\ kind[op] = "create"
  /\ Take(op)
  /\ \E ok \in BOOLEAN :
       /\ Reply(op, ok)
       /\ objects' = IF ok THEN objects \cup {obj[op]} ELSE objects
  /\ UNCHANGED <<executing, closing, history>>

\* mutant: the method's promise is not awaited
HandleCall_NoAwait(op) ==
  /\ kind[op] = "call"
  /\ Take(op)
  /\ Reply(op, TRUE)
  /\ IF obj[op] \in objects
       THEN executing' = executing \cup {op} /\ begun' = begun \cup {op}
       ELSE UNCHANGED <<executing, begun>>
  /\ UNCHANGED <<objects, closing, closes>>

\* call: an unknown object, method or reference is answered with an error;
\* otherwise the method runs and the handler awaits it
HandleCall(op) ==
  /\ kind[op] = "call"
  /\ Take(op)
  /\ \/ /\ Reply(op, FALSE)
        /\ UNCHANGED <<executing, begun>>
     \/ /\ obj[op] \in objects
        /\ executing' = executing \cup {op}
        /\ begun' = begun \cup {op}
        /\ UNCHANGED toHost
  /\ UNCHANGED <<objects, closing, closes>>

MethodReturns(op) ==
  /\ op \in executing
  /\ executing' = executing \ {op}
  /\ \E ok \in BOOLEAN : Reply(op, ok)
  /\ UNCHANGED <<opVars, st, nodeVars, phase, pending, crashNotice, toWorker,
                 alive, objects, closing, history>>

\* mutant: destroy is answered before the actor has closed
HandleDestroy_NoAwait(op) ==
  /\ kind[op] \in DestroyKinds
  /\ Take(op)
  /\ Reply(op, TRUE)
  /\ IF obj[op] \in objects /\ kind[op] = "destroy"
       THEN /\ closing' = closing \cup {op}
            /\ begun' = begun \cup {op}
            /\ closes' = [closes EXCEPT ![obj[op]] = @ + 1]
            /\ UNCHANGED objects
       ELSE /\ objects' = objects \ {obj[op]}
            /\ UNCHANGED <<closing, begun, closes>>
  /\ UNCHANGED <<executing>>

\* mutant: an unknown object is not answered
HandleDestroy_NoAnswer(op) ==
  /\ kind[op] \in DestroyKinds
  /\ Take(op)
  /\ IF obj[op] \in objects
       THEN /\ closing' = closing \cup {op}
            /\ begun' = begun \cup {op}
            /\ closes' = [closes EXCEPT ![obj[op]] = @ + 1]
       ELSE UNCHANGED <<closing, begun, closes>>
  /\ UNCHANGED <<toHost, objects, executing>>

\* destroy: an unknown object is not an error; close runs before removal
HandleDestroy(op) ==
  /\ kind[op] \in DestroyKinds
  /\ Take(op)
  /\ IF obj[op] \in objects /\ kind[op] = "destroy"
       THEN /\ closing' = closing \cup {op}
            /\ begun' = begun \cup {op}
            /\ closes' = [closes EXCEPT ![obj[op]] = @ + 1]
            /\ UNCHANGED <<objects, toHost>>
       ELSE /\ objects' = objects \ {obj[op]}
            /\ begun' = IF obj[op] \in objects THEN begun \cup {op} ELSE begun
            /\ Reply(op, TRUE)
            /\ UNCHANGED <<closing, closes>>
  /\ UNCHANGED <<executing>>

CloseReturns(op) ==
  /\ op \in closing
  /\ closing' = closing \ {op}
  /\ objects' = objects \ {obj[op]}
  /\ Reply(op, TRUE)
  /\ UNCHANGED <<opVars, st, nodeVars, phase, pending, crashNotice, toWorker,
                 alive, executing, history>>

\* an uncaught error kills the thread; the host learns of it later
Crash ==
  /\ WorkerMayCrash /\ alive
  /\ StopThread
  /\ crashNotice' = TRUE
  /\ UNCHANGED <<opVars, st, nodeVars, phase, pending, toHost, history>>

-----------------------------------------------------------------------------
UserStep(op) ==
  \/ Create(op)
  \/ Refuse(op)
  \/ \E o \in Proxies, k \in MailboxKinds : Enqueue(op, k, o)

HostReceive == DropResponse \/ \E op \in Ops : Respond(op)

Handle(op) == HandleCreate(op) \/ HandleCall(op) \/ HandleDestroy(op)

Next ==
  \/ \E op \in Ops : UserStep(op)
  \/ \E closeActors \in BOOLEAN : Dispose(closeActors)
  \/ CloseAllActors \/ Finally
  \/ \E op \in Ops : Start(op)
  \/ HostReceive
  \/ \E op \in Ops : TimerFires(op)
  \/ WorkerError
  \/ \E op \in Ops : Handle(op)
  \/ \E op \in Ops : MethodReturns(op) \/ CloseReturns(op)
  \/ Crash

Spec == Init /\ [][Next]_vars

\* Event loops and timers make progress and a close/dispose method returns.
\* Users need not act, methods need not return, the thread need not crash.
Fairness ==
  /\ WF_vars(\E op \in Ops : Start(op))
  /\ WF_vars(CloseAllActors) /\ WF_vars(Finally)
  /\ WF_vars(HostReceive)
  /\ WF_vars(WorkerError)
  /\ WF_vars(\E op \in Ops : Handle(op))
  /\ \A op \in Ops : WF_vars(TimerFires(op)) /\ WF_vars(CloseReturns(op))

FairSpec == Spec /\ Fairness

-----------------------------------------------------------------------------
(* Safety.                                                                 *)

\* The mailbox of a live actor has at most one unanswered request: request
\* ids, responses, timeouts and errors never let two tasks of one actor run.
MailboxExclusion ==
  \A a, b \in Ops :
    /\ InMailbox(a) /\ st[a] = "sent"
    /\ InMailbox(b) /\ st[b] = "sent"
    /\ obj[a] = obj[b] /\ obj[a] \in localObjects
    => a = b

InTransit(op) == \E i \in DOMAIN toWorker : toWorker[i] = op

\* An operation reaches its actor only when everything enqueued before it on
\* that actor has settled on the host and has left the port.
BegunInOrder ==
  \A b \in begun : \A a \in earlier[b] : Settled(a) /\ ~InTransit(a)

\* An actor sees nothing that was enqueued after its destroy, whether the
\* destroy was answered, lost its thread or was dropped: enqueue order is kept
\* across the deletion of the mailbox.
DestroyIsFinal ==
  \A c \in begun : \A d \in earlier[c] : kind[d] \notin DestroyKinds

\* Two methods or closers of one actor run together only if the host gave up
\* on one of them.
OverlapOnlyAfterTimeout ==
  \A a, b \in executing \cup closing :
    a # b /\ obj[a] = obj[b] => Settled(a) \/ Settled(b)

\* A call whose promise resolved ran to its end, and a destroy that resolved
\* has closed its actor or found none.
ResolvedMeansDone ==
  \A op \in Ops :
    st[op] = "resolved" =>
      /\ op \notin executing \cup closing
      /\ kind[op] = "call" => op \in begun
      /\ kind[op] \in DestroyKinds => obj[op] \notin objects

\* Dispose stops a live thread only when every request it tracked was answered,
\* except the last one (whose answer or timeout this very step is).  The one
\* exception: if nothing at all was pending when it drained, it does not look
\* again, and tasks of mailboxes that were enqueued in the same turn and are posted
\* meanwhile are stopped with the thread, their requests rejected.
DisposeWaits ==
  [][/\ phase' = "ending" /\ phase # "ending" => pending = {}
     /\ phase' = "terminated" /\ phase # "terminated" =>
          \/ ~alive
          \/ \E r \in Ops : pending \subseteq {r}
          \/ phase = "ending" /\ \A r \in pending : InMailbox(r)]_vars

-----------------------------------------------------------------------------
(* Liveness.                                                               *)

HasDestroyBefore(op) == \E d \in earlier[op] : kind[d] \in DestroyKinds

\* With a call timeout every call settles, whatever becomes of the thread,
\* unless it waits behind a destroy, which has no timeout.
EveryCallSettles ==
  \A op \in Ops :
    (kind[op] = "call" /\ ~HasDestroyBefore(op)) ~> (kind[op] = "call" /\ Settled(op))

\* While the node is open and its thread lives, nothing starves: every create,
\* call and destroy is answered, even next to a method that never returns.
AnsweredWhileOpen ==
  \A op \in Ops :
    kind[op] # "none" ~> Settled(op) \/ phase # "open" \/ ~alive

\* Dispose ends the thread, unless a request whose arguments could not be
\* cloned left its entry in `pending` for good.
DisposeEndsThread ==
  phase # "open" ~> ~alive \/ \E op \in pending \cap Ops : Settled(op)

-----------------------------------------------------------------------------
(* What the documentation says and the code does not do.                   *)

\* README.md:92, dispose() will "close actors, drain, terminate workers": the
\* await of closeAllActors ends when every actor of the thread was closed
DisposeClosesActors ==
  [][CloseAllActors /\ alive => \A o \in objects \cap Proxies : closes[o] > 0]_vars

=============================================================================
