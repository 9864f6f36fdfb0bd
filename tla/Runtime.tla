------------------------------ MODULE Runtime ------------------------------
(***************************************************************************)
(* The Runtime on the host (runtime.ts, registry.ts, scheduler.ts) and the *)
(* part of its workers it depends on: class registration, placement of new *)
(* actors, and the keyed actors of getOrSpawn.                             *)
(*                                                                         *)
(* A process p is one call of register, spawn, getOrSpawn or destroy by    *)
(* user code, numbered in the order of the calls; it runs from await to    *)
(* await.  The actor p creates is called p, and so is the proxy p gets.    *)
(* Constructor arguments are part of the class here: getOrSpawn treats a   *)
(* mismatch of either alike.  What happens inside a worker between two     *)
(* requests is the subject of WorkerNode, and so are method calls; here a  *)
(* worker answers create and destroy in one step, and the mailbox of an    *)
(* actor holds its destroys.                                               *)
(***************************************************************************)
EXTENDS Naturals, Sequences, FiniteSets

CONSTANTS
  Procs,         \* a set of numbers: p is called before q when p < q
  Classes, Keys,
  NumWorkers,    \* size of the pool: workers are 0 .. NumWorkers - 1
  Place,         \* Place[k] = hashKey(k) % workers
  None,          \* no actor, no key
  MaxRegisters,  \* bound on the calls of register, the ones spawn makes aside
  ArgsMayFail,   \* may arguments of a constructor be refused before they are sent?
  ImportMayFail, \* may a worker fail to import a class's module?
  CtorMayFail    \* may a constructor throw?

Workers == 0..(NumWorkers - 1)

ASSUME RuntimeAssumption ==
  /\ NumWorkers \in Nat \ {0} /\ Procs \subseteq Nat /\ MaxRegisters \in Nat
  /\ Place \in [Keys -> Workers]
  /\ None \notin Procs \cup Keys \cup Classes
  /\ ArgsMayFail \in BOOLEAN /\ ImportMayFail \in BOOLEAN /\ CtorMayFail \in BOOLEAN

VARIABLES
  \* the processes
  pc, fn, class, key,
  home,       \* the worker of the actor a process creates
  target,     \* of a destroy: the actor
  original,   \* of a destroy: is it given the proxy create returned, or an alias?
  behind,     \* of a destroy: the one before it in the actor's mailbox
  awaiting,   \* workers whose `pending` has a request of the process
  result,     \* the proxy a resolved process returned
  \* the Runtime
  registry, keyed, disposed, localObjects,
  ended,      \* workers whose gracefulTerminate has finished
  cleared,    \* dispose has run to its end
  \* ports and workers
  inbox, outbox,
  importing,  \* register commands that await import()
  loaded,     \* the worker's own registry of classes
  actors,
  \* history
  own,        \* processes that registered their class themselves
  unknown     \* processes whose create was answered "Unknown class"

callVars == <<fn, class, key, target, original, behind>>
endVars == <<disposed, ended, cleared>>
workerVars == <<importing, loaded, actors, unknown>>
vars == <<pc, callVars, home, awaiting, result, registry, keyed, endVars,
          localObjects, inbox, outbox, workerVars, own>>

Commands == {"register", "create", "destroy"}
Settled(p) == pc[p] \in {"resolved", "rejected"}

TypeOK ==
  /\ pc \in [Procs -> {"idle", "registering", "creating", "destroying",
                       "resolved", "rejected"}]
  /\ fn \in [Procs -> {"none", "register", "spawn", "getOrSpawn", "destroy"}]
  /\ class \in [Procs -> Classes \cup {None}]
  /\ key \in [Procs -> Keys \cup {None}]
  /\ home \in [Procs -> Workers \cup {None}]
  /\ target \in [Procs -> Procs \cup {None}]
  /\ original \in [Procs -> BOOLEAN]
  /\ behind \in [Procs -> Procs \cup {None}]
  /\ awaiting \in [Procs -> SUBSET Workers]
  /\ result \in [Procs -> Procs \cup {None}]
  /\ registry \subseteq Classes
  /\ keyed \in [Keys -> Procs \cup {None}]
  /\ disposed \in BOOLEAN
  /\ localObjects \in [Workers -> SUBSET Procs]
  /\ ended \subseteq Workers
  /\ cleared \in BOOLEAN
  /\ inbox \in [Workers -> Seq([cmd : Commands, by : Procs])]
  /\ outbox \in [Workers -> Seq([by : Procs, ok : BOOLEAN])]
  /\ importing \in [Workers -> SUBSET Procs]
  /\ loaded \in [Workers -> SUBSET Classes]
  /\ actors \in [Workers -> SUBSET Procs]
  /\ own \subseteq Procs
  /\ unknown \subseteq Procs

Init ==
  /\ pc = [p \in Procs |-> "idle"]
  /\ fn = [p \in Procs |-> "none"]
  /\ class = [p \in Procs |-> None]
  /\ key = [p \in Procs |-> None]
  /\ home = [p \in Procs |-> None]
  /\ target = [p \in Procs |-> None]
  /\ original = [p \in Procs |-> TRUE]
  /\ behind = [p \in Procs |-> None]
  /\ awaiting = [p \in Procs |-> {}]
  /\ result = [p \in Procs |-> None]
  /\ registry = {}
  /\ keyed = [k \in Keys |-> None]
  /\ disposed = FALSE
  /\ localObjects = [w \in Workers |-> {}]
  /\ ended = {}
  /\ cleared = FALSE
  /\ inbox = [w \in Workers |-> <<>>]
  /\ outbox = [w \in Workers |-> <<>>]
  /\ importing = [w \in Workers |-> {}]
  /\ loaded = [w \in Workers |-> {}]
  /\ actors = [w \in Workers |-> {}]
  /\ own = {}
  /\ unknown = {}

-----------------------------------------------------------------------------
(* Parts of the public methods, up to the next await.                       *)

\* p is the next call
IsNext(p) == pc[p] = "idle" /\ \A q \in Procs : q < p => pc[q] # "idle"

\* the arguments of a call are recorded
Invoke(p, f, c, k) ==
  /\ IsNext(p) /\ ~disposed
  /\ fn' = [fn EXCEPT ![p] = f]
  /\ class' = [class EXCEPT ![p] = c]
  /\ key' = [key EXCEPT ![p] = k]
  /\ UNCHANGED <<target, original, behind, endVars, outbox, workerVars>>

Settle(p, outcome, proxy) ==
  /\ pc' = [pc EXCEPT ![p] = outcome]
  /\ result' = [result EXCEPT ![p] = proxy]

Post(p, W, command) ==
  inbox' = [w \in Workers |->
    IF w \in W THEN Append(inbox[w], [cmd |-> command, by |-> p]) ELSE inbox[w]]

Pending(p, W) == awaiting' = [awaiting EXCEPT ![p] = W]

Request(p, W, command) == Post(p, W, command) /\ Pending(p, W)

\* mutant: only the first worker is told
RegisterOnAll_FirstWorker(p, c) ==
  /\ pc' = [pc EXCEPT ![p] = "registering"]
  /\ registry' = registry \cup {c}
  /\ Request(p, {0}, "register")
  /\ own' = own \cup {p}
  /\ UNCHANGED <<home, result, keyed, localObjects>>

\* register: the class counts as registered before any worker has loaded it
RegisterOnAll(p, c) ==
  /\ pc' = [pc EXCEPT ![p] = "registering"]
  /\ registry' = registry \cup {c}
  /\ Request(p, Workers, "register")
  /\ own' = own \cup {p}
  /\ UNCHANGED <<home, result, keyed, localObjects>>

\* WorkerNode.create: the actor is counted first. Arguments that cannot be
\* encoded leave nothing else; arguments that postMessage cannot clone leave
\* the request in `pending`, where no answer and no timer ever takes it out.
CreateOn(p, w) ==
  /\ home' = [home EXCEPT ![p] = w]
  /\ localObjects' = [localObjects EXCEPT ![w] = @ \cup {p}]
  /\ \/ /\ pc' = [pc EXCEPT ![p] = "creating"]
        /\ Request(p, {w}, "create")
        /\ UNCHANGED result
     \/ /\ ArgsMayFail
        /\ Settle(p, "rejected", None)
        /\ Pending(p, {}) \/ Pending(p, {w})
        /\ UNCHANGED inbox
  /\ UNCHANGED <<registry, keyed, own>>

\* getSchedulingLoad, when process q has requests pending on aw[q]
Load(w, aw) == Cardinality(localObjects[w]) + Cardinality({q \in Procs : w \in aw[q]})

\* Scheduler.pick: the least loaded worker, the first of them on a tie
Pick(aw) ==
  CHOOSE w \in Workers : \A v \in Workers :
    Load(w, aw) < Load(v, aw) \/ (Load(w, aw) = Load(v, aw) /\ w <= v)

\* where spawn and getOrSpawn put the actor of p
WorkerFor(p, aw) == IF fn[p] = "getOrSpawn" THEN Place[key[p]] ELSE Pick(aw)

-----------------------------------------------------------------------------
(* Calls of user code.                                                      *)

\* assertOpen throws
Refuse(p) ==
  /\ IsNext(p) /\ disposed
  /\ Settle(p, "rejected", None)
  /\ UNCHANGED <<callVars, home, awaiting, registry, keyed, endVars,
                 localObjects, inbox, outbox, workerVars, own>>

Register(p, c) ==
  /\ Cardinality({q \in Procs : fn[q] = "register"}) < MaxRegisters
  /\ Invoke(p, "register", c, None)
  /\ RegisterOnAll(p, c)

Spawn(p, c) ==
  /\ Invoke(p, "spawn", c, None)
  /\ IF c \in registry THEN CreateOn(p, Pick(awaiting)) ELSE RegisterOnAll(p, c)

\* a bound key answers at once, or throws for another class or arguments
GetOrSpawn(p, k, c) ==
  /\ Invoke(p, "getOrSpawn", c, k)
  /\ IF keyed[k] # None
       THEN /\ IF class[keyed[k]] = c THEN Settle(p, "resolved", keyed[k])
                                      ELSE Settle(p, "rejected", None)
            /\ UNCHANGED <<home, awaiting, registry, keyed, localObjects, inbox, own>>
       ELSE IF c \in registry THEN CreateOn(p, Place[k]) ELSE RegisterOnAll(p, c)

\* the last destroy of an actor under way: its mailbox ends with it
LastTask(a) ==
  {q \in Procs : pc[q] = "destroying" /\ target[q] = a /\ \A r \in Procs : behind[r] # q}

\* destroy of a proxy the user holds: the one create returned, or another
\* proxy of the same actor (a method that returned `this`). Its request is
\* posted when the destroys before it in the mailbox are answered.
Destroy(p, a, orig) ==
  /\ IsNext(p) /\ ~disposed
  /\ fn' = [fn EXCEPT ![p] = "destroy"]
  /\ target' = [target EXCEPT ![p] = a]
  /\ original' = [original EXCEPT ![p] = orig]
  /\ IF a \in localObjects[home[a]]
       THEN /\ pc' = [pc EXCEPT ![p] = "destroying"]
            /\ \/ /\ LastTask(a) = {}
                  /\ Request(p, {home[a]}, "destroy")
                  /\ UNCHANGED behind
               \/ /\ \E q \in LastTask(a) : behind' = [behind EXCEPT ![p] = q]
                  /\ UNCHANGED <<awaiting, inbox>>
            /\ UNCHANGED result
       ELSE /\ Settle(p, "rejected", None)
            /\ UNCHANGED <<behind, awaiting, inbox>>
  /\ UNCHANGED <<class, key, home, registry, keyed, endVars, localObjects,
                 outbox, workerVars, own>>

\* dispose closes every node at once; gracefulTerminate of a node ends when
\* nothing is pending there; then the keyed proxies are forgotten
Dispose ==
  /\ ~disposed
  /\ disposed' = TRUE
  /\ UNCHANGED <<pc, callVars, home, awaiting, result, registry, keyed, ended,
                 cleared, localObjects, inbox, outbox, workerVars, own>>

\* mutant: gracefulTerminate does not drain
NodeEnds_NoDrain(w) ==
  /\ disposed /\ w \notin ended
  /\ ended' = ended \cup {w}
  /\ actors' = [actors EXCEPT ![w] = {}]
  /\ UNCHANGED <<pc, callVars, home, awaiting, result, registry, keyed, disposed,
                 cleared, localObjects, inbox, outbox, importing, loaded, unknown,
                 own>>

NodeEnds(w) ==
  /\ disposed /\ w \notin ended
  /\ \A p \in Procs : w \notin awaiting[p]
  /\ ended' = ended \cup {w}
  /\ actors' = [actors EXCEPT ![w] = {}]
  /\ UNCHANGED <<pc, callVars, home, awaiting, result, registry, keyed, disposed,
                 cleared, localObjects, inbox, outbox, importing, loaded, unknown,
                 own>>

DisposeEnds ==
  /\ ended = Workers /\ ~cleared
  /\ cleared' = TRUE
  /\ keyed' = [k \in Keys |-> None]
  /\ UNCHANGED <<pc, callVars, home, awaiting, result, registry, disposed, ended,
                 localObjects, inbox, outbox, workerVars, own>>

-----------------------------------------------------------------------------
(* Answers from a worker, each with the code that awaited it.               *)

\* worker w answers process p
Answer(w, p, ok) ==
  /\ outbox[w] # <<>> /\ Head(outbox[w]) = [by |-> p, ok |-> ok]
  /\ outbox' = [outbox EXCEPT ![w] = Tail(@)]
  /\ UNCHANGED <<callVars, endVars, workerVars>>

Answered(w, p) == [awaiting EXCEPT ![p] = @ \ {w}]

\* Promise.all rejects with the first failure, and resolves with the last
\* success; then register is done, spawn and getOrSpawn create their actor.
\* An answer after a failure changes nothing but what is pending.
RegisterAnswered(w, p) ==
  \E ok \in BOOLEAN :
    /\ pc[p] = "registering" \/ (p \in own /\ pc[p] = "rejected")
    /\ Answer(w, p, ok)
    /\ \/ /\ pc[p] = "registering" /\ ok /\ awaiting[p] = {w}
          /\ fn[p] # "register" /\ ~disposed
          /\ CreateOn(p, WorkerFor(p, Answered(w, p)))
       \/ /\ awaiting' = Answered(w, p)
          /\ IF pc[p] = "rejected" \/ (ok /\ awaiting[p] # {w})
               THEN UNCHANGED <<pc, result>>
             ELSE IF ok /\ fn[p] = "register"
               THEN Settle(p, "resolved", None)
             ELSE (ok => disposed) /\ Settle(p, "rejected", None)
          /\ UNCHANGED <<home, registry, keyed, localObjects, inbox, own>>

\* mutant: an answered create stays pending
CreateAnswered_StaysPending(w, p) ==
  \E ok \in BOOLEAN :
    /\ pc[p] = "creating"
    /\ Answer(w, p, ok)
    /\ IF ok THEN Settle(p, "resolved", p) ELSE Settle(p, "rejected", None)
    /\ keyed' = IF ok /\ fn[p] = "getOrSpawn" THEN [keyed EXCEPT ![key[p]] = p] ELSE keyed
    /\ UNCHANGED <<home, awaiting, registry, localObjects, inbox, own>>

CreateAnswered(w, p) ==
  \E ok \in BOOLEAN :
    /\ pc[p] = "creating"
    /\ Answer(w, p, ok)
    /\ awaiting' = Answered(w, p)
    /\ IF ok THEN Settle(p, "resolved", p) ELSE Settle(p, "rejected", None)
    /\ keyed' = IF ok /\ fn[p] = "getOrSpawn" THEN [keyed EXCEPT ![key[p]] = p] ELSE keyed
    /\ UNCHANGED <<home, registry, localObjects, inbox, own>>

\* The mailbox goes on with the destroy behind p, if there is one. When p was
\* all that dispose waited for on w, its drain resumes first: the thread is gone
\* before the request is posted to it (NodeEnds), and no answer ever comes.
NextTask(w, p) ==
  LET drained == disposed /\ \A q \in Procs : w \notin Answered(w, p)[q]
  IN  \/ /\ drained \/ \A q \in Procs : behind[q] # p
         /\ awaiting' = Answered(w, p)
         /\ UNCHANGED inbox
      \/ /\ ~drained
         /\ \E q \in Procs :
              /\ behind[q] = p
              /\ Post(q, {w}, "destroy")
              /\ awaiting' = [Answered(w, p) EXCEPT ![q] = {w}]

\* mutant: the keyed entry outlives its actor
DestroyAnswered_KeepsKey(w, p) ==
  /\ pc[p] = "destroying"
  /\ Answer(w, p, TRUE)
  /\ NextTask(w, p)
  /\ Settle(p, "resolved", None)
  /\ localObjects' = [localObjects EXCEPT ![w] = @ \ {target[p]}]
  /\ UNCHANGED <<home, registry, keyed, own>>

\* mutant: the node still counts the actor
DestroyAnswered_KeepsLoad(w, p) ==
  /\ pc[p] = "destroying"
  /\ Answer(w, p, TRUE)
  /\ NextTask(w, p)
  /\ Settle(p, "resolved", None)
  /\ keyed' = [k \in Keys |->
       IF original[p] /\ keyed[k] = target[p] THEN None ELSE keyed[k]]
  /\ UNCHANGED <<home, registry, localObjects, own>>

\* mutant: the destroys behind p are forgotten with the mailbox
DestroyAnswered_NoNext(w, p) ==
  /\ pc[p] = "destroying"
  /\ Answer(w, p, TRUE)
  /\ awaiting' = Answered(w, p)
  /\ Settle(p, "resolved", None)
  /\ localObjects' = [localObjects EXCEPT ![w] = @ \ {target[p]}]
  /\ keyed' = [k \in Keys |->
       IF original[p] /\ keyed[k] = target[p] THEN None ELSE keyed[k]]
  /\ UNCHANGED <<home, registry, inbox, own>>

\* the node forgets the actor; a keyed entry only goes with its own proxy
DestroyAnswered(w, p) ==
  /\ pc[p] = "destroying"
  /\ Answer(w, p, TRUE)
  /\ NextTask(w, p)
  /\ Settle(p, "resolved", None)
  /\ localObjects' = [localObjects EXCEPT ![w] = @ \ {target[p]}]
  /\ keyed' = [k \in Keys |->
       IF original[p] /\ keyed[k] = target[p] THEN None ELSE keyed[k]]
  /\ UNCHANGED <<home, registry, own>>

-----------------------------------------------------------------------------
(* The workers.                                                             *)

Take(w, p, command) ==
  /\ inbox[w] # <<>> /\ Head(inbox[w]) = [cmd |-> command, by |-> p]
  /\ inbox' = [inbox EXCEPT ![w] = Tail(@)]
  /\ UNCHANGED <<pc, callVars, home, awaiting, result, registry, keyed, endVars,
                 localObjects, own>>

Reply(w, p, ok) == outbox' = [outbox EXCEPT ![w] = Append(@, [by |-> p, ok |-> ok])]

\* mutant: the command is answered before import() has ended
HandleRegister_NoAwait(w, p) ==
  /\ Take(w, p, "register")
  /\ importing' = [importing EXCEPT ![w] = @ \cup {p}]
  /\ Reply(w, p, TRUE)
  /\ UNCHANGED <<loaded, actors, unknown>>

\* mutant: imports are tracked by class
HandleRegister_ByClass(w, p) ==
  /\ Take(w, p, "register")
  /\ importing' = [importing EXCEPT ![w] = @ \cup {class[p]}]
  /\ UNCHANGED <<outbox, loaded, actors, unknown>>

\* import() is asynchronous: later commands overtake it
HandleRegister(w, p) ==
  /\ Take(w, p, "register")
  /\ importing' = [importing EXCEPT ![w] = @ \cup {p}]
  /\ UNCHANGED <<outbox, loaded, actors, unknown>>

ImportEnds(w, p) ==
  /\ p \in importing[w]
  /\ importing' = [importing EXCEPT ![w] = @ \ {p}]
  /\ \E ok \in {TRUE, ~ImportMayFail} :
       /\ Reply(w, p, ok)
       /\ loaded' = IF ok THEN [loaded EXCEPT ![w] = @ \cup {class[p]}] ELSE loaded
  /\ UNCHANGED <<pc, callVars, home, awaiting, result, registry, keyed, endVars,
                 localObjects, inbox, actors, own, unknown>>

HandleCreate(w, p) ==
  /\ Take(w, p, "create")
  /\ \/ /\ class[p] \notin loaded[w]
        /\ Reply(w, p, FALSE)
        /\ unknown' = unknown \cup {p}
        /\ UNCHANGED actors
     \/ /\ class[p] \in loaded[w]
        /\ \E ok \in {TRUE, ~CtorMayFail} :
             /\ Reply(w, p, ok)
             /\ actors' = IF ok THEN [actors EXCEPT ![w] = @ \cup {p}] ELSE actors
        /\ UNCHANGED unknown
  /\ UNCHANGED <<importing, loaded>>

HandleDestroy(w, p) ==
  /\ Take(w, p, "destroy")
  /\ actors' = [actors EXCEPT ![w] = @ \ {target[p]}]
  /\ Reply(w, p, TRUE)
  /\ UNCHANGED <<importing, loaded, unknown>>

-----------------------------------------------------------------------------
Held == {result[q] : q \in {r \in Procs : pc[r] = "resolved"}} \ {None}

UserStep(p) ==
  \/ Refuse(p)
  \/ \E c \in Classes : Register(p, c) \/ Spawn(p, c) \/ \E k \in Keys : GetOrSpawn(p, k, c)
  \/ \E a \in Held, orig \in BOOLEAN : Destroy(p, a, orig)

HostReceive(w) ==
  \E p \in Procs : RegisterAnswered(w, p) \/ CreateAnswered(w, p) \/ DestroyAnswered(w, p)

WorkerHandles(w) ==
  \E p \in Procs : HandleRegister(w, p) \/ HandleCreate(w, p) \/ HandleDestroy(w, p)

Next ==
  \/ \E p \in Procs : UserStep(p)
  \/ Dispose
  \/ \E w \in Workers : NodeEnds(w)
  \/ DisposeEnds
  \/ \E w \in Workers : HostReceive(w) \/ WorkerHandles(w)
  \/ \E w \in Workers, p \in Procs : ImportEnds(w, p)

Spec == Init /\ [][Next]_vars

\* ports deliver, event loops run, and a module is loaded or refused
Fairness ==
  /\ \A w \in Workers : /\ WF_vars(HostReceive(w))
                        /\ WF_vars(WorkerHandles(w))
                        /\ WF_vars(NodeEnds(w))
                        /\ WF_vars(\E p \in Procs : ImportEnds(w, p))
  /\ WF_vars(DisposeEnds)

FairSpec == Spec /\ Fairness

-----------------------------------------------------------------------------
(* Safety.                                                                  *)

BeingDestroyed(a) == \E q \in Procs : pc[q] = "destroying" /\ target[q] = a

\* A key leads to a live actor on the worker of that key, unless its destroy
\* is under way or it was destroyed through another proxy of the actor.
KeyedIsLive ==
  \A k \in Keys :
    keyed[k] # None /\ ~disposed =>
      \/ keyed[k] \in actors[Place[k]]
      \/ BeingDestroyed(keyed[k])
      \/ \E q \in Procs : target[q] = keyed[k] /\ ~original[q] /\ pc[q] = "resolved"

\* When register has resolved every worker can create the class.
RegisteredEverywhere ==
  \A p \in Procs :
    fn[p] = "register" /\ pc[p] = "resolved" => \A w \in Workers : class[p] \in loaded[w]

\* A spawn that registered its class itself is never told it is unknown,
\* although import() lets later commands of the port overtake it.
OwnRegisterSuffices == own \cap unknown = {}

\* The actors the scheduler counts on a worker are those that live there,
\* plus creates under way or failed and destroys under way.
LoadIsAccurate ==
  \A w \in Workers \ ended :
    /\ actors[w] \subseteq localObjects[w]
    /\ \A a \in localObjects[w] \ actors[w] :
         pc[a] \in {"creating", "rejected"} \/ BeingDestroyed(a)

\* Nothing is keyed once dispose is done: no getOrSpawn adds its actor later.
NothingKeyedAfterDispose == cleared => \A k \in Keys : keyed[k] = None

-----------------------------------------------------------------------------
(* Liveness.                                                                *)

\* dispose ended the thread before the request of this destroy was posted
Stranded(p) ==
  pc[p] = "destroying" /\ behind[p] # None /\ home[target[p]] \in ended

\* Every call of register, spawn, getOrSpawn and destroy settles, whatever its
\* workers answer and even when dispose begins while it waits for them, except
\* for a destroy that waits in the mailbox behind another destroy of the actor:
\* dispose waits for what is pending, not for what is behind it.
EveryOperationSettles == \A p \in Procs : pc[p] # "idle" ~> Settled(p) \/ Stranded(p)

\* a create that was refused and still is in its node's `pending`
LeftPending(p) == pc[p] = "rejected" /\ home[p] \in awaiting[p]

\* A dispose comes to its end, whatever calls overlap it, unless the arguments
\* of a constructor could not be cloned: the node with the request left behind
\* drains for ever.
DisposeCompletes == disposed ~> cleared \/ \E p \in Procs : LeftPending(p)

-----------------------------------------------------------------------------
(* What the documentation says and the code does not do.                    *)

\* README.md:42, getOrSpawn "returns one actor per key"
OneActorPerKey ==
  \A p, q \in Procs :
    /\ fn[p] = "getOrSpawn" /\ fn[q] = "getOrSpawn" /\ key[p] = key[q]
    /\ \E w \in Workers : {p, q} \subseteq actors[w]
    => p = q

=============================================================================
