# remote-objects in TLA+

A model of the runtime that remote-objects puts between user code and actors
living in `worker_threads`: TLA+ modules, TLC configurations for small
instances, and TLAPS proofs for every size. Paths below are those of the
repository's own files, `src/` standing for `src/src` of this checkout:
`src/lib/runtime/worker-node.ts` and so on.

- [Inventory](#inventory): the system's parts and what makes each correct
- [Modules](#modules): which module models which part, and how
- [Runs](#runs): what TLC checks, within which bounds
- [Fairness](#fairness)
- [Proofs](#proofs): what holds for every value of the constants, and why
- [Where the code and its documentation differ](#where-the-code-and-its-documentation-differ)
- [Not modelled](#not-modelled)
- [Plan](#plan)

## Inventory

User code on the host creates a `Runtime`, which owns a pool of worker threads,
one `WorkerNode` on the host for each. An actor is an instance of a registered
class; it lives in one thread and user code holds a proxy of it, whose method
calls become messages. Arguments and results may carry references to actors,
callbacks and Node streams, which makes messages flow in every direction: host
to worker, worker to host, and worker to worker through the host.

| component | files | state | operations |
|---|---|---|---|
| WorkerNode | `runtime/worker-node.ts` | `pending` requests, `mailboxes` (a promise per actor), `localObjects`, `closed`, drain waiters | `create`, `call`, `destroy`, `register`, message / error / timer handlers, `gracefulTerminate` |
| Worker thread | `worker/runtime-worker.ts` | `objects`, class registry, `bridgePending` | one async handler per command: register, create, call, destroy, callback_invoke (close_all and callback_release are never sent); bridge messages |
| Runtime | `runtime/runtime.ts` | registry, keyed proxies, `disposed`, host callbacks | `register`, `spawn`, `getOrSpawn`, `destroy`, `dispose` |
| Registry | `runtime/registry.ts` | class name to module URL | `register`, `has`, `get` |
| Scheduler | `runtime/scheduler.ts` | (reads the nodes' load) | `pick` (least loaded), `pickForKey` (hash) |
| Proxy | `proxy/proxy.ts` | actor and node it addresses | method call |
| Callback registry | `protocol/callback-registry.ts` and its users in both threads | callback ids with their scope: one call, one actor, or none | register, invoke, release of a call's or an actor's callbacks |
| Bridge | `worker-node.ts` (bridge_*), `runtime-worker.ts` | calls and invocations in flight from worker to worker | `call`, `callback_invoke` and their results, routing by worker id |
| Streams | `protocol/stream-bridge.ts`, `runtime/stream-router.ts`, `runtime/host-stream-transport.ts` | owned streams, proxies, subscribers | chunk, end, error, close, write, pause, resume |
| Serializer, refs, plain | `protocol/serializer.ts`, `refs.ts`, `plain.ts`; `valueEqual` in `runtime.ts` | none | encode, decode, compare |
| Actor metadata, messages, types | `actor-meta.ts`, `messages.ts`, `types.ts`, `module-dir.ts`, `index.ts` | none after load | |

How they interact. `Runtime` calls the scheduler for a node and the node for
everything else, and awaits the promises it gets. A node and its thread share
nothing but two first-in-first-out message ports. Both sides are event loops:
a handler runs to its next `await` undisturbed, and everything between two
awaits may have been interleaved with any other handler. The thread ends either
because the host terminates it or through an uncaught error, which the host
sees later as an `'error'` event.

What is hard, and what makes each part correct:

- **WorkerNode and its thread.** The thread handles commands concurrently (each
  handler awaits user methods), so the promise that calls on one actor do not
  overlap rests on the host's mailboxes alone: a chain of promises whose map
  entry is deleted by `destroy` while later tasks may still hang on it. Timeouts
  settle a call on the host whose method still runs; its late answer must
  change nothing. Requests end in five ways (answer, timeout, error event, failed
  `postMessage`, terminate), and each must settle its promise and wake `drain`.
  Correct when: one unanswered request per actor, enqueue order kept, nothing
  after a destroy, every promise settles, dispose waits for what is in flight
  and then ends the thread.
- **Runtime.** Each method is a sequence of awaits over maps that other calls
  change meanwhile: the registry knows a class before its workers do, the keyed
  map is read before and written after two awaits, `dispose` overlaps everything.
  Correct when: a key leads to a live actor, a registered class is known on every
  worker, the load the scheduler reads matches the workers, every call settles
  and nothing survives dispose.
- **Callbacks.** A function in an argument lives as long as the host's call (or
  `create`) awaits the worker, one in a result as long as its actor; in a call
  from worker to worker it has no scope and lives as long as the thread. A stub
  that is passed on is registered again, so that an invocation travels from
  registry to registry beside the answers that release their entries. Correct
  when: what was promised when an invocation began still holds when it gets
  there, and no registry keeps what nobody may use.
- **Bridge.** A worker awaiting another worker, whose mailbox waits for the
  first; callbacks have neither mailbox nor timeout; nodes are disposed each on
  its own. Correct when: no call is lost or doubled, each comes back to who made
  it or waits for one that waits for it, and dispose ends the threads.
- **Streams.** Chunks, end, error and close cross two ports and may cross a
  pause or a close of the other side. Correct when: chunks keep their order, end
  comes after all of them, nothing arrives after close, and both ends are freed.
- **Serializer, argument comparison.** Sharing is no cycle, yet the walk back
  must meet no object twice. Correct when: what arrives is what was sent, exactly
  the cycles are refused, and arguments compare equal only if they are.

`PROJECT.json` lists the hazards at the lines where they bite, with the
properties that watch them or the reason none does yet.

## Modules

| module | what it is |
|---|---|
| `WorkerNode` | one node and its thread: requests, mailboxes, timeouts, destroy, drain, terminate, crash |
| `SerialActor` | abstract specification: the tasks of an actor are served one by one, in order, none after its removal |
| `WorkerNodeActor` | the refinement mapping from `WorkerNode` to `SerialActor` |
| `MCWorkerNode` | symmetry for the runs of `WorkerNode` |
| `WorkerNodeProofs` | proofs: types, mutual exclusion of a mailbox, order of operations, finality of destroy, truth of answers |
| `WorkerNodeActorProofs` | proof: a node without call timeout implements `SerialActor` |
| `SerialActorProofs` | proofs of what `SerialActor` promises |
| `Runtime` | the public methods over several workers: registration, placement, keyed actors, dispose |
| `MCRuntime` | placements of keys for the runs of `Runtime` |
| `RuntimeProofs` | proofs: every safety property of `Runtime` |
| `Bridge` | calls and callbacks between the host and several workers, nested in any way, with timeouts, crashes and dispose |
| `MCBridge` | where actors and callbacks live in the run of `Bridge` |
| `BridgeProofs` | proofs: every safety property of `Bridge` |
| `Callbacks` | functions that cross ports: registries, scopes, stubs that are passed on, invocations |
| `MCCallbacks` | where actors live in the run of `Callbacks` |
| `CallbacksProofs` | proofs: types, what registries keep, and that invocations are served |
| `Values` | encode, clone and decode of values that share and cycle, and `valueEqual` |
| `MCValues` | for the run of `Values` |
| `StreamLinks` | what carries a stream: the entry tables, the router's subscriptions, the ports, and where the host takes each stream message |
| `Streams` | one stream and its proxies: passing the reference, chunks and backpressure, writes and their callbacks, end, error, close |
| `MCStreams` | sides and owners for the runs of `Streams` |
| `StreamsProofs` | proofs: types, order of what is read from a stream, and that what is acknowledged was written |
| `StreamsFirstProofs` | proofs: what holds while the owner has passed its stream on only once, and what the end means to a program |

### WorkerNode

An element of `Ops` is one operation of user code (or of the proxy on its
behalf): a `create`, a method `call`, a `destroy`, or a `drop`, which is
`destroy(..., { close: false })`. `st[op]` is its promise as the node sees it:
*queued* in a mailbox, *sent*, then *resolved* or *rejected*. Method names,
arguments and results are abstracted: what matters of them is whether they can
be encoded, whether they can be cloned, and whether the worker answers with a
value or an error; the code's conditions that depend on them are choices.

| state | code |
|---|---|
| `pending` | the `pending` map: promises the node still tracks |
| `localObjects`, `nextObjectId`, `mailboxes` | the fields of the same name; `mailboxes[o]` is the operation whose promise is stored, `NoOp` when there is no entry |
| `prev` | the promise a task was chained to in `enqueue` |
| `phase` | `closed` and how far `gracefulTerminate` is: awaiting `closeAllActors` (*closing*), awaiting drain (*draining*), drain returned at once and the finally block is due (*ending*), *terminated* |
| `toWorker`, `toHost` | the two ports |
| `objects`, `executing`, `closing` | the worker's object map, and its suspended handlers: method calls, destroys in `closeActor` |
| `crashNotice` | an `'error'` event not yet handled by the host |
| `earlier`, `begun`, `closes` | history variables the properties speak of |

**Granularity.** A host step is one macrotask with the microtasks that belong
to it, or the start of one mailbox task. Starting a mailbox task is a microtask,
so no message, timer or error event is handled while a task is ready
(`MicrotasksDrained`); tasks of different actors may start in any order. Two
orders within one macrotask matter. When the last pending answer arrives during
a drain, `notifyDrain` resumes `gracefulTerminate` in fewer promise jobs than
the `.then` chain of `enqueue` needs to start the next task of that mailbox:
`NotifyDrain` therefore terminates in the same step, and the next task finds the
thread gone. `closeAllActors` finds the node already closed and returns, so that
`CloseAllActors` is the microtask after `Dispose`: nothing is closed and no
close_all is sent. When `dispose` finds nothing pending, `drain` returns at once; tasks
at the head of a mailbox (`prev = NoOp`, enqueued in the same turn) still start
before the finally block, which is why `Finally` waits for those alone. Their
requests are posted to a live thread, which the finally block then stops,
rejecting them with "Runtime is disposed": `drain` does not look a second time.
That is the *ending* case of `DisposeWaits`. A
message posted to a thread that is gone is dropped in silence, as
`Worker.postMessage` does. User code runs at any time: it may be called from a
microtask.

The thread takes one message, or resumes one handler, per step. `await` of a
method may last forever; `closeActor` (the user's `close` or `dispose` method)
is part of `HandleDestroy`/`CloseReturns`, an error in it being swallowed by
the code. `Crash` is an uncaught error: it ends the thread, and
`WorkerError` is the host's handler when it learns of it.

`request()` can fail in two different ways, both kept: encoding throws before
the entry is made (`FailEncode`), and `postMessage` throws after it
(`FailClone`), which leaves the entry in `pending`.

### SerialActor and WorkerNodeActor

`SerialActor` knows tasks and actors only. `WorkerNodeActor` maps every
mailbox operation to a task: waiting until it reaches the actor, *serving* while
its method or closer runs in the thread, *done* afterwards or once the host has
settled it unserved. Without a call timeout `WorkerNode` implements it, crashes,
dispose and failing requests included. With one it does not, since a task that
timed out is still being served; `OverlapOnlyAfterTimeout` says that this is the
only reason.

### Runtime

A process is one call of a public method and runs from await to await; they are
numbered in the order of the calls. The actor a process creates bears its name,
and so does the proxy it is given. `pc`
says what it awaits, `awaiting` the workers that owe it an answer: the part of
their `pending` that `getSchedulingLoad` counts. Constructor arguments are part
of the class, as `getOrSpawn` treats a mismatch of either alike. `Place` stands
for `hashKey(key) % workers`, a constant function. `original` tells `destroy`
of the proxy that `create` returned from destroy of another proxy of the same
actor, which the keyed map, comparing identities, does not recognise.

A worker's `register` handler awaits `import()`, so later commands overtake it
(`HandleRegister`, `ImportEnds`); `create` and `destroy` are answered in one
step, the steps inside being the subject of `WorkerNode`. Worker crashes are in
`WorkerNode` only.

A `create` counts its actor, then encodes and posts its arguments (`CreateOn`),
with three outcomes: the request is sent; encoding throws and nothing is left
but the actor in `localObjects`; or `postMessage` cannot clone, and the request
stays in `pending` (`awaiting`) with no message and no timer: the load counts it
for good, and the node drains forever (`LeftPending`). A `destroy` is a task of
the actor's mailbox. `behind[p]` is the destroy it is chained to, `LastTask` the
end of the chain; its request is posted when the one before it is answered
(`NextTask`), unless that answer was all that dispose waited for: then the drain
resumes first, the thread is gone when the request is posted, and the destroy
never settles (`Stranded`).

### Bridge

A call is made by user code (`User`) or by the method or callback of an earlier
call, of an actor or of a callback; `calls[c].settled` is its promise on the side
that made it. A host call enters the mailbox of its actor (`HostCalls`,
`HandleBridgeCall`), one of a callback is requested at once
(`InvokeWorkerCallback`), one of a worker's own actor runs at once and in no
mailbox (`DirectCalls`, as `decodeActorRef` gives out the instance). What a call
passes is left out, so who holds which stub is a choice: any method may call
anything. A callback registered on another worker is reached by the host
directly; in the code the host's registry holds a closure that does the same.

| state | code |
|---|---|
| `mailbox[a]` | the tasks chained for the actor that have not settled |
| `pending[w]`, `phase[w]` | the node of `w`: its requests, and `gracefulTerminate` (*open*, *draining*, *stopped*) |
| `leftover[w]` | kinds of request that stay in the `pending` of `w` because `postMessage` threw after the entry was made: a *call*, which may have a timer, or an *invoke* of a callback, which has none |
| `unclonable` | mailbox tasks whose post will throw when their turn comes: who waits for it, and behind which call |
| `toWorker`, `toHost` | the ports: requests and results of bridged calls; bridged calls, invocations and answers |
| `running` | methods and callbacks that have not returned |
| `crashed`, `notices` | threads that died, and `'error'` events not handled yet |

A host step is one macrotask with all it entails: an answer settles the request,
ends a drain, starts the next task and posts the result to the worker that
awaits it (`Settle`). The finer order of these microtasks is in `WorkerNode`.
All nodes are disposed in one step, as `Promise.all` calls `gracefulTerminate`
of each in turn without a message between.

`request()` and `invokeWorkerCallback` record an entry and then post: what
`postMessage` cannot clone stays in `pending` (`HostCallsUnclonable`,
`HostInvokesUnclonable`), at once or when its turn in the mailbox comes
(`Leave`), until its timer (`LeftoverTimerFires`) or an `'error'` event takes it
out. Only arguments of host code can be so: those of a bridged call or
invocation were cloned on their way to the host already. Such entries are
counted by kind, not one by one (drain asks only whether there is any), and the
call itself, which is rejected on the host in the same turn, is none of `calls`;
what becomes of it is `FailClone` of `WorkerNode`. Encoding that throws leaves
nothing behind and is left out.

### Callbacks

`entries` lists every entry ever made, of all registries: the side it is `at`,
the function `fn` it holds (`Own`, or the stub of another entry), its `scope` (a
call, or none), the `actor` it is bound to, whether it is still `live`. `held`
are the entries a side has stubs of. Entries are never reused (`nextId` only
grows), so that one list of numbers serves for all registries; `boundByObject`
is the set of entries of an actor. The host registers when a task of a mailbox
starts (`Start`), releases in the `finally` of `doCall` (`Settle`), and registers
results of bridged calls again without a scope; a worker registers results bound
to the actor (`MethodReturns`), also when the rest of the result then cannot be
encoded, and releases them when the close of a destroy returns.

An invocation is one message a hop (`Forward`); `due` says whether the
documentation promised, when it was begun, that it is served: `Promised` is the
set of those it is promised to, and follows the function through the registries,
as far as each call passed on what it was passed itself. A function that an actor
returned and that leads on to a callback of a call is promised to nobody: the
invocation goes back to the actor's worker and from there to the host, and the
answer of the call may be there first (with three calls; two do not show it).
`hasty` and `gaveUp` are history. One function per call, and
none in arguments and results of callbacks (those are registered without a scope,
as in calls between workers). The callbacks of `create` are those of a call.

### Values

`heap` is any graph of plain objects, arrays, actors, functions and instances of
other classes; primitives are inline. `Encode` is the walk of `walkEncode` with
its two sets: `inProgress`, which tells a cycle, and `encoded`, from which an
object met again is cloned; `asIs` has the instances. Its result is a list of
cells, of which one found in two places is a shared object on the wire. `Decode` is `walkDecode` with
`seen`; a decoded value is a tree, in which `<<"raw", n>>` is an object taken
over undecoded. `Unfold` is what a value means, `Cyclic` what must be refused.
`Compare` is what `getOrSpawn` does with the arguments of an existing key; a
proxy is, to `isPlainObject`, an empty plain object. Instances (dates, maps,
buffers, objects of other classes) are opaque: the walk neither enters nor tags
what is in them, and puts them on the wire as they are, the same object each
time it meets them (`AsIs`); only the copy of an object met again has copies of
its instances too. Everything else on the wire is in one place (`TypeOK`).

### StreamLinks and Streams

One Node stream, which lives on its `owner`, a worker or the host, and the
proxies of the other sides. `entry[s]` is the entry of the stream in the
`StreamBridge` of side `s` (none, the real stream, or a proxy, and its `closed`
flag), `subs` the set that `StreamRouter` keeps for it, `toHost` and `toWorker`
the ports. `Handle` is the dispatch of a stream message to the methods of
`StreamBridge`, the same on both sides; `Targets` is `handleBridgeStream`, which
says where the host takes a message; `Answer` what a bridge posts back in the
same turn. A handler is one step with the `nextTick` work it causes (`_read`
after `push`, `'close'` after `destroy`), since ticks run before the next message.

The reference travels in three ways, with different subscriptions: in a result
or argument between the host and a worker; in the result of a bridged call,
which the host encodes for the caller in the turn in which it decoded it
(`HostGetsRef` subscribes host, target and caller); in an argument of a bridged
call, which is encoded when the target's mailbox comes to it (`queued`,
`MailboxStarts`). A holder may pass its proxy on, also back to the owner: then
`createProxy` replaces the owner's entry, and the real stream is out of reach.

What the module assumes of `node:stream` is named in its head and marked
external in the map. A program that reads is one that iterates (`for await`):
it takes one chunk at a time. Chunks are numbered, writes are numbered as the
proxy numbers them; a proxy has one write under way. `first`, `got`, `begun` and
`written` are history, and so is `lapse`: whether a close has made the router
forget all consumers (`UnsubscribeAll`), and whether it got new ones since. The `closed` checks of the owner's listeners need no
counterpart: an owner's entry is closed only when its stream is destroyed. An
unhandled rejection (`OnWrite` on a side that does not own the stream) ends a
worker, or the host's process and everything with it. Not told apart: the two
orders in which a failing real stream reports the error and the failed writes.

## Runs

| run | question | bounds |
|---|---|---|
| `node_safety` | Do mailboxes keep one request at a time and the enqueue order? Do answers mean what they say? Does dispose wait? | 4 operations, 2 actors; timeouts, crashes, failing arguments |
| `node_serial` | Does a node without call timeout implement `SerialActor`? | the same, no timeout |
| `node_liveness` | Does every call settle, is every request answered, does dispose end the thread? | 3 operations, 1 actor, everything enabled |
| `runtime_safety` | Do the keyed map, the registry and the load agree with the workers? | 3 processes, 2 workers, 2 keys on different workers, 1 class; failing imports, constructors and arguments |
| `runtime_liveness` | Does every call of the Runtime settle, and does dispose complete? | 3 processes, 2 workers, 1 class, 1 key, the same failures; no explicit `register`, as spawns make the same registration |
| `streams` | Does a side that is given a stream get all of it, does it come to the end with it, do writes settle and producers stop? | host and 2 workers, the stream on the host or a worker; given once; 2 chunks, 1 write and the end, high-water mark 1; one pause, drop, failure or crash |
| `streams_shared` | Do order and end survive several proxies, a reference passed on or back? Has the first program all of it at the end? | the same, owned by the host, passed twice |
| `bridge` | Is a call between workers ever lost or doubled, does it come back, does dispose end every thread? | an actor on each of 2 workers, a callback of the host and one of a worker; 3 calls, of which a crash, a kind of request left in `pending` and a task that cannot be cloned take one each; with and without timeout |
| `callbacks` | Is an invocation served that was promised to be, and are entries released? | an actor on each of 2 workers; 2 calls, 1 destroy, 1 invocation; nothing is passed once 4 entries are registered |
| `values` | Does what is sent arrive, what is refused, what compares equal? | all heaps of 3 objects, 2 property names, arrays of at most 1, undefined and one more primitive |
| `dispose_skips_close`, `two_actors_per_key` | see [below](#where-the-code-and-its-documentation-differ) | 3 operations, 2 processes |

What each property says stands as a comment above it. Why the bounds are
enough: an order of two tasks is broken by two mailbox operations, and the case
that endangers it (a destroy that deletes the mailbox while a task is chained
behind it and a later one arrives) needs a create and three; the second actor is
there so that requests of different actors mix in the ports and in `pending`.
`NodeAssumption` bounds nothing but the number of actors, `MaxObject`, which
bounds `nextObjectId`; `Ops` bounds the number of operations. The proofs of the
safety properties remove both bounds. For the Runtime, three processes give
a pair of overlapping calls and a destroy or a third spawn that sees their
traces, or a spawn and two destroys of its actor, the second chained to the first
when dispose begins; `MaxRegisters` bounds explicit registrations; two workers let `Promise.all` be half done. For streams, two chunks and
a buffer of one make every chunk a pause and every read a resume, with a chunk
still in flight, and let a late subscriber miss the first; two workers and the
host are the longest way a reference takes. `MaxPasses` and `MaxUpsets` bound
passing and what disturbs the flow, as guards of those actions. For calls between workers, three are what a cycle of
two actors needs, and what lets one wait in a mailbox behind another while a
third awaits it; the two callbacks make a host function re-enter an actor and a
worker's function be called from both sides. One unclonable request makes a
drain wait, and leaves two calls to be in flight or chained around it. For callbacks, two calls nest, so
that a function goes from the host to a worker and on to the next, and an
invocation back through three registries; the destroy makes actor-bound entries
end. For values, three objects let one be shared, sit in a cycle that does not
include the root, or be compared two levels deep. Operations
are symmetric in the safety runs of `WorkerNode`; the runs of liveness use no
symmetry, and the other modules number what they create.

Deadlock is not checked: operations are used once and streams end, so every
behaviour ends, and a node may really be left with nothing to do. That nothing gets stuck halfway is
what the liveness properties are for.

## Fairness

Weak fairness of what the event loops and timers do by themselves: a ready
mailbox task starts, a delivered message is handled, an armed timer fires, an
`'error'` event is delivered, an `import()` ends while a worker has any (which of
several ends first is open). The timer of a call that could not be posted was
set before the post failed and fires like any other. On top
of it the actor's close method returns (the code awaits it without a timeout,
and dispose cannot end otherwise). Not assumed: that users act, that methods
return, that the thread crashes. `EveryCallSettles` thus holds thanks to
`callTimeoutMs` alone. In `Bridge`, where calls run without a timeout too, a
method or callback returns once the calls it made have settled, those in a
mailbox that will fail to be posted included: the question
there is who waits for whom. `HostReceive` is
fair as a whole since a port is handled in order: being fair to its head is
being fair to each message. In `Streams` the real stream goes on while it flows
and calls its writes back, and a program that reads goes on reading and resumes
what it paused; that anyone passes, writes, stops or fails is not assumed.

## Proofs

Everything below holds for every value of the constants: any set of operations,
actors, workers, processes, keys and callbacks, with or without timeouts, crashes
and failures (except where said). The assumptions are those the modules name:
`NodeAssumption` (the two markers are no operations, the flags are Boolean),
`RuntimeAssumption` (there is a worker, each key has its own, `None` is nothing
else), `BridgeAssumption` (the host is no worker, actors live on workers),
`CallbacksAssumption` (the same, and that the bounds are natural numbers),
`HostAssumption` (the same of streams) and `StreamAssumption` (owners are sides,
the bounds are natural numbers, the high-water mark is not 0).
TLC evaluates them in each run.

| theorem | statement | in words |
|---|---|---|
| `TypeCorrect` | `Spec => []TypeOK` | reachable states are well typed |
| `Exclusion` | `Spec => []MailboxExclusion` | an actor the node knows has at most one unanswered request |
| `OrderKept` | `Spec => []BegunInOrder` | an operation begins when all enqueued before it have settled and left the port |
| `FinalDestroy` | `Spec => []DestroyIsFinal` | an actor sees nothing enqueued after its destroy |
| `NoOtherOverlap` | `Spec => []OverlapOnlyAfterTimeout` | methods of one actor overlap only after the host gave up on one |
| `AnswersAreTrue` | `Spec => []ResolvedMeansDone` | a resolved call has run, a resolved destroy left no actor |
| `DisposeAwaits` | `Spec => DisposeWaits` | dispose, when it waits, stops a live thread only when all requests but the last were answered; when nothing was pending as it drained, with what mailboxes of the same turn posted meanwhile |
| `Refinement` | `CallTimeout = FALSE` gives `Spec => ServesSerially` | a node without call timeout implements `SerialActor` |
| `SerialIsExclusive` | `Spec => []OneAtATime` of `SerialActor` | it serves one task of an actor at a time |

| of the Runtime | statement | in words |
|---|---|---|
| `TypeOKHolds` | `Spec => []TypeOK` | reachable states are well typed |
| `RegisteredEverywhereHolds` | `Spec => []RegisteredEverywhere` | a resolved register has its class on every worker |
| `OwnRegisterSufficesHolds` | `Spec => []OwnRegisterSuffices` | who registered a class is never told it is unknown |
| `LoadIsAccurateHolds` | `Spec => []LoadIsAccurate` | the scheduler counts the live actors, and creates and destroys under way |
| `KeyedIsLiveHolds` | `Spec => []KeyedIsLive` | a key leads to a live actor on the worker of the key |
| `NothingKeyedAfterDisposeHolds` | `Spec => []NothingKeyedAfterDispose` | nothing is keyed once dispose is done |

| of streams | statement | in words |
|---|---|---|
| `TypeOKHolds` | `Spec => []TypeOK` | reachable states are well typed |
| `InOrderHolds` | `Spec => []InOrder` | programs get chunks in order, none twice, and none left out between two others |
| `AckedMeansWrittenHolds` | `Spec => []AckedMeansWritten` | what the only program that writes was told of, the real stream has |
| `FirstMissesNothingHolds` | `Spec => []FirstMissesNothing` | the first side given the stream reads from the first chunk on, and does not see the end without it |
| `EndMeansAllHolds` | `Spec => []EndMeansAll` | the first program has every chunk when it sees the end; a later one has the last if it got any |
| `HostSurvivesUnsharedHolds` | `Spec => []HostSurvivesUnshared` | no write meets a host that does not know the stream, while one side has it |

| of callbacks | statement | in words |
|---|---|---|
| `TypeOKHolds` | `Spec => []TypeOK` | reachable states are well typed |
| `KeptOnlyWhileNeededHolds` | `Spec => []KeptOnlyWhileNeeded` | entries of arguments live while their call awaits the worker, those of results as long as their actor |
| `InvokesServedHolds` | `Spec => []InvokesServed` | an invocation finds every function it comes through, as promised when it was begun |

| of bridged calls | statement | in words |
|---|---|---|
| `TypeOKHolds` | `Spec => []TypeOK` | reachable states are well typed |
| `OverlapExplainedHolds` | `Spec => []OverlapExplained` | methods of an actor overlap only after a timeout or a direct call |
| `NoCallLostHolds` | `Spec => []NoCallLost` | no call is lost or doubled while no thread dies or is stopped |

*Exclusion* (`WorkerNodeProofs`). The property is not inductive: a task starts
when the task it is chained to has settled, so one has to know that *this* task
comes last of all others. `MailboxInv` says so. While the node knows an actor,
its mailbox entry is the last operation enqueued (`TailIsLast`), each operation
is chained to the one enqueued just before it (`ChainIsOrder`), and one that has
left the queue therefore has none but settled predecessors (`StartedInTurn`).
Enqueue order is total on an actor (`EnqueueOrder`), so of two unanswered
requests one would have to precede the other and be settled. `destroy` deletes
the entry, which breaks the chain: but in the same step the actor leaves
`localObjects`, and the three parts speak of known actors only. `FreshIds` keeps
a new actor from inheriting anything, `PendingIsSent` and `Shapes` tie the
promises to the requests. `Classify` reduces the steps of ports, timers and
thread to what they do to promises, so that one lemma covers them.

*Order and answers* (`WorkerNodeProofs`). What the host orders, the thread
must not disorder. `OrderInv` adds that a request is in one place (the port, a
suspended handler or an answer: `OnePlace`), that the port holds nothing before
an operation enqueued earlier (`PortOrder`), that the thread knows no actor the
node has forgotten (`Actors`), that a settled destroy has removed the actor or
lost its thread (`DestroySettles`), and that a result comes from a method that
ran (`AnswersTell`). An actor begins an operation only if it is in `objects`,
hence known to the node, hence `StartedInTurn` and `PortOrder` apply: everything
before it has settled and left the port, and no destroy is among it, for that
would have removed the actor. Steps that only end handlers, settle promises and
drop messages are treated once (`Quiet`), and so are the thread's
(`HandlingKeeps`). That dispose waits for requests (`DisposeAwaits`) needs of all
this that an 'error' event comes from a thread that is gone (`Dead`): the other
steps that end a node check `pending` themselves, but for `finally` after a
drain that had nothing to wait for; `PostedLate` says that only tasks of
mailboxes are in `pending` then, as a closed node makes no creates.

*Refinement* (`WorkerNodeActorProofs`). Without timeouts the host gives up only
on requests whose thread is gone (`NothingAbandoned`): what has settled no longer
runs, so an operation that begins is a task whose predecessors are done. All
other steps end a set of tasks or none. With `SerialActorProofs` the refinement
says what a caller of such a runtime may rely on.

*Registration, placement and keys* (`RuntimeProofs`). None of the properties is
inductive: they speak of what processes have concluded from answers, and an
answer is only as good as what it says when it is read, which may be long after
it was sent. `RuntimeInv` therefore follows a command from the request to the
answer. A process has at most one message at a worker, in the inbox, in an
`import()` under way or in the outbox, and only while the worker is in its
`awaiting` (`PortsOK`, with `Asks`, `Imports` and `Says`). `Says` gives each
answer its meaning, and the meaning is stable: loaded classes stay loaded, an
actor disappears only by a destroy whose process is another one, and names are
not reused. A create that could not be cloned awaits its worker with no message
anywhere, which `PortsOK` allows. Of the destroys of an actor only the first in
its mailbox has posted anything (`BehindOK`), so that the answer to it may post
the next (`NextTask`) without a second message of that process being under way.
`ProcessOK` ties how far a process is to what it awaits and to what
it may already rely on: the workers no longer in `awaiting` of a registering
process have loaded the class, so none is missing when `awaiting` is empty, and
its own create cannot find the class missing. `ActorsOK` says where actors are
counted and keyed, `EndOK` that an ended node awaits nothing. `FinitelyMany`
bounds the load, without which the least loaded worker need not exist:
`PickIsLeast` shows that the scheduler's choice does and is the first of the
least. The three properties about load, keys and dispose are proved on top, step
by step, as they hold only relative to that invariant.

*Overlap* (`BridgeProofs`). That methods overlap only after a timeout follows from
`TasksOK`: the first task of a mailbox has its request pending, and no other of
the mailbox does. `RoutesOK` is needed to keep it: a message is found only at
the side its call goes to or comes from, so that an answer settles the request
it answers and never another's. Neither depends on crashes or timeouts, nor on
requests that could not be cloned: `Typed` is `TypeOK` without those two
variables, `LeftTyped` what is left, and the steps that change nothing else keep
all the rest (`LeftSteps`).

*No call lost* (`BridgeProofs`). `AliveInv` says of each call, while every thread
lives, which one of the places it is in (`OnePlace`), and where its request is at
the worker (`OneRequest`). That no port holds two requests or two answers of a call
(`OneEach`), and no mailbox a call twice (`NoTwice`), is what makes a step that
takes the head of a queue take the call from that place altogether. Each action then moves
one call from one place to the next and leaves all others where they are (the
lemmas `...Moves`); a result that starts the next task of a mailbox moves two
(`SettleMoves`). A request that timed out is the one case in which call and
request part: the call goes back while its request is still at the worker, which
`OneRequest` allows.

*Callbacks* (`CallbacksProofs`). What an argument's entry is kept for changes only
when its call settles, and that step releases it. A result's entry is the hard
half: a method that returned just after its actor was forgotten would leave one
that nothing releases. So a method must run on an actor that is there
(`RunningOK`), and the close of a destroy must run alone: of two requests at the
worker, both would have been sent, and the host sends those of an actor one at a
time (`OneSent`). That is the order of its mailbox again (`TurnsOK`), here in a
model whose calls are numbered when they are made and enqueued later, in another
order: the invariant says that some ranking of the tasks agrees with the chain
(`InOrder`), and `EnqueueTurns` extends it. What runs has been sent and has no
answer under way (`PlacesOK`); only a call the host gave up on may run beside
another, which is the exception the property names. `PortsOK` says what the
messages are about and that none is there twice, without which a request could
be handled again.

*Invocations* (`CallbacksProofs`). That an invocation is served is decided where
it arrives, by what has happened on other sides since it was begun, so
`ServedInv` says of each message on its way what must not be ahead of it
(`DueOK`). At the host, an entry of an argument needs that its call is still
"sent" and that its answer is not ahead in the port (`DueToHost`): the method was
running when it posted, and ports are in order. At a worker, what an actor
returned needs that no destroy is ahead or running, and what a method passed on
itself needs a call that this method awaits, whose result is not ahead
(`DueToWorker`). The step that matters is forwarding. The host, holding a live
entry of a call, knows that the call is not answered, hence that its caller
awaits it (`AwaitedOK`: a method with unsettled calls runs, or was hasty), hence
that the stub it invokes stands for something still promised; the worker, whose
method still runs, knows the same of the call that passed the function in. So the
invariant needs what an entry is a stub of (`LinksOK`) and the only two reasons
why one is gone (`DeadOK`). What an invocation may come to later must have been
promised at its begin: `Leads(e, c)` says that by a set of entries and calls
closed under the way it goes (`Closed`). That `Promised` gives such a set
(`PromisedLeads`) needs the one induction here, that its recursion has a solution
(`PromisedIs`): a function is older than its stub, so there is no smallest number
up to which none exists (`Least`, from the library's well-founded order of
finite sets). Those whom a call that was given up on, or a hasty method, let down
are the exceptions the property names.

*Streams* (`StreamsProofs`). What a program has read says nothing of what it
will read next, so `ChunkInv` follows the chunks on their way: `Ahead`, those in
the port of the owner to the host; `Coming(s)`, those in the port to side `s`;
`Had(s)`, those in the buffer of its proxy or read. Each is in order, and each
is behind the one before it (`OrderOK`): that alone gives the order, and needs
nothing of the router. That nothing is left out takes more (`GaplessOK`): for a
side the router knows, the chunks from any that it had, or that is coming, up to
the last one emitted are all on their way to it (`Onward`); for the others
nothing is on its way, and those that have had something have what came before
the router forgot them, without a gap. That is where the exception of `InOrder`
was found: a side that is forgotten and subscribed again has both. The end is
the last message in each port and finds all chunks ahead of it, so a proxy that
is told has, or is about to get, the last one if it had any (`EndAfterLast`). Most steps move no chunk and
are treated once (`QuietStep`): of a proxy they leave all, nothing, or the same
chunks, one of them read. Those that move one have a lemma for the side it
moves to (`SideIsSent`, `SideTakesChunk`, `SideTakesAtOnce`, `SideIsAhead`) and
one for the end (`SideTold`).

*Writes* (`StreamsProofs`). Results of writes carry only a number, and several
programs number theirs alike, so `AckInv` says less of one result and more of
who may have written: a result on its way belongs to some write that was done
(`Settled`), and a worker's proxy is never created anew for somebody else, so
that once it was used it stays among `Writers`; only the host's is. Results get
back to a program only if the stream, or the program, is the host's (`Near`): a
result for the host's router stops at the host, whose bridge it reaches first,
and when the host has no proxy the router's table is empty (`HostRouted`). Far
from the owner a program is told nothing and has begun one write at most. If
nobody else is a writer, the write that was done is the program's own.

*Streams given once* (`StreamsFirstProofs`). That the first side misses nothing is
about the time between the pass and the first chunk, so `OnePassInv` says where
the one reference is. Before the pass nothing has happened (`Pristine`). From a
worker it is first the head of the port to the host, with all chunks behind it,
and no side knows the stream (`Underway`); the host subscribes the side before it
takes anything else from that port, so no chunk goes by without a subscriber. From
then on it is in the port to the side, ahead of all chunks, or the proxy exists,
and chunk 1, once emitted, is still on its way to it or the first it had
(`Delivered`); that uses `ChunkInv`. A stream a worker gives in an argument
of a bridged call is kept by no program of the host, whose proxy must stay unused
(`AsArgument`). A program comes to the end with its buffer empty, so the first
has got every chunk by then (`EndHasAll`), in however many steps others close or
crash meanwhile; that others may come to the end with none is why
`EndMeansAll` is two statements. The host survives because nobody else can write: a side posts
writes only after it took the reference and none after its close (`CloseLast`),
and the close alone drops the host's entry (`Serves`). Steps that move no reference are treated once,
by what they may post and take (`PortStep`).

*Only model-checked:* everything about values (`Values`): the walks thread their
sets through RECURSIVE operators, which the provers do not take.
Liveness under fairness is out of the prover's reach and stays with TLC.

## Where the code and its documentation differ

Two are runs that TLC ends with a counterexample.

| run | the code | what is said |
|---|---|---|
| `dispose_skips_close` | `gracefulTerminate` sets `closed`, then calls `closeAllActors`, which returns at once on a closed node: no actor is closed, and close_all is never sent | README.md:92 "close actors, drain, terminate workers" |
| `two_actors_per_key` | overlapping `getOrSpawn` calls of one key each create an actor | README.md:42 "returns one actor per key (same proxy until `destroy`)" |

Others are the exceptions that properties name:

- a timed-out call is rejected while its method runs on, and the next starts
  beside it (`OverlapOnlyAfterTimeout`, `OverlapExplained`); README.md:173 "calls
  do not overlap on that instance". A call through a reference on the actor's
  own worker overlaps too;
- dispose drains posted requests only; a call waiting in a mailbox is posted to
  a terminated thread and never settles, and another worker whose method awaits
  that call then drains forever (`DisposeEnds`, `CallsSettle`); a destroy that
  waits behind another of the same actor never settles either (`Stranded` of
  `EveryOperationSettles`); README.md:164 "drain in-flight work, then terminate
  workers";
- `dispose({ closeActors: false })` in the turn in which calls were made finds
  nothing pending and drains at once: the first task of each mailbox then posts,
  and is rejected with "Runtime is disposed" while its thread was alive (the
  *ending* case of `DisposeWaits`); README.md:164 as above and runtime.ts:307
  "wait for in-flight calls";
- two actors that call each other, or a callback that calls the actor it was
  passed to, wait for each other without a call timeout (`Hopeless`);
- callbacks of a call that timed out are gone for invocations already on their
  way, and so may be those of a call that has returned for an invocation that comes
  back to them through a function an actor returned (`InvokesServed`);
  README.md:123 "plus in-flight invokes". Those passed from worker to worker are
  never released;
- `getOrSpawn` takes other arguments for those of the key when a property of
  the key's is undefined (`{a: undefined}` and `{b: 1}`), and when they are proxies
  of different actors (`ComparesWholeArgs`); README.md:178 "Reusing a key with a
  different class or constructor args throws";
- a spawn during another's registration of the class finds it registered and
  fails with "Unknown class" (`OwnRegisterSuffices` speaks of one's own);
  runtime.ts:182 "Auto-registers the class on first use if needed";
- the host keeps the result of a worker's write to another worker's stream for
  its own proxy, and the writer is never called back (`WriteSettles` speaks of
  streams the host owns or writes to); stream-router.ts:3 "write acks to the
  right consumers".

There are more, without a word of the documentation against them, stated so
that the properties hold of the code as it is: `EveryCallSettles` leaves out
calls behind a destroy (it has no timeout, and a dead thread never answers),
`DisposeEndsThread`, `DisposeCompletes` and `DisposeEnds` leave out an entry left
by a failed clone (`request()` records it before `postMessage` throws): of a
create or an invocation of a callback, or of a call without a timeout, it stays,
the scheduler counts it, and dispose waits forever (`LeftPending`, `StaysForEver`),
`KeyedIsLive` leaves out actors destroyed through another proxy. Of streams,
`FirstMissesNothing` and `ReaderSeesEnd` leave out four things the code does: a
stream in an argument of a bridged call loses what arrives while the target is
busy; a stream that its owner destroys silently, or whose thread dies, leaves
its reader waiting; so does a drop by one of several consumers; and a program
that pauses while a request for more is unanswered (`reading` stays true) asks
for nothing when it resumes. `EndMeansAll` promises every chunk only to the first
program that is given the stream: one it was passed on to gets nothing of what
was emitted before it was subscribed, and may see the end without a single chunk. `HostSurvivesUnshared` leaves out a second writer:
when the first ends, its close drops the host's entry, and the second's write
throws in a handler nobody awaits. `InOrder` and `EndMeansAll` leave out a
stream that is passed on after a drop: of three sides that hold it, one drops its
proxy, the router forgets all three, what is emitted then is lost to the others,
and a reference that reaches one of them again subscribes it with its proxy still
open, which goes on after a silent gap or ends without the last chunks.

## Not modelled

- The worker's close_all and callback_release handlers: nothing sends these
  messages.
- Of bridged calls: how one whose arguments cannot be cloned is rejected
  (`WorkerNode`), and arguments that cannot be encoded, which leave nothing.
- Of bridged calls: what they carry. A result that refers to an actor destroyed
  meanwhile throws in a port handler nobody awaits and ends the thread; in
  `Bridge` that is a `Crash` without its reason.
- Of callbacks: several functions in one call, functions in arguments and
  results of callbacks, crashes (the `'error'` event settles a call as its timer
  does), dispose (threads end, `clear` empties the host's registry).
- Of values: data shaped like a reference (decode resolves it as one), what is
  inside instances of classes, `NaN` (which never equals itself), streams (tagged
  as actors are).
- Of streams: `closeAll` at dispose, a write that is queued behind an `end()` still under
  way (in node it makes the real stream fail as well; here it is only a write that
  fails), duplex streams as a whole (the halves are
  modelled, their joint close is not), `objectMode`, several streams at once
  (entries and subscriptions are keyed by stream and independent).
- `hashKey`: a constant function of the key, four lines of 32-bit arithmetic that
  no step depends on but through its value. `Runtime` takes arguments as equal or
  not; how they are compared is in `Values`.
- In `Runtime`: worker crashes, method calls (which may be ahead of a destroy in
  its mailbox) and their timeouts, both the subject of `WorkerNode`, as is the
  order of microtasks within a turn (a destroy and a dispose of one turn), and the
  closing of host streams and callbacks at the end of `dispose`.
- Actor metadata, message and type declarations, path handling: nothing changes
  state there.
- Method names and argument contents beyond whether they can be sent.

## Plan

All modules planned exist. What remains worth doing, most important first.

1. An abstract specification of a stream (a program sees a prefix of what was
   emitted, and the end after all of it) that `Streams` implements while the
   stream is given once.
2. `closeAll` of the host's streams at the end of dispose; several functions per
   call in `Callbacks`.
