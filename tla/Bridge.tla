------------------------------- MODULE Bridge -------------------------------
(***************************************************************************)
(* Calls that cross: methods of one worker call actors of another, through *)
(* the host and the mailboxes of its WorkerNodes, and invoke callbacks of   *)
(* the host and of other workers, which have no mailbox; callbacks of the   *)
(* host call actors again.  The host may dispose the runtime and threads    *)
(* may die meanwhile.                                                      *)
(*                                                                         *)
(* A step of the host is one macrotask with the microtasks it leaves: a     *)
(* mailbox task starts in the step in which its turn comes.  What happens   *)
(* between one node and its own thread in finer steps is in WorkerNode.     *)
(***************************************************************************)
EXTENDS Naturals, Sequences, FiniteSets, SequencesExt

CONSTANTS
  Host, Workers,
  Actors,     \* live actors
  Functions,  \* registered callbacks
  Home,       \* the side an actor or a callback lives on
  Timeouts,   \* with or without callTimeoutMs
  MaxCalls,   \* bound: how many calls are made; a crash counts for one, and so
              \* does what could not be cloned
  MaxCrashes  \* bound: how many threads die

Sides == Workers \cup {Host}

ASSUME BridgeAssumption ==
  /\ Host \notin Workers
  /\ Actors \cap Functions = {}
  /\ Home \in [Actors \cup Functions -> Sides]
  /\ \A a \in Actors : Home[a] # Host
  /\ Timeouts \subseteq BOOLEAN
  /\ MaxCalls \in Nat /\ MaxCrashes \in Nat

User == 0  \* who calls: user code on the host, or the method of a call

VARIABLES
  callTimeout, \* is callTimeoutMs configured?
  calls,       \* all calls so far: who made it, of what, and its promise there
  mailbox,     \* calls of each actor that have not settled, in order
  pending,     \* the calls whose request each node tracks
  leftover,    \* the kinds of request that stay in its `pending`: post() threw
  unclonable,  \* mailbox tasks whose post() will throw: who waits, after which call
  phase,       \* gracefulTerminate of each node; `closed` unless "open"
  toWorker, toHost,
  running,     \* calls whose method or callback has not returned
  crashed,     \* threads that died
  notices      \* 'error' events the host has not handled

leftVars == <<leftover, unclonable>>
vars == <<callTimeout, calls, mailbox, pending, leftVars, phase, toWorker, toHost,
          running, crashed, notices>>

Kinds == {"call", "invoke"}
Call == [by : Nat, target : Actors \cup Functions, settled : BOOLEAN]
Issued == DOMAIN calls
Target(c) == calls[c].target
IsMethod(c) == Target(c) \in Actors

\* the side on which c runs, and the one that awaits it
Side(c) == IF c = User THEN Host ELSE Home[Target(c)]
Caller(c) == Side(calls[c].by)

\* A reference to an actor of the same worker is decoded to the instance.
Direct(c) == IsMethod(c) /\ Caller(c) = Side(c)

Alive(w) == w \notin crashed /\ phase[w] # "stopped"
Open(w) == phase[w] = "open"

Init ==
  /\ callTimeout \in Timeouts
  /\ calls = <<>>
  /\ mailbox = [a \in Actors |-> <<>>]
  /\ pending = [w \in Workers |-> {}]
  /\ leftover = [w \in Workers |-> {}] /\ unclonable = {}
  /\ phase = [w \in Workers |-> "open"]
  /\ toWorker = [w \in Workers |-> <<>>]
  /\ toHost = [w \in Workers |-> <<>>]
  /\ running = {}
  /\ crashed = {} /\ notices = {}

-----------------------------------------------------------------------------
(* Ports and promises.                                                     *)

Msg(kind, c) == [kind |-> kind, call |-> c]

\* post(): what is posted to a thread that is gone is lost, as is its port
DeliverIn(nodes, posted) ==
  toWorker' = [w \in Workers |-> IF w \in crashed \/ nodes[w] = "stopped" THEN <<>>
                                 ELSE toWorker[w] \o posted[w]]

Deliver(posted) == DeliverIn(phase, posted)

Only(side, ms) == [w \in Workers |-> IF w = side THEN ms ELSE <<>>]

WorkerPosts(w, m) == toHost' = [toHost EXCEPT ![w] = Append(@, m)]

Settled(cs) == [c \in Issued |-> IF c \in cs THEN [calls[c] EXCEPT !.settled = TRUE] ELSE calls[c]]

\* the task after the one that is served
Second(a) == IF Len(mailbox[a]) > 1 THEN {mailbox[a][2]} ELSE {}

\* the calls whose turn comes when cs settle
NextTasks(cs) ==
  UNION {Second(a) : a \in {b \in Actors : mailbox[b] # <<>> /\ Head(mailbox[b]) \in cs}}

\* the results of cs for the calls of worker w that await them
Results(cs, w) ==
  LET due == SetToSeq({c \in cs : Caller(c) = w}) IN
  [i \in DOMAIN due |-> Msg("result", due[i])]

\* mutant: notifyDrain does not end the node
PhaseAfter_NoDrain(w, left, stay) == phase[w]

\* the phase of node w once only `left` and `stay` are in its `pending`: if that
\* is nothing drain ends, and the thread stops
PhaseAfter(w, left, stay) ==
  IF phase[w] = "draining" /\ left = {} /\ stay = {} THEN "stopped" ELSE phase[w]

\* Of what could not be cloned `stay` is still in node w's `pending` when cs have
\* settled. The tasks behind cs that cannot be cloned have had their turn: their
\* callers are rejected, and their requests stay.
Leave(w, cs, stay) ==
  /\ leftover' = [leftover EXCEPT ![w] =
       stay \cup IF \E u \in unclonable : u.after \in cs THEN {"call"} ELSE {}]
  /\ unclonable' = {u \in unclonable : u.after \notin cs}

\* The requests of cs settle, node w goes on to phase ph: the promises of host
\* code settle, those of methods get a result, the next tasks start.
Settle(w, cs, ph) ==
  /\ phase' = [phase EXCEPT ![w] = ph]
  /\ calls' = Settled({c \in cs : Caller(c) = Host})
  /\ mailbox' = [a \in Actors |-> IF mailbox[a] # <<>> /\ Head(mailbox[a]) \in cs
                                  THEN Tail(mailbox[a]) ELSE mailbox[a]]
  /\ pending' = [pending EXCEPT ![w] = (@ \ cs) \cup NextTasks(cs)]
  /\ running' = {c \in running : Side(c) = w => ph # "stopped"}
  /\ DeliverIn(phase', [v \in Workers |->
       Results(cs, v) \o (IF v # w THEN <<>> ELSE
         LET start == SetToSeq(NextTasks(cs)) IN [i \in DOMAIN start |-> Msg("call", start[i])])])

-----------------------------------------------------------------------------
(* A call is made, by user code on the host, a callback of the host, or a    *)
(* method or callback of a worker.                                          *)

NotCloned ==
  Cardinality(unclonable) + Cardinality({x \in Workers \X Kinds : x[2] \in leftover[x[1]]})

\* the bound on calls, with crashes and what was not cloned on top
Within ==
  /\ Len(calls) < MaxCalls
  /\ Len(calls) + Cardinality(crashed) + NotCloned < MaxCalls

Begins(p, t, settled) ==
  /\ Within
  /\ p = User \/ p \in running
  /\ calls' = Append(calls, [by |-> p, target |-> t, settled |-> settled])
  /\ UNCHANGED <<callTimeout, leftVars, phase, crashed, notices>>

\* mutant: the id is that of the request before
New_Last == Len(calls)

New == Len(calls) + 1

\* mutant: tasks are not chained
Enqueue_Unchained(c, a) ==
  /\ mailbox' = [mailbox EXCEPT ![a] = Append(@, c)]
  /\ pending' = [pending EXCEPT ![Home[a]] = @ \cup {c}]
  /\ Deliver(Only(Home[a], <<Msg("call", c)>>))

\* enqueue, and doCall if it is the actor's only task
Enqueue(c, a) ==
  /\ mailbox' = [mailbox EXCEPT ![a] = Append(@, c)]
  /\ IF mailbox[a] = <<>>
     THEN /\ pending' = [pending EXCEPT ![Home[a]] = @ \cup {c}]
          /\ Deliver(Only(Home[a], <<Msg("call", c)>>))
     ELSE UNCHANGED <<pending, toWorker>>

\* invokeWorkerCallback: neither mailbox nor timeout, and no assertOpen
InvokeWorkerCallback(c, f) ==
  /\ pending' = [pending EXCEPT ![Home[f]] = @ \cup {c}]
  /\ Deliver(Only(Home[f], <<Msg("invoke", c)>>))

\* host code calls an actor through its proxy
HostCalls(p, a) ==
  /\ Side(p) = Host
  /\ UNCHANGED <<toHost, running>>
  /\ IF Open(Home[a])
     THEN Begins(p, a, FALSE) /\ Enqueue(New, a)
     ELSE Begins(p, a, TRUE) /\ UNCHANGED <<mailbox, pending, toWorker>>

\* host code invokes a callback of a worker
HostInvokes(p, f) ==
  /\ Side(p) = Host /\ Home[f] # Host
  /\ Begins(p, f, FALSE)
  /\ InvokeWorkerCallback(New, f)
  /\ UNCHANGED <<mailbox, toHost, running>>

\* Host code passes an argument that postMessage cannot clone. The promise is
\* rejected when post() throws, which for a method is when its turn comes; the
\* request is in `pending` by then. A thread that is gone clones nothing.
Unclonable(p, w) ==
  /\ Within
  /\ p = User \/ p \in running
  /\ Side(p) = Host
  /\ phase[w] # "stopped" /\ w \notin crashed \ notices
  /\ UNCHANGED <<callTimeout, calls, mailbox, pending, phase, toWorker, toHost,
                 running, crashed, notices>>

HostCallsUnclonable(p, a) ==
  /\ Unclonable(p, Home[a]) /\ Open(Home[a])
  /\ IF mailbox[a] = <<>>
     THEN /\ leftover' = [leftover EXCEPT ![Home[a]] = @ \cup {"call"}]
          /\ UNCHANGED unclonable
     ELSE /\ unclonable' = unclonable \cup {[by |-> p, after |-> Last(mailbox[a])]}
          /\ UNCHANGED leftover

HostInvokesUnclonable(p, f) ==
  /\ Home[f] # Host
  /\ Unclonable(p, Home[f])
  /\ leftover' = [leftover EXCEPT ![Home[f]] = @ \cup {"invoke"}]
  /\ UNCHANGED unclonable

\* a method calls a stub: of an actor of another worker, or of a callback
StubCalls(p, t) ==
  /\ Side(p) # Host
  /\ t \in Actors => Home[t] # Side(p)
  /\ Begins(p, t, FALSE)
  /\ WorkerPosts(Side(p), Msg(IF t \in Actors THEN "call" ELSE "invoke", New))
  /\ UNCHANGED <<mailbox, pending, toWorker, running>>

\* a method calls an actor of its own worker
DirectCalls(p, a) ==
  /\ Side(p) = Home[a]
  /\ Begins(p, a, FALSE)
  /\ running' = running \cup {New}
  /\ UNCHANGED <<mailbox, pending, toWorker, toHost>>

-----------------------------------------------------------------------------
(* Messages to the host.                                                   *)

Take(w, kind) ==
  /\ toHost[w] # <<>> /\ Head(toHost[w]).kind = kind
  /\ toHost' = [toHost EXCEPT ![w] = Tail(@)]
  /\ UNCHANGED <<callTimeout, crashed, notices>>

\* mutant: a refused call is not answered
HandleBridgeCall_NoCatch(w) ==
  LET c == Head(toHost[w]).call IN
  /\ Take(w, "call")
  /\ IF Open(Side(c))
     THEN Enqueue(c, Target(c))
     ELSE UNCHANGED <<mailbox, pending, toWorker>>
  /\ UNCHANGED <<calls, leftVars, phase, running>>

HandleBridgeCall(w) ==
  LET c == Head(toHost[w]).call IN
  /\ Take(w, "call")
  /\ IF Open(Side(c))
     THEN Enqueue(c, Target(c))
     ELSE Deliver(Only(w, <<Msg("result", c)>>)) /\ UNCHANGED <<mailbox, pending>>
  /\ UNCHANGED <<calls, leftVars, phase, running>>

HandleBridgeCallbackInvoke(w) ==
  LET c == Head(toHost[w]).call IN
  /\ Take(w, "invoke")
  /\ IF Side(c) = Host
     THEN running' = running \cup {c} /\ UNCHANGED <<pending, toWorker>>
     ELSE InvokeWorkerCallback(c, Target(c)) /\ UNCHANGED running
  /\ UNCHANGED <<calls, mailbox, leftVars, phase>>

\* the answer of a request; one that timed out is not awaited any more
OnAnswer(w) ==
  LET c == Head(toHost[w]).call IN
  /\ Take(w, "answer")
  /\ IF c \in pending[w]
     THEN /\ Settle(w, {c}, PhaseAfter(w, pending[w] \ {c}, leftover[w]))
          /\ Leave(w, {c}, leftover[w])
     ELSE UNCHANGED <<calls, mailbox, pending, leftVars, phase, toWorker, running>>

HostReceives(w) ==
  \/ HandleBridgeCall(w) \/ HandleBridgeCallbackInvoke(w)
  \/ OnAnswer(w)

-----------------------------------------------------------------------------
(* Other macrotasks of the host.                                           *)

\* mutant: the timer rejects the caller's promise but the task goes on
TimerFires_KeepsTask(w, c) ==
  /\ callTimeout /\ c \in pending[w] /\ IsMethod(c)
  /\ calls' = Settled({d \in {c} : Caller(d) = Host})
  /\ pending' = [pending EXCEPT ![w] = @ \ {c}]
  /\ UNCHANGED <<callTimeout, mailbox, leftVars, phase, toWorker, toHost, running,
                 crashed, notices>>

\* only calls of methods have a timeout
TimerFires(w, c) ==
  /\ callTimeout /\ c \in pending[w] /\ IsMethod(c)
  /\ Settle(w, {c}, PhaseAfter(w, pending[w] \ {c}, leftover[w]))
  /\ Leave(w, {c}, leftover[w])
  /\ UNCHANGED <<callTimeout, toHost, crashed, notices>>

\* It was set before post() threw, and takes out what stayed.
LeftoverTimerFires(w) ==
  /\ callTimeout /\ "call" \in leftover[w]
  /\ Settle(w, {}, PhaseAfter(w, pending[w], leftover[w] \ {"call"}))
  /\ Leave(w, {}, leftover[w] \ {"call"})
  /\ UNCHANGED <<callTimeout, toHost, crashed, notices>>

\* The 'error' event rejects what is pending.  If drain waits, it is over; else
\* the node stays open.
WorkerError(w) ==
  /\ w \in notices
  /\ notices' = notices \ {w}
  /\ Settle(w, pending[w], PhaseAfter(w, {}, {}))
  /\ Leave(w, pending[w], {})
  /\ UNCHANGED <<callTimeout, toHost, crashed>>

\* a callback of the host returns
HostReturns(c) ==
  /\ c \in running /\ Side(c) = Host
  /\ running' = running \ {c}
  /\ Deliver(Only(Caller(c), <<Msg("result", c)>>))
  /\ UNCHANGED <<callTimeout, calls, mailbox, pending, leftVars, phase, toHost, crashed, notices>>

\* dispose: gracefulTerminate of all nodes, which drain what is pending
Dispose ==
  /\ \A w \in Workers : Open(w)
  /\ phase' = [w \in Workers |-> IF pending[w] = {} /\ leftover[w] = {}
                                THEN "stopped" ELSE "draining"]
  /\ running' = {c \in running : Side(c) # Host => phase'[Side(c)] # "stopped"}
  /\ DeliverIn(phase', [w \in Workers |-> <<>>])
  /\ UNCHANGED <<callTimeout, calls, mailbox, pending, leftVars, toHost, crashed, notices>>

-----------------------------------------------------------------------------
(* The threads.                                                            *)

Handles(w, kind) ==
  /\ Alive(w)
  /\ toWorker[w] # <<>> /\ Head(toWorker[w]).kind = kind
  /\ toWorker' = [toWorker EXCEPT ![w] = Tail(@)]
  /\ UNCHANGED <<callTimeout, mailbox, pending, leftVars, phase, crashed, notices>>

\* One that is not found, or throws at once, is one that returns at once.
HandleCall(w) ==
  /\ Handles(w, "call") \/ Handles(w, "invoke")
  /\ running' = running \cup {Head(toWorker[w]).call}
  /\ UNCHANGED <<calls, toHost>>

\* bridgePending settles
HandleResult(w) ==
  /\ Handles(w, "result")
  /\ calls' = Settled({Head(toWorker[w]).call})
  /\ UNCHANGED <<toHost, running>>

WorkerReceives(w) == HandleCall(w) \/ HandleResult(w)

\* a method, or a callback of a worker, returns or throws
WorkerReturns(c) ==
  /\ c \in running /\ Side(c) # Host
  /\ running' = running \ {c}
  /\ IF Direct(c)
     THEN calls' = Settled({c}) /\ UNCHANGED toHost
     ELSE WorkerPosts(Side(c), Msg("answer", c)) /\ UNCHANGED calls
  /\ UNCHANGED <<callTimeout, mailbox, pending, leftVars, phase, toWorker, crashed, notices>>

Crash(w) ==
  /\ Alive(w) /\ Cardinality(crashed) < MaxCrashes
  /\ Within
  /\ crashed' = crashed \cup {w}
  /\ notices' = notices \cup {w}
  /\ running' = {c \in running : Side(c) # w}
  /\ toWorker' = [toWorker EXCEPT ![w] = <<>>]
  /\ UNCHANGED <<callTimeout, calls, mailbox, pending, leftVars, phase, toHost>>

Returns(c) == HostReturns(c) \/ WorkerReturns(c)

Next ==
  \/ \E p \in {User} \cup running :
       \/ \E a \in Actors : HostCalls(p, a) \/ HostCallsUnclonable(p, a) \/ DirectCalls(p, a)
       \/ \E f \in Functions : HostInvokes(p, f) \/ HostInvokesUnclonable(p, f)
       \/ \E t \in Actors \cup Functions : StubCalls(p, t)
  \/ \E w \in Workers :
       \/ HostReceives(w) \/ WorkerReceives(w)
       \/ WorkerError(w) \/ Crash(w)
       \/ LeftoverTimerFires(w)
       \/ \E c \in pending[w] : TimerFires(w, c)
  \/ \E c \in running : Returns(c)
  \/ Dispose

Spec == Init /\ [][Next]_vars

\* What c's code awaits: every call it made, at most.
Made(c) == {d \in Issued : calls[d].by = c}
Awaits(c) == {d \in Made(c) : ~calls[d].settled}

\* the mailbox call behind which a call of c waits that cannot be cloned
AwaitsTurn(c) == {u.after : u \in {v \in unclonable : v.by = c}}

\* Event loops, ports and timers make progress, and a method returns when all
\* its own calls have settled.
Fairness ==
  /\ \A w \in Workers :
       /\ WF_vars(HostReceives(w)) /\ WF_vars(WorkerReceives(w))
       /\ WF_vars(WorkerError(w)) /\ WF_vars(LeftoverTimerFires(w))
       /\ \A c \in 1..MaxCalls : WF_vars(TimerFires(w, c))
  /\ \A c \in 1..MaxCalls : WF_vars(
       c \in Issued /\ Awaits(c) = {} /\ AwaitsTurn(c) = {} /\ Returns(c))

FairSpec == Spec /\ Fairness

-----------------------------------------------------------------------------
(* Safety.                                                                 *)

\* Every variable holds a value of its kind.
TypeOK ==
  /\ callTimeout \in BOOLEAN
  /\ calls \in Seq(Call) /\ Len(calls) <= MaxCalls
  /\ mailbox \in [Actors -> Seq(Issued)]
  /\ pending \in [Workers -> SUBSET Issued]
  /\ leftover \in [Workers -> SUBSET Kinds]
  /\ unclonable \subseteq [by : {User} \cup Issued, after : Issued]
  /\ phase \in [Workers -> {"open", "draining", "stopped"}]
  /\ toWorker \in [Workers -> Seq([kind : {"call", "invoke", "result"}, call : Issued])]
  /\ toHost \in [Workers -> Seq([kind : {"call", "invoke", "answer"}, call : Issued])]
  /\ running \subseteq Issued
  /\ crashed \subseteq Workers /\ notices \subseteq crashed

InPort(port, kinds, c) == \E i \in DOMAIN port : port[i].kind \in kinds /\ port[i].call = c

\* a call whose turn in its mailbox has not come
Queued(c) == c \in ToSet(mailbox[Target(c)]) /\ Head(mailbox[Target(c)]) # c

\* Where the request of a call is, of which its worker tracks the answer.
AtWorker(c) ==
  LET w == Side(c) IN
  {place \in {"asked", "running", "answered"} :
     \/ place = "asked" /\ InPort(toWorker[w], {"call", "invoke"}, c)
     \/ place = "running" /\ c \in running
     \/ place = "answered" /\ InPort(toHost[w], {"answer"}, c)}

\* Where a call is whose promise has not settled.
Whereabouts(c) ==
  {place \in {"out", "queued", "pending", "local", "back"} :
     \/ place = "out" /\ Caller(c) # Host /\ InPort(toHost[Caller(c)], {"call", "invoke"}, c)
     \/ place = "queued" /\ IsMethod(c) /\ Queued(c)
     \/ place = "pending" /\ Side(c) # Host /\ c \in pending[Side(c)]
     \/ place = "local" /\ c \in running /\ (Direct(c) \/ Side(c) = Host)
     \/ place = "back" /\ Caller(c) # Host /\ InPort(toWorker[Caller(c)], {"result"}, c)}

\* No call gets lost or doubled between stubs, ports, mailboxes and results: one
\* that has not settled is in one place, and so is the request its node tracks,
\* as long as no thread died or was stopped.
NoCallLost ==
  (\A w \in Workers : Alive(w)) =>
    \A c \in Issued : ~calls[c].settled =>
      /\ Cardinality(Whereabouts(c)) = 1
      /\ Whereabouts(c) = {"pending"} => Cardinality(AtWorker(c)) = 1

\* Methods of one actor overlap only if the host gave up on one of them, or one
\* was called through a reference on the actor's own worker, past the mailbox.
OverlapExplained ==
  \A c, d \in running :
    c # d /\ Target(c) = Target(d) /\ IsMethod(c) =>
      \/ Direct(c) \/ Direct(d)
      \/ {c, d} \cap pending[Side(c)] # {c, d}

-----------------------------------------------------------------------------
(* Liveness.                                                               *)

\* c cannot go on before d does: its method awaits d, or d is served before it.
WaitsFor(c, d) ==
  \/ c \in running /\ d \in Awaits(c) \cup AwaitsTurn(c)
  \/ IsMethod(c) /\ Queued(c) /\ d = Head(mailbox[Target(c)])

\* The thread of c is gone, and the host has handled its 'error' event.
Gone(c) == Side(c) # Host /\ ~Alive(Side(c)) /\ Side(c) \notin notices

\* only methods called through the host have a timeout
HasTimeout(c) == callTimeout /\ IsMethod(c) /\ ~Direct(c)

\* c will never end by itself: calls without timeout wait for each other, or for
\* one whose thread is gone.
Hopeless(c) ==
  \E S \in SUBSET {d \in Issued : ~HasTimeout(d)} :
    c \in S /\ \A x \in S : Gone(x) \/ \E y \in S : WaitsFor(x, y)

Waiting(c) == c \in Issued /\ ~calls[c].settled /\ (Caller(c) # Host => Alive(Caller(c)))

\* Every call comes back to its caller, from whichever side, also when threads
\* die or are stopped; what hangs waits for one of its own kind, or for a thread
\* that is gone, and has no timeout.
CallsSettle == \A c \in 1..MaxCalls : Waiting(c) ~> ~Waiting(c) \/ Hopeless(c)

\* a request that was never posted stays in node w's `pending`, with no timer
StaysForEver(w) == leftover[w] \ (IF callTimeout THEN {"call"} ELSE {}) # {}

\* Dispose ends every thread, although methods of one await the other, unless a
\* drain waits for a call that hangs, or for a request that could not be cloned
\* and has no timeout.
DisposeEnds ==
  (\E w \in Workers : ~Open(w)) ~>
    \A w \in Workers :
      phase[w] = "stopped" \/ StaysForEver(w) \/ \E c \in pending[w] : Hopeless(c)
=============================================================================
