------------------------------ MODULE Callbacks ------------------------------
(***************************************************************************)
(* The life of a function that crosses a port: where it is sent from it is  *)
(* registered (callback-registry.ts), where it arrives a stub stands for    *)
(* it.  A stub that is sent on is registered again, as the function it is:  *)
(* an invocation then goes from registry to registry.  The entry of an      *)
(* argument is released when the host's call settles, that of a result when *)
(* its actor is destroyed.                                                 *)
(*                                                                         *)
(* A step of the host is one macrotask with its microtasks, and one of a    *)
(* thread is one message or one method that returns.                       *)
(***************************************************************************)
EXTENDS Naturals, Sequences, FiniteSets, SequencesExt

CONSTANTS
  Host, Workers, Actors, NoActor,
  Home,       \* the worker of each actor
  MaxCalls,   \* bound: how many calls are made
  MaxDestroys,\* bound: how many destroys
  MaxEntries, \* bound: code passes no function once so many are registered
  MaxInvokes  \* bound: how many invocations are begun

Sides == Workers \cup {Host}

ASSUME CallbacksAssumption ==
  /\ Host \notin Workers /\ NoActor \notin Actors
  /\ Home \in [Actors -> Workers]
  /\ {MaxCalls, MaxDestroys, MaxEntries, MaxInvokes} \subseteq Nat

User == 0   \* who makes a call: user code on the host, or the method of a call
Own == 0    \* a function of the side it is sent from; a positive number is the
            \* stub of that entry

VARIABLES
  calls,     \* all calls and destroys, with the functions they pass
  mailboxes, \* the last task of each actor's mailbox, or 0
  running,   \* calls whose method (destroys whose close) has not returned
  objects,   \* actors their worker knows
  entries,   \* every entry made, of all registries, and whether it is live
  held,      \* the entries each side has a stub of
  toWorker, toHost,
  invokes,   \* how many invocations were begun
  gaveUp,    \* history: calls that timed out
  hasty      \* history: calls whose method did not await the calls it made

vars == <<calls, mailboxes, running, objects, entries, held, toWorker, toHost,
          invokes, gaveUp, hasty>>

Issued == DOMAIN calls
Entries == DOMAIN entries
Side(c) == IF c = User THEN Host ELSE Home[calls[c].actor]
Caller(c) == Side(calls[c].by)

\* what code on a side can pass: nothing, a function of its own, a stub
Passed(side) ==
  {{}} \cup {{e} : e \in IF Len(entries) < MaxEntries THEN {Own} \cup held[side] ELSE {}}

Init ==
  /\ calls = <<>>
  /\ mailboxes = [a \in Actors |-> 0]
  /\ running = {}
  /\ objects = Actors
  /\ entries = <<>>
  /\ held = [s \in Sides |-> {}]
  /\ toWorker = [w \in Workers |-> <<>>]
  /\ toHost = [w \in Workers |-> <<>>]
  /\ invokes = 0
  /\ gaveUp = {} /\ hasty = {}

-----------------------------------------------------------------------------
(* The registries.                                                         *)

\* register every function of fs at a side: for a call, bound to an actor, or
\* neither
Register(es, at, fs, scope, actor) ==
  es \o [i \in 1..Cardinality(fs) |->
           [at |-> at, fn |-> SetToSeq(fs)[i], scope |-> scope, actor |-> actor, live |-> TRUE]]

\* mutant: the id is taken before it is incremented
Refs_Last(es, fs) == Len(es) .. Len(es) + Cardinality(fs) - 1

\* the entries that Register makes
Refs(es, fs) == Len(es) + 1 .. Len(es) + Cardinality(fs)

Unscoped == 0

Release(es, dropped) ==
  [e \in DOMAIN es |-> [es[e] EXCEPT !.live = @ /\ e \notin dropped]]

\* mutant: the finally block is left out
ReleaseCallScoped_Never(es, c) == es

ReleaseCallScoped(es, c) == Release(es, {e \in DOMAIN es : es[e].scope = c})

\* mutant: by the actor's id alone, in the registry of the host
ReleaseBoundToObject_Host(es, a) ==
  Release(es, {e \in DOMAIN es : es[e].actor = a /\ es[e].at = Host})

ReleaseBoundToObject(es, a) == Release(es, {e \in DOMAIN es : es[e].actor = a})

-----------------------------------------------------------------------------
(* Mailboxes and ports.                                                    *)

CallMsg(c, refs) == [kind |-> "call", call |-> c, refs |-> refs]
Answer(c, refs) == [kind |-> "answer", call |-> c, refs |-> refs]
Result(c, refs) == [kind |-> "result", call |-> c, refs |-> refs]
Invoke(e, due) == [kind |-> "invoke", entry |-> e, due |-> due]

OnWorker(w, ms) == [v \in Workers |-> IF v = w THEN ms ELSE <<>>]

Done(c) == c = 0 \/ calls[c].st \in {"answered", "settled"}

\* mutant: the callbacks are released once the request is posted
Start_ReleasesEarly(c, fs, es, first) ==
  /\ entries' = ReleaseCallScoped(Register(es, Host, fs, c, NoActor), c)
  /\ toWorker' = [w \in Workers |-> toWorker[w] \o first[w]
                     \o OnWorker(Home[calls'[c].actor], <<CallMsg(c, Refs(es, fs))>>)[w]]

\* doCall encodes the functions fs of c and posts its request, behind the
\* messages `first`
Start(c, fs, es, first) ==
  /\ entries' = Register(es, Host, fs, c, NoActor)
  /\ toWorker' = [w \in Workers |-> toWorker[w] \o first[w]
                     \o OnWorker(Home[calls'[c].actor], <<CallMsg(c, Refs(es, fs))>>)[w]]

\* c joins the chain of its actor, and starts if nothing is before it
Enqueue(c, call) ==
  /\ mailboxes' = [mailboxes EXCEPT ![call.actor] = c]
  /\ LET prev == mailboxes[call.actor]
         starts == Done(prev)
         queued == [call EXCEPT !.prev = prev, !.st = IF starts THEN "sent" ELSE "queued"]
     IN /\ calls' = IF c \in Issued THEN [calls EXCEPT ![c] = queued] ELSE Append(calls, queued)
        /\ IF starts
           THEN Start(c, call.fns, entries, [w \in Workers |-> <<>>])
           ELSE UNCHANGED <<entries, toWorker>>

\* The request of c settles with the functions fs: its callbacks are released, a
\* call of a method gets its result, encoded again, and the next task starts.
Settle(c, fs) ==
  LET released == ReleaseCallScoped(entries, c)
      bridged == calls[c].by # User
      es == IF bridged THEN Register(released, Host, fs, Unscoped, NoActor) ELSE released
      result == IF bridged THEN OnWorker(Caller(c), <<Result(c, Refs(released, fs))>>)
                ELSE [w \in Workers |-> <<>>]
      next == {d \in Issued : calls[d].st = "queued" /\ calls[d].prev = c}
  IN
  /\ calls' = [d \in Issued |->
       IF d = c THEN [calls[d] EXCEPT !.st = IF bridged THEN "answered" ELSE "settled"]
       ELSE IF d \in next THEN [calls[d] EXCEPT !.st = "sent"] ELSE calls[d]]
  /\ held' = IF bridged THEN held ELSE [held EXCEPT ![Host] = @ \cup fs]
  /\ IF next = {}
     THEN entries' = es /\ toWorker' = [w \in Workers |-> toWorker[w] \o result[w]]
     ELSE \E d \in next : Start(d, calls[d].fns, es, result)

-----------------------------------------------------------------------------
(* Calls.                                                                  *)

NewCall(kind, p, a, fs) ==
  [kind |-> kind, by |-> p, actor |-> a, fns |-> fs, prev |-> 0, st |-> "asked"]

OfKind(kind) == {c \in Issued : calls[c].kind = kind}
MayCall == Cardinality(OfKind("call")) < MaxCalls

\* the proxy of an actor that is not known to be destroyed
Known(a) == \A d \in OfKind("destroy") : calls[d].actor = a => ~Done(d)

\* user code calls an actor, and passes what it has
HostCalls(a, fs) ==
  /\ MayCall
  /\ fs \in Passed(Host)
  /\ Enqueue(Len(calls) + 1, NewCall("call", User, a, fs))
  /\ UNCHANGED <<running, objects, held, toHost, invokes, gaveUp, hasty>>

HostDestroys(a) ==
  /\ Cardinality(OfKind("destroy")) < MaxDestroys /\ Known(a)
  /\ Enqueue(Len(calls) + 1, NewCall("destroy", User, a, {}))
  /\ UNCHANGED <<running, objects, held, toHost, invokes, gaveUp, hasty>>

\* a method calls an actor of another worker; its callbacks have no scope
StubCalls(p, a, fs) ==
  /\ MayCall
  /\ calls[p].kind = "call" /\ Home[a] # Side(p) /\ fs \in Passed(Side(p))
  /\ LET c == Len(calls) + 1  refs == Refs(entries, fs) IN
     /\ calls' = Append(calls, NewCall("call", p, a, refs))
     /\ entries' = Register(entries, Side(p), fs, Unscoped, NoActor)
     /\ toHost' = [toHost EXCEPT ![Side(p)] = Append(@, CallMsg(c, refs))]
  /\ UNCHANGED <<mailboxes, running, objects, held, toWorker, invokes, gaveUp, hasty>>

TakeHost(w, kind) ==
  /\ toHost[w] # <<>> /\ Head(toHost[w]).kind = kind
  /\ toHost' = [toHost EXCEPT ![w] = Tail(@)]

\* the host holds stubs of what the method passed, and passes those
HandleBridgeCall(w) ==
  LET c == Head(toHost[w]).call IN
  /\ TakeHost(w, "call")
  /\ Enqueue(c, calls[c])
  /\ UNCHANGED <<running, objects, held, invokes, gaveUp, hasty>>

\* the mailbox of an actor is forgotten when its destroy is answered
OnAnswer(w) ==
  LET m == Head(toHost[w])  c == m.call IN
  /\ TakeHost(w, "answer")
  /\ IF calls[c].st = "sent"
     THEN /\ Settle(c, m.refs)
          /\ mailboxes' = IF calls[c].kind = "destroy"
                          THEN [mailboxes EXCEPT ![calls[c].actor] = 0] ELSE mailboxes
     ELSE UNCHANGED <<calls, mailboxes, entries, held, toWorker>>
  /\ UNCHANGED <<running, objects, invokes, gaveUp, hasty>>

\* the timer of a call
TimerFires(c) ==
  /\ calls[c].kind = "call" /\ calls[c].st = "sent"
  /\ Settle(c, {})
  /\ gaveUp' = gaveUp \cup {c}
  /\ UNCHANGED <<mailboxes, running, objects, toHost, invokes, hasty>>

TakeWorker(w, kind) ==
  /\ toWorker[w] # <<>> /\ Head(toWorker[w]).kind = kind
  /\ toWorker' = [toWorker EXCEPT ![w] = Tail(@)]

\* the method, or the close of a destroy, begins; an actor that is gone is
\* answered at once
HandleCall(w) ==
  LET m == Head(toWorker[w])  c == m.call IN
  /\ TakeWorker(w, "call")
  /\ IF calls[c].actor \in objects
     THEN /\ running' = running \cup {c}
          /\ held' = [held EXCEPT ![w] = @ \cup m.refs]
          /\ UNCHANGED toHost
     ELSE /\ toHost' = [toHost EXCEPT ![w] = Append(@, Answer(c, {}))]
          /\ UNCHANGED <<running, held>>
  /\ UNCHANGED <<calls, mailboxes, objects, entries, invokes, gaveUp, hasty>>

\* A method returns what it has, bound to its actor, or an error: also after it
\* was encoded, if another part of it cannot be.
MethodReturns(c, fs) ==
  /\ c \in running /\ calls[c].kind = "call"
  /\ fs \in Passed(Side(c))
  /\ running' = running \ {c}
  /\ entries' = Register(entries, Side(c), fs, Unscoped, calls[c].actor)
  /\ \E refs \in {{}, Refs(entries, fs)} :
       toHost' = [toHost EXCEPT ![Side(c)] = Append(@, Answer(c, refs))]
  /\ hasty' = IF \E d \in Issued : calls[d].by = c /\ calls[d].st # "settled"
              THEN hasty \cup {c} ELSE hasty
  /\ UNCHANGED <<calls, mailboxes, objects, held, toWorker, invokes, gaveUp>>

\* the actor is forgotten, and what it returned is released
CloseReturns(c) ==
  /\ c \in running /\ calls[c].kind = "destroy"
  /\ running' = running \ {c}
  /\ objects' = objects \ {calls[c].actor}
  /\ entries' = ReleaseBoundToObject(entries, calls[c].actor)
  /\ toHost' = [toHost EXCEPT ![Side(c)] = Append(@, Answer(c, {}))]
  /\ UNCHANGED <<calls, mailboxes, held, toWorker, invokes, gaveUp, hasty>>

\* bridgePending settles with what the actor returned
HandleResult(w) ==
  LET m == Head(toWorker[w]) IN
  /\ TakeWorker(w, "result")
  /\ calls' = [calls EXCEPT ![m.call].st = "settled"]
  /\ held' = [held EXCEPT ![w] = @ \cup m.refs]
  /\ UNCHANGED <<mailboxes, running, objects, entries, toHost, invokes, gaveUp, hasty>>

-----------------------------------------------------------------------------
(* Invocations: a stub posts to the side of its entry, and an entry that is *)
(* a stub itself posts on from there.                                      *)

\* no destroy of the actor is on its way
Kept(a) ==
  \A d \in OfKind("destroy") : calls[d].actor = a => calls[d].st \in {"asked", "queued"}

\* Those to whom the documentation promises that entry e can be invoked, code of
\* calls and user code: a callback passed to this very call works while its
\* method runs; if the caller passed on what it was passed itself, while its own
\* method does.  One that was returned works until its actor is destroyed; if
\* that leads on to a callback of a call nothing is promised: the detour may
\* take longer than the answer of the call.
Promised[e \in 0..Len(entries)] ==
  {c \in Issued \cup {User} :
     \/ e = Own
     \/ LET x == entries[e] IN
        IF x.scope # Unscoped THEN x.scope = c /\ c \in running /\ calls[c].by \in Promised[x.fn]
        ELSE IF x.at = Host \/ x.actor # NoActor
        THEN (x.actor # NoActor => Kept(x.actor)) /\ User \in Promised[x.fn]
        ELSE c \in Promised[x.fn]}

\* side s posts an invocation of e: the host to the worker of e, a worker to
\* the host
Forward(s, e, due, up, down) ==
  IF s = Host
  THEN /\ toWorker' = [down EXCEPT ![entries[e].at] = Append(@, Invoke(e, due))]
       /\ toHost' = up
  ELSE /\ toHost' = [up EXCEPT ![s] = Append(@, Invoke(e, due))]
       /\ toWorker' = down

\* code of call c, or user code, invokes a stub
Invokes(c, e) ==
  /\ invokes < MaxInvokes
  /\ invokes' = invokes + 1
  /\ e \in held[Side(c)]
  /\ Forward(Side(c), e, c \in Promised[e], toHost, toWorker)
  /\ UNCHANGED <<calls, mailboxes, running, objects, entries, held, gaveUp, hasty>>

\* callbacks.invoke: an entry that is gone, or a function of this side, needs
\* nothing more
HandleInvoke(s, m, up, down) ==
  /\ LET x == entries[m.entry] IN
     IF x.live /\ x.fn # Own
     THEN LET bound == entries[x.fn].actor IN
          Forward(s, x.fn, m.due /\ (bound # NoActor => Kept(bound)), up, down)
     ELSE toHost' = up /\ toWorker' = down
  /\ UNCHANGED <<calls, mailboxes, running, objects, entries, held, invokes, gaveUp, hasty>>

HandleBridgeCallbackInvoke(w) ==
  /\ toHost[w] # <<>> /\ Head(toHost[w]).kind = "invoke"
  /\ HandleInvoke(Host, Head(toHost[w]), [toHost EXCEPT ![w] = Tail(@)], toWorker)

HandleCallbackInvoke(w) ==
  /\ toWorker[w] # <<>> /\ Head(toWorker[w]).kind = "invoke"
  /\ HandleInvoke(w, Head(toWorker[w]), toHost, [toWorker EXCEPT ![w] = Tail(@)])

-----------------------------------------------------------------------------
Next ==
  \/ \E a \in Actors :
       \/ \E fs \in Passed(Host) : HostCalls(a, fs)
       \/ HostDestroys(a)
       \/ \E p \in running : \E fs \in Passed(Side(p)) : StubCalls(p, a, fs)
  \/ \E w \in Workers :
       \/ HandleBridgeCall(w) \/ OnAnswer(w) \/ HandleBridgeCallbackInvoke(w)
       \/ HandleCall(w) \/ HandleResult(w) \/ HandleCallbackInvoke(w)
  \/ \E c \in Issued : TimerFires(c)
  \/ \E c \in running :
       \/ \E fs \in Passed(Side(c)) : MethodReturns(c, fs)
       \/ CloseReturns(c)
  \/ \E c \in running \cup {User} : \E e \in held[Side(c)] : Invokes(c, e)

Spec == Init /\ [][Next]_vars

-----------------------------------------------------------------------------
\* Every variable holds a value of its kind.
TypeOK ==
  /\ calls \in Seq([kind : {"call", "destroy"}, by : Issued \cup {User}, actor : Actors,
                    fns : SUBSET (Entries \cup {Own}), prev : Issued \cup {0},
                    st : {"asked", "queued", "sent", "answered", "settled"}])
  /\ mailboxes \in [Actors -> Issued \cup {0}]
  /\ running \subseteq Issued /\ objects \subseteq Actors
  /\ entries \in Seq([at : Sides, fn : Entries \cup {Own}, scope : Issued \cup {Unscoped},
                      actor : Actors \cup {NoActor}, live : BOOLEAN])
  /\ held \in [Sides -> SUBSET Entries]
  /\ \A w \in Workers : \A m \in ToSet(toWorker[w]) \cup ToSet(toHost[w]) :
       m \in [kind : {"call", "answer", "result"}, call : Issued, refs : SUBSET Entries]
         \cup [kind : {"invoke"}, entry : Entries, due : BOOLEAN]
  /\ invokes \in 0..MaxInvokes
  /\ gaveUp \subseteq Issued /\ hasty \subseteq Issued

\* An invocation on its way, through however many sides, never finds that the
\* answer of the call, or the destroy of the actor, was there first: what was
\* promised when it was begun is served, unless the host gave up on a call that
\* passed the function, or its method did not wait for the calls it made.
InvokesServed ==
  \A w \in Workers : \A m \in ToSet(toWorker[w]) \cup ToSet(toHost[w]) :
    m.kind = "invoke" /\ m.due =>
      entries[m.entry].live \/ entries[m.entry].scope \in gaveUp \cup hasty

\* No registry keeps what nobody may use: an argument's entry lives as long as
\* its call awaits the worker, whichever way it ends, and a result's as long as
\* its actor; but a method whose call was given up may return to an actor that
\* is gone.
KeptOnlyWhileNeeded ==
  \A e \in Entries : entries[e].live =>
    LET x == entries[e] IN
    /\ x.scope # Unscoped => calls[x.scope].st = "sent"
    /\ x.actor # NoActor => x.actor \in objects \/ \E c \in gaveUp : calls[c].actor = x.actor
=============================================================================
