-------------------------- MODULE CallbacksProofs --------------------------
(***************************************************************************)
(* Proofs about Callbacks for any set of workers and actors, with any      *)
(* bounds.                                                                 *)
(*                                                                         *)
(* The argument: the entries of a result are made by a method that runs,   *)
(* and a method runs on an actor that is there (RunningOK). It would not,  *)
(* were a call of that actor running when its close returns. So one needs  *)
(* that the host sends the requests of an actor one at a time, however the *)
(* tasks of its mailbox are chained (TurnsOK), and that what runs has been *)
(* sent and is not answered (PlacesOK), which rests on what the messages   *)
(* in the ports are about (PortsOK).                                       *)
(*                                                                         *)
(* That invocations are served needs what stands behind an entry           *)
(* (ServedInv): its links (LinksOK), why an entry is gone (DeadOK), that a *)
(* method that awaited its calls runs until they settle (AwaitedOK), and,  *)
(* of each message on its way, what must not be ahead of it (DueOK).  An   *)
(* answer travels behind the invocations that its method began and a       *)
(* result behind those of a callback that the caller passed on, so what an *)
(* invocation leads to is alive on every side it comes to.                 *)
(***************************************************************************)
EXTENDS Callbacks, FiniteSetTheorems, SequenceTheorems, TLAPS

\* what code passes, if E are the entries
Passable(E) == SUBSET (E \cup {Own})

CallSet(C, E) ==
  [kind : {"call", "destroy"}, by : C \cup {User}, actor : Actors,
   fns : Passable(E), prev : C \cup {0},
   st : {"asked", "queued", "sent", "answered", "settled"}]

EntrySet(C, E) ==
  [at : Sides, fn : E \cup {Own}, scope : C \cup {Unscoped},
   actor : Actors \cup {NoActor}, live : BOOLEAN]

MessageSet(C, E) ==
  [kind : {"call", "answer", "result"}, call : C, refs : SUBSET E]
    \cup [kind : {"invoke"}, entry : E, due : BOOLEAN]

\* TypeOK, where ports are sequences
WellTyped ==
  /\ calls \in Seq(CallSet(Issued, Entries))
  /\ mailboxes \in [Actors -> Issued \cup {0}]
  /\ running \subseteq Issued /\ objects \subseteq Actors
  /\ entries \in Seq(EntrySet(Issued, Entries))
  /\ held \in [Sides -> SUBSET Entries]
  /\ toWorker \in [Workers -> Seq(MessageSet(Issued, Entries))]
  /\ toHost \in [Workers -> Seq(MessageSet(Issued, Entries))]
  /\ invokes \in 0..MaxInvokes
  /\ gaveUp \subseteq Issued /\ hasty \subseteq Issued

-----------------------------------------------------------------------------
(* The invariant.                                                          *)

\* a port holds a message of this kind about call c
Has(p, kind, c) == \E m \in ToSet(p) : m.kind = kind /\ m.call = c

\* it holds no two of one kind about a call
Once(p) ==
  \A i, j \in DOMAIN p :
    i # j /\ p[i].kind # "invoke" /\ p[i].kind = p[j].kind => p[i].call # p[j].call

St(c) == calls[c].st
Ended == {"answered", "settled"}

\* message m from worker w to the host: a call its methods made, or an answer
FromWorker(w, m) ==
  /\ m.kind # "result"
  /\ m.kind = "call" => St(m.call) = "asked" /\ Caller(m.call) = w
  /\ m.kind = "answer" => Side(m.call) = w

\* message m to worker w: a request, or the result of a call that was answered
ToWorkerOf(w, m) ==
  /\ m.kind # "answer"
  /\ m.kind = "call" => Side(m.call) = w
  /\ m.kind = "result" => St(m.call) \in Ended

PortsOK ==
  \A w \in Workers :
    /\ Once(toHost[w]) /\ \A m \in ToSet(toHost[w]) : FromWorker(w, m)
    /\ Once(toWorker[w]) /\ \A m \in ToSet(toWorker[w]) : ToWorkerOf(w, m)

\* the request of a call is on its way to the worker, or the answer back
Requested(c) == Has(toWorker[Side(c)], "call", c)
Answered(c) == Has(toHost[Side(c)], "answer", c)

\* A request is in one place, which it has not left unless the host gave up, and
\* a destroy that is answered has removed its actor.
PlaceOK(c) ==
  /\ Requested(c) => c \notin running /\ ~Answered(c)
  /\ c \in running => ~Answered(c)
  /\ Requested(c) \/ c \in running \/ Answered(c) => St(c) \in {"sent"} \cup Ended
  /\ Requested(c) \/ c \in running => St(c) = "sent" \/ c \in gaveUp
  /\ c \in gaveUp => calls[c].kind = "call"
  /\ calls[c].kind = "destroy" /\ (Answered(c) \/ St(c) \in Ended) => calls[c].actor \notin objects

PlacesOK == \A c \in Issued : PlaceOK(c)

GivenUp(a) == \E c \in gaveUp : calls[c].actor = a

\* a method runs on a live actor, unless a call of that actor was given up
RunningOK == \A c \in running : calls[c].actor \in objects \/ GivenUp(calls[c].actor)

\* what was enqueued in the mailbox of an actor
Tasks(a) == {c \in Issued : calls[c].actor = a /\ St(c) # "asked"}

\* The tasks of an actor in the order they were enqueued: the mailbox holds the
\* last one, each is chained to the one before it, and starts when all before it
\* are done.
InOrder(a, rank) ==
  /\ mailboxes[a] = 0 => Tasks(a) = {}
  /\ mailboxes[a] # 0 =>
       /\ mailboxes[a] \in Tasks(a)
       /\ \A c \in Tasks(a) \ {mailboxes[a]} : rank[c] < rank[mailboxes[a]]
  /\ \A c \in Tasks(a) :
       /\ \A d \in Tasks(a) : rank[c] = rank[d] => c = d
       /\ \A d \in Tasks(a) : rank[d] < rank[c] =>
            calls[c].prev \in Tasks(a) /\ rank[d] <= rank[calls[c].prev]
       /\ St(c) # "queued" => \A d \in Tasks(a) : rank[d] < rank[c] => St(d) \in Ended

Ranked(rank) == \A a \in objects : InOrder(a, rank)

TurnsOK == \E rank \in [Nat -> Nat] : Ranked(rank)

CallbacksInv ==
  /\ PortsOK
  /\ PlacesOK
  /\ RunningOK
  /\ TurnsOK
  /\ KeptOnlyWhileNeeded

-----------------------------------------------------------------------------
(* Types.                                                                  *)

LEMMA TypesGrow ==
  ASSUME NEW C, NEW E, NEW D, NEW F, C \subseteq D, E \subseteq F
  PROVE  /\ CallSet(C, E) \subseteq CallSet(D, F)
         /\ EntrySet(C, E) \subseteq EntrySet(D, F)
         /\ MessageSet(C, E) \subseteq MessageSet(D, F)
         /\ Seq(CallSet(C, E)) \subseteq Seq(CallSet(D, F))
         /\ Seq(EntrySet(C, E)) \subseteq Seq(EntrySet(D, F))
         /\ Seq(MessageSet(C, E)) \subseteq Seq(MessageSet(D, F))
<1>1. CallSet(C, E) \subseteq CallSet(D, F)
  BY DEF CallSet, Passable
<1>2. EntrySet(C, E) \subseteq EntrySet(D, F)
  BY DEF EntrySet
<1>3. MessageSet(C, E) \subseteq MessageSet(D, F)
  BY DEF MessageSet
<1>4. ASSUME NEW S, NEW T, S \subseteq T PROVE Seq(S) \subseteq Seq(T)
  BY <1>4
<1> QED
  BY <1>1, <1>2, <1>3, <1>4

\* what no action changes stays well typed while calls and entries are added
LEMMA Widened ==
  ASSUME WellTyped, NEW C, NEW E, Issued \subseteq C, Entries \subseteq E
  PROVE  /\ calls \in Seq(CallSet(C, E))
         /\ mailboxes \in [Actors -> C \cup {0}]
         /\ running \subseteq C /\ objects \subseteq Actors
         /\ entries \in Seq(EntrySet(C, E))
         /\ held \in [Sides -> SUBSET E]
         /\ toWorker \in [Workers -> Seq(MessageSet(C, E))]
         /\ toHost \in [Workers -> Seq(MessageSet(C, E))]
         /\ gaveUp \subseteq C /\ hasty \subseteq C
<1>1. /\ Seq(CallSet(Issued, Entries)) \subseteq Seq(CallSet(C, E))
      /\ Seq(EntrySet(Issued, Entries)) \subseteq Seq(EntrySet(C, E))
      /\ Seq(MessageSet(Issued, Entries)) \subseteq Seq(MessageSet(C, E))
  BY TypesGrow
<1>2. held \in [Sides -> SUBSET E]
  BY DEF WellTyped
<1>3. mailboxes \in [Actors -> C \cup {0}]
  BY DEF WellTyped
<1> QED
  BY <1>1, <1>2, <1>3 DEF WellTyped

\* numbers of calls and entries
LEMMA Numbers ==
  ASSUME WellTyped
  PROVE  /\ Issued = 1..Len(calls) /\ Len(calls) \in Nat
         /\ Entries = 1..Len(entries) /\ Len(entries) \in Nat
         /\ User \notin Issued /\ 0 \notin Issued /\ Own \notin Entries
         /\ \A c \in Issued : calls[c] \in CallSet(Issued, Entries)
         /\ \A e \in Entries : entries[e] \in EntrySet(Issued, Entries)
BY DEF WellTyped, Issued, Entries, User, Own

LEMMA FewFunctions ==
  ASSUME WellTyped, NEW fs \in Passable(Entries)
  PROVE  IsFiniteSet(fs)
<1>1. IsFiniteSet(Entries \cup {Own})
  <2>1. IsFiniteSet(1..Len(entries))
    BY Numbers, FS_Interval
  <2> QED
    BY <2>1, Numbers, FS_AddElement
<1> QED
  BY <1>1, FS_Subset DEF Passable

LEMMA SetToSeqIs ==
  ASSUME NEW fs, IsFiniteSet(fs)
  PROVE  /\ Cardinality(fs) \in Nat
         /\ \A i \in 1..Cardinality(fs) : SetToSeq(fs)[i] \in fs
<1> DEFINE n == Cardinality(fs)
<1>1. n \in Nat /\ \E f \in [1..n -> fs] : IsInjective(f)
  BY FS_CardinalityType DEF ExistsBijection, Bijection, Injection
<1>2. SetToSeq(fs) \in [1..n -> fs]
  BY <1>1 DEF SetToSeq
<1> QED
  BY <1>1, <1>2

Ports(f, C, E) == f \in [Workers -> Seq(MessageSet(C, E))]
Table(es, C, E) == es \in Seq(EntrySet(C, E))

\* an entry just made for one of the functions fs
New(x, at, fs, scope, actor) ==
  x.at = at /\ x.fn \in fs /\ x.scope = scope /\ x.actor = actor /\ x.live

\* q is es and the entries of the functions fs
Registered(es, q, at, fs, scope, actor) ==
  /\ DOMAIN q = DOMAIN es \cup Refs(es, fs)
  /\ \A e \in DOMAIN es : q[e] = es[e] /\ e \notin Refs(es, fs)
  /\ \A e \in Refs(es, fs) : New(q[e], at, fs, scope, actor)

LEMMA RegisterIs ==
  ASSUME NEW C, NEW E, NEW es, Table(es, C, E),
         NEW fs \in Passable(E), IsFiniteSet(fs), NEW at \in Sides,
         NEW scope \in C \cup {Unscoped}, NEW actor \in Actors \cup {NoActor},
         NEW q, q = Register(es, at, fs, scope, actor)
  PROVE  Table(q, C, E) /\ Registered(es, q, at, fs, scope, actor)
<1> USE DEF Table
<1> DEFINE n == Cardinality(fs)
           new == [i \in 1..n |->
             [at |-> at, fn |-> SetToSeq(fs)[i], scope |-> scope, actor |-> actor, live |-> TRUE]]
<1>1. n \in Nat /\ \A i \in 1..n : SetToSeq(fs)[i] \in fs
  BY SetToSeqIs
<1>2. new \in Seq(EntrySet(C, E)) /\ Len(new) = n
  <2>1. \A i \in 1..n : SetToSeq(fs)[i] \in E \cup {Own}
    BY <1>1 DEF Passable
  <2>2. \A i \in 1..n : new[i] \in EntrySet(C, E)
    BY <2>1 DEF EntrySet
  <2>3. new \in [1..n -> EntrySet(C, E)]
    BY <2>2
  <2> HIDE DEF new, n
  <2> QED
    BY <1>1, <2>3
<1>3. \A i \in 1..n : /\ new[i].at = at /\ new[i].fn \in fs /\ new[i].live
                      /\ new[i].scope = scope /\ new[i].actor = actor
  BY <1>1
<1>4. q = es \o new
  BY DEF Register
<1> HIDE DEF n, new
<1>5. /\ q \in Seq(EntrySet(C, E)) /\ Len(q) = Len(es) + n
      /\ \A i \in 1..Len(es) : q[i] = es[i]
      /\ \A i \in Len(es) + 1 .. Len(es) + n : q[i] = new[i - Len(es)]
  <2>1. /\ es \o new \in Seq(EntrySet(C, E)) /\ Len(es \o new) = Len(es) + Len(new)
        /\ \A i \in 1..Len(es) + Len(new) :
             (es \o new)[i] = IF i <= Len(es) THEN es[i] ELSE new[i - Len(es)]
    BY <1>2
  <2>2. Len(es) \in Nat
    OBVIOUS
  <2> QED
    BY <1>1, <1>2, <1>4, <2>1, <2>2
<1>6. Refs(es, fs) = Len(es) + 1 .. Len(es) + n
  BY DEF Refs, n
<1>7. \A e \in Refs(es, fs) : e - Len(es) \in 1..n
  BY <1>1, <1>6
<1>8. DOMAIN q = DOMAIN es \cup Refs(es, fs)
  BY <1>1, <1>5, <1>6
<1>9. \A e \in DOMAIN es : q[e] = es[e] /\ e \notin Refs(es, fs)
  BY <1>1, <1>5, <1>6
<1> QED
  BY <1>3, <1>5, <1>6, <1>7, <1>8, <1>9 DEF Registered, New

LEMMA ReleaseIs ==
  ASSUME NEW C, NEW E, NEW es \in Seq(EntrySet(C, E)), NEW dropped,
         NEW q, q = Release(es, dropped)
  PROVE  /\ q \in Seq(EntrySet(C, E)) /\ DOMAIN q = DOMAIN es /\ Len(q) = Len(es)
         /\ \A e \in DOMAIN es :
              /\ q[e].at = es[e].at /\ q[e].fn = es[e].fn
              /\ q[e].scope = es[e].scope /\ q[e].actor = es[e].actor
              /\ q[e].live <=> es[e].live /\ e \notin dropped
<1>1. \A e \in DOMAIN es : es[e] \in EntrySet(C, E)
  OBVIOUS
<1>2. /\ DOMAIN q = DOMAIN es
      /\ \A e \in DOMAIN es : q[e] = [es[e] EXCEPT !.live = es[e].live /\ e \notin dropped]
  BY DEF Release
<1>3. \A e \in DOMAIN es :
        /\ q[e] \in EntrySet(C, E)
        /\ q[e].at = es[e].at /\ q[e].fn = es[e].fn
        /\ q[e].scope = es[e].scope /\ q[e].actor = es[e].actor
        /\ q[e].live <=> es[e].live /\ e \notin dropped
  <2>1. ASSUME NEW x \in EntrySet(C, E), NEW b \in BOOLEAN, NEW y, y = [x EXCEPT !.live = b]
        PROVE  /\ y \in EntrySet(C, E) /\ y.at = x.at /\ y.fn = x.fn
               /\ y.scope = x.scope /\ y.actor = x.actor /\ y.live = b
    BY <2>1 DEF EntrySet
  <2>2. ASSUME NEW e \in DOMAIN es
        PROVE  /\ q[e] \in EntrySet(C, E)
               /\ q[e].at = es[e].at /\ q[e].fn = es[e].fn
               /\ q[e].scope = es[e].scope /\ q[e].actor = es[e].actor
               /\ q[e].live <=> es[e].live /\ e \notin dropped
    <3> DEFINE b == es[e].live /\ e \notin dropped
    <3>1. b \in BOOLEAN /\ es[e] \in EntrySet(C, E)
      BY <1>1
    <3>2. q[e] = [es[e] EXCEPT !.live = b]
      BY <1>2
    <3> HIDE DEF b
    <3>3. /\ q[e] \in EntrySet(C, E) /\ q[e].at = es[e].at /\ q[e].fn = es[e].fn
          /\ q[e].scope = es[e].scope /\ q[e].actor = es[e].actor /\ q[e].live = b
      BY <2>1, <3>1, <3>2
    <3> QED
      BY <3>3 DEF b
  <2> QED
    BY <2>2
<1>4. q \in Seq(EntrySet(C, E)) /\ Len(q) = Len(es)
  <2>1. Len(es) \in Nat /\ DOMAIN es = 1..Len(es)
    OBVIOUS
  <2>2. q = [e \in 1..Len(es) |-> q[e]]
    BY <2>1 DEF Release
  <2>3. q \in [1..Len(es) -> EntrySet(C, E)]
    BY <1>3, <2>1, <2>2
  <2> QED
    BY <2>1, <2>3
<1> QED
  BY <1>2, <1>3, <1>4

-----------------------------------------------------------------------------
(* Ports.                                                                  *)

Appended(p, q, m) == q = Append(p, m)

LEMMA AddIs ==
  ASSUME NEW S, NEW p \in Seq(S), NEW m \in S, NEW q, Appended(p, q, m)
  PROVE  /\ q \in Seq(S)
         /\ \A x : x \in ToSet(q) <=> x \in ToSet(p) \/ x = m
         /\ Once(p) /\ (m.kind = "invoke" \/ ~Has(p, m.kind, m.call)) => Once(q)
<1>1. /\ q \in Seq(S) /\ DOMAIN q = DOMAIN p \cup {Len(p) + 1}
      /\ q[Len(p) + 1] = m /\ \A i \in DOMAIN p : q[i] = p[i] /\ i # Len(p) + 1
  BY DEF Appended
<1> DEFINE l == Len(p) + 1
<1> HIDE DEF l
<1>2. DOMAIN q = DOMAIN p \cup {l} /\ q[l] = m /\ \A i \in DOMAIN p : q[i] = p[i] /\ i # l
  BY <1>1 DEF l
<1>3. \A x : x \in ToSet(q) <=> x \in ToSet(p) \/ x = m
  BY <1>2 DEF ToSet
<1>4. ASSUME Once(p), m.kind = "invoke" \/ ~Has(p, m.kind, m.call) PROVE Once(q)
  <2>1. \A i \in DOMAIN p : p[i].kind # "invoke" /\ p[i].kind = m.kind => p[i].call # m.call
    BY <1>4 DEF Has, ToSet
  <2> QED
    BY <1>2, <1>4, <2>1 DEF Once
<1> QED
  BY <1>1, <1>3, <1>4

LEMMA TailIs ==
  ASSUME NEW S, NEW p \in Seq(S), p # <<>>
  PROVE  /\ Tail(p) \in Seq(S) /\ Head(p) \in S /\ Head(p) \in ToSet(p)
         /\ ToSet(Tail(p)) \subseteq ToSet(p)
         /\ Once(p) => Once(Tail(p))
         /\ Once(p) /\ Head(p).kind # "invoke" => ~Has(Tail(p), Head(p).kind, Head(p).call)
<1>1. /\ Tail(p) \in Seq(S) /\ Head(p) = p[1] /\ 1 \in DOMAIN p
      /\ \A i \in DOMAIN Tail(p) : i + 1 \in DOMAIN p /\ Tail(p)[i] = p[i + 1] /\ i + 1 # 1
      /\ \A i, j \in DOMAIN Tail(p) : i # j => i + 1 # j + 1
  OBVIOUS
<1>2. Head(p) \in ToSet(p) /\ ToSet(Tail(p)) \subseteq ToSet(p)
  BY <1>1 DEF ToSet
<1>3. Once(p) => Once(Tail(p))
  BY <1>1 DEF Once
<1>4. Once(p) /\ Head(p).kind # "invoke" => ~Has(Tail(p), Head(p).kind, Head(p).call)
  BY <1>1 DEF Once, Has, ToSet
<1> QED
  BY <1>1, <1>2, <1>3, <1>4

LEMMA ExceptIs ==
  ASSUME NEW S, NEW p \in Seq(S), NEW i \in DOMAIN p, NEW m \in S, NEW q, q = [p EXCEPT ![i] = m]
  PROVE  /\ q \in Seq(S) /\ DOMAIN q = DOMAIN p /\ q[i] = m
         /\ \A j \in DOMAIN p \ {i} : q[j] = p[j]
<1>1. DOMAIN p = 1..Len(p) /\ Len(p) \in Nat
  OBVIOUS
<1>2. DOMAIN q = 1..Len(p) /\ q[i] = m /\ \A j \in 1..Len(p) : q[j] \in S
  BY <1>1
<1>3. q = [j \in 1..Len(p) |-> q[j]]
  BY <1>1
<1>4. q \in [1..Len(p) -> S]
  BY <1>2, <1>3
<1> QED
  BY <1>1, <1>2, <1>4

LEMMA OneIsAppend ==
  ASSUME NEW S, NEW p \in Seq(S), NEW m \in S
  PROVE  p \o <<m>> = Append(p, m) /\ p \o <<>> = p
OBVIOUS

-----------------------------------------------------------------------------
(* Mailboxes.                                                              *)

\* doCall added entries for c to es, and posted its request to w0, behind one
\* other message or none
Started(c, fs, es, C, first, w0) ==
  /\ Table(entries', C, Entries') /\ DOMAIN es \subseteq Entries'
  /\ Ports(toWorker', C, Entries')
  /\ \A e \in DOMAIN es : entries'[e] = es[e]
  /\ \A e \in Entries' \ DOMAIN es : New(entries'[e], Host, fs, c, NoActor)
  /\ \E m \in MessageSet(C, Entries') :
       /\ m.kind = "call" /\ m.call = c /\ m.refs \subseteq Entries' \ DOMAIN es
       /\ \A w \in Workers : toWorker'[w] =
            IF w = w0 THEN Append(toWorker[w] \o first[w], m) ELSE toWorker[w] \o first[w]

LEMMA StartIs ==
  ASSUME NEW C, NEW E, NEW es, Table(es, C, E), DOMAIN es = E,
         NEW fs \in Passable(E), IsFiniteSet(fs), NEW c \in C, NEW first,
         NEW w0 \in Workers, Home[calls'[c].actor] = w0,
         Ports(first, C, E), Ports(toWorker, C, E),
         Start(c, fs, es, first)
  PROVE  Started(c, fs, es, C, first, w0)
<1> USE DEF Ports
<1> DEFINE refs == Refs(es, fs)
           m == CallMsg(c, refs)
           before(w) == toWorker[w] \o first[w]
<1>1. Host \in Sides /\ c \in C \cup {Unscoped} /\ NoActor \in Actors \cup {NoActor}
  BY DEF Sides
<1>2. entries' = Register(es, Host, fs, c, NoActor)
  BY DEF Start
<1>3. /\ entries' \in Seq(EntrySet(C, E)) /\ DOMAIN entries' = E \cup refs
      /\ \A e \in E : entries'[e] = es[e] /\ e \notin refs
      /\ \A e \in refs : New(entries'[e], Host, fs, c, NoActor)
  <2>1. Table(entries', C, E) /\ Registered(es, entries', Host, fs, c, NoActor)
    BY <1>1, <1>2, RegisterIs
  <2> QED
    BY <2>1 DEF Table, Registered
<1>4. Entries' = E \cup refs
  BY <1>3 DEF Entries
<1>5. entries' \in Seq(EntrySet(C, Entries')) /\ Seq(MessageSet(C, E)) \subseteq Seq(MessageSet(C, Entries'))
  BY <1>3, <1>4, TypesGrow
<1>6. /\ m \in MessageSet(C, Entries') /\ m.kind = "call" /\ m.call = c
      /\ m.refs \subseteq Entries' \ DOMAIN es
  BY <1>3, <1>4 DEF CallMsg, MessageSet
<1> HIDE DEF refs, m
<1>7. ASSUME NEW w \in Workers
      PROVE  /\ before(w) \in Seq(MessageSet(C, Entries'))
             /\ toWorker'[w] = IF w = w0 THEN Append(before(w), m) ELSE before(w)
             /\ toWorker'[w] \in Seq(MessageSet(C, Entries'))
  <2>1. toWorker[w] \in Seq(MessageSet(C, E)) /\ first[w] \in Seq(MessageSet(C, E))
    OBVIOUS
  <2>2. before(w) \in Seq(MessageSet(C, Entries'))
    BY <1>5, <2>1
  <2>3. toWorker'[w] = before(w) \o (IF w = w0 THEN <<m>> ELSE <<>>)
    BY DEF Start, OnWorker, m, refs
  <2> HIDE DEF before
  <2>4. before(w) \o <<m>> = Append(before(w), m) /\ before(w) \o <<>> = before(w)
    BY <1>6, <2>2, OneIsAppend
  <2>5. Append(before(w), m) \in Seq(MessageSet(C, Entries'))
    BY <1>6, <2>2, AddIs
  <2> QED
    BY <2>2, <2>3, <2>4, <2>5
<1>8. toWorker' = [w \in Workers |-> toWorker'[w]]
  BY DEF Start
<1> HIDE DEF before
<1>9. toWorker' \in [Workers -> Seq(MessageSet(C, Entries'))]
  BY <1>7, <1>8
<1> QED
  BY <1>3, <1>4, <1>5, <1>6, <1>7, <1>9 DEF before, Started, Table

\* what it is for a call to be the last task of its mailbox
Enqueued(c, call) ==
  LET prev == mailboxes[call.actor]
      starts == prev = 0 \/ St(prev) \in Ended
  IN
  /\ Issued' = Issued \cup {c}
  /\ calls' \in Seq(CallSet(Issued', Entries'))
  /\ \A d \in Issued \ {c} : calls'[d] = calls[d]
  /\ calls'[c].kind = call.kind /\ calls'[c].by = call.by /\ calls'[c].actor = call.actor
  /\ calls'[c].fns = call.fns /\ calls'[c].prev = prev /\ calls'[c].st = IF starts THEN "sent" ELSE "queued"
  /\ mailboxes' \in [Actors -> Issued' \cup {0}]
  /\ mailboxes' = [mailboxes EXCEPT ![call.actor] = c]
  /\ Table(entries', Issued', Entries') /\ Entries \subseteq Entries'
  /\ Ports(toWorker', Issued', Entries')
  /\ \A e \in Entries : entries'[e] = entries[e]
  /\ \A e \in Entries' \ Entries : starts /\ New(entries'[e], Host, call.fns, c, NoActor)
  /\ \E m \in MessageSet(Issued', Entries') :
       /\ m.kind = "call" /\ m.call = c /\ m.refs \subseteq Entries' \ Entries
       /\ \A w \in Workers : toWorker'[w] =
            IF starts /\ w = Home[call.actor] THEN Append(toWorker[w], m) ELSE toWorker[w]

LEMMA EnqueueIs ==
  ASSUME WellTyped, NEW c, NEW call, c \in Issued \/ c = Len(calls) + 1,
         call \in CallSet(Issued, Entries), Enqueue(c, call)
  PROVE  Enqueued(c, call)
<1> DEFINE prev == mailboxes[call.actor]
           starts == prev = 0 \/ St(prev) \in Ended
           queued == [call EXCEPT !.prev = prev, !.st = IF starts THEN "sent" ELSE "queued"]
           w0 == Home[call.actor]
           none == [w \in Workers |-> <<>>]
<1>1. call.actor \in Actors /\ prev \in Issued \cup {0} /\ w0 \in Workers /\ call.fns \in Passable(Entries)
  BY CallbacksAssumption DEF CallSet, WellTyped
<1>2. starts <=> Done(prev)
  BY DEF Done, St, Ended
<1>3. /\ queued.kind = call.kind /\ queued.by = call.by /\ queued.actor = call.actor
      /\ queued.fns = call.fns
      /\ queued.prev = prev /\ queued.st = IF starts THEN "sent" ELSE "queued"
      /\ queued \in CallSet(Issued, Entries)
  BY <1>1 DEF CallSet
<1>4. calls' = IF c \in Issued THEN [calls EXCEPT ![c] = queued] ELSE Append(calls, queued)
  BY <1>2 DEF Enqueue
<1>5. mailboxes' = [mailboxes EXCEPT ![call.actor] = c]
  BY DEF Enqueue
<1>6. IF starts THEN Start(c, call.fns, entries, none) ELSE UNCHANGED <<entries, toWorker>>
  BY <1>2 DEF Enqueue
<1> HIDE DEF queued, starts, prev
<1>7. /\ Issued' = Issued \cup {c} /\ c \in Issued'
      /\ calls' \in Seq(CallSet(Issued, Entries)) /\ calls'[c] = queued
      /\ \A d \in Issued \ {c} : calls'[d] = calls[d]
  <2>1. calls \in Seq(CallSet(Issued, Entries))
    BY DEF WellTyped
  <2>2. CASE c \in Issued
    <3>1. calls' = [calls EXCEPT ![c] = queued]
      BY <1>4, <2>2
    <3>2. /\ calls' \in Seq(CallSet(Issued, Entries)) /\ DOMAIN calls' = DOMAIN calls
          /\ calls'[c] = queued /\ \A d \in DOMAIN calls \ {c} : calls'[d] = calls[d]
      BY <1>3, <2>1, <2>2, <3>1, ExceptIs DEF Issued
    <3>3. Issued' = Issued /\ Issued \cup {c} = Issued
      BY <2>2, <3>2 DEF Issued
    <3> QED
      BY <3>2, <3>3, <2>2 DEF Issued
  <2>3. CASE c \notin Issued
    <3>1. calls' = Append(calls, queued) /\ c = Len(calls) + 1
      BY <1>4, <2>3
    <3> QED
      BY <1>3, <2>1, <2>3, <3>1 DEF Issued
  <2> QED
    BY <2>2, <2>3
<1>8. /\ Table(entries, Issued', Entries) /\ Ports(toWorker, Issued', Entries)
      /\ mailboxes' \in [Actors -> Issued' \cup {0}]
  BY <1>1, <1>5, <1>7, Widened DEF Table, Ports
<1>9. CASE starts
  <2>1. Start(c, call.fns, entries, none) /\ IsFiniteSet(call.fns)
    BY <1>1, <1>6, <1>9, FewFunctions
  <2>2. Ports(none, Issued', Entries)
    BY DEF Ports
  <2>3. Home[calls'[c].actor] = w0
    BY <1>3, <1>7
  <2>4. Started(c, call.fns, entries, Issued', none, w0)
    BY <1>1, <1>7, <1>8, <2>1, <2>2, <2>3, StartIs DEF Entries
  <2>5. calls' \in Seq(CallSet(Issued', Entries'))
    BY <1>7, <2>4, TypesGrow DEF Started, Entries
  <2>6. \A w \in Workers : toWorker[w] \o none[w] = toWorker[w]
    BY <1>8 DEF Ports
  <2> HIDE DEF none, w0
  <2>7. PICK m \in MessageSet(Issued', Entries') :
          /\ m.kind = "call" /\ m.call = c /\ m.refs \subseteq Entries' \ Entries
          /\ \A w \in Workers : toWorker'[w] =
               IF w = w0 THEN Append(toWorker[w], m) ELSE toWorker[w]
    BY <2>4, <2>6 DEF Started, Entries
  <2>8. /\ Table(entries', Issued', Entries') /\ Entries \subseteq Entries'
        /\ Ports(toWorker', Issued', Entries')
        /\ \A e \in Entries : entries'[e] = entries[e]
        /\ \A e \in Entries' \ Entries : New(entries'[e], Host, call.fns, c, NoActor)
    BY <2>4 DEF Started, Entries
  <2> QED
    BY <1>3, <1>5, <1>7, <1>8, <1>9, <2>5, <2>7, <2>8 DEF Enqueued, prev, starts, w0
<1>10. CASE ~starts
  <2>1. entries' = entries /\ toWorker' = toWorker /\ Entries' = Entries
    BY <1>6, <1>10 DEF Entries
  <2>2. Table(entries', Issued', Entries') /\ Ports(toWorker', Issued', Entries')
    BY <1>8, <2>1
  <2>3. calls' \in Seq(CallSet(Issued', Entries'))
    BY <1>7, <2>1, TypesGrow
  <2> DEFINE m == CallMsg(c, {})
  <2>4. m \in MessageSet(Issued', Entries') /\ m.kind = "call" /\ m.call = c /\ m.refs = {}
    BY <1>7 DEF CallMsg, MessageSet
  <2> HIDE DEF m
  <2> QED
    BY <1>3, <1>5, <1>7, <1>8, <1>10, <2>1, <2>2, <2>3, <2>4 DEF Enqueued, prev, starts
<1> QED
  BY <1>9, <1>10

Following(c) == {d \in Issued : St(d) = "queued" /\ calls[d].prev = c}

\* toWorker' of w: behind what was there the result of c, and a request that was
\* behind it
PostsOf(c, p, q, w) ==
  \E r \in Seq(MessageSet(Issued', Entries')) :
    /\ \/ r = p
       \/ \E m \in MessageSet(Issued', Entries') :
            /\ m.kind = "result" /\ m.call = c /\ m.refs \subseteq Entries' \ Entries
            /\ calls[c].by # User /\ Caller(c) = w
            /\ r = Append(p, m)
    /\ \/ q = r
       \/ \E m \in MessageSet(Issued', Entries') :
            /\ m.kind = "call" /\ m.call \in Following(c) /\ Side(m.call) = w
            /\ m.refs \subseteq Entries' \ Entries
            /\ q = Append(r, m)

Settled(c, fs) ==
  LET bridged == calls[c].by # User IN
  /\ Issued' = Issued
  /\ calls' \in Seq(CallSet(Issued', Entries'))
  /\ \A d \in Issued :
       /\ calls'[d].kind = calls[d].kind /\ calls'[d].by = calls[d].by
       /\ calls'[d].actor = calls[d].actor /\ calls'[d].prev = calls[d].prev
       /\ calls'[d].fns = calls[d].fns
       /\ d = c => calls'[d].st = IF bridged THEN "answered" ELSE "settled"
       /\ d # c => calls'[d].st = IF d \in Following(c) THEN "sent" ELSE St(d)
  /\ held' \in [Sides -> SUBSET Entries']
  /\ held' = IF bridged THEN held ELSE [held EXCEPT ![Host] = held[Host] \cup fs]
  /\ Table(entries', Issued', Entries') /\ Entries \subseteq Entries'
  /\ Ports(toWorker', Issued', Entries')
  /\ \A e \in Entries :
       /\ entries'[e].at = entries[e].at /\ entries'[e].fn = entries[e].fn
       /\ entries'[e].scope = entries[e].scope /\ entries'[e].actor = entries[e].actor
       /\ entries'[e].live <=> entries[e].live /\ entries[e].scope # c
  /\ \A e \in Entries' \ Entries :
       \/ bridged /\ New(entries'[e], Host, fs, Unscoped, NoActor)
       \/ \E d \in Following(c) : New(entries'[e], Host, calls[d].fns, d, NoActor)
  /\ \A w \in Workers : PostsOf(c, toWorker[w], toWorker'[w], w)

LEMMA SettleIs ==
  ASSUME WellTyped, NEW c \in Issued, NEW fs \in SUBSET Entries, Settle(c, fs)
  PROVE  Settled(c, fs)
<1> DEFINE next == Following(c)
           bridged == calls[c].by # User
           released == ReleaseCallScoped(entries, c)
           es == IF bridged THEN Register(released, Host, fs, Unscoped, NoActor) ELSE released
           E == DOMAIN es
           refs == Refs(released, fs)
           result == IF bridged THEN OnWorker(Caller(c), <<Result(c, refs)>>)
                     ELSE [w \in Workers |-> <<>>]
<1>1. /\ calls' = [d \in Issued |->
            IF d = c THEN [calls[d] EXCEPT !.st = IF bridged THEN "answered" ELSE "settled"]
            ELSE IF d \in next THEN [calls[d] EXCEPT !.st = "sent"] ELSE calls[d]]
      /\ held' = IF bridged THEN held ELSE [held EXCEPT ![Host] = held[Host] \cup fs]
      /\ IF next = {}
         THEN entries' = es /\ toWorker' = [w \in Workers |-> toWorker[w] \o result[w]]
         ELSE \E d \in next : Start(d, calls[d].fns, es, result)
  BY DEF Settle, Following, St
<1>2. /\ Table(released, Issued, Entries) /\ DOMAIN released = Entries
      /\ \A e \in Entries :
           /\ released[e].at = entries[e].at /\ released[e].fn = entries[e].fn
           /\ released[e].scope = entries[e].scope /\ released[e].actor = entries[e].actor
           /\ released[e].live <=> entries[e].live /\ entries[e].scope # c
  BY ReleaseIs DEF WellTyped, ReleaseCallScoped, Table, Entries
<1>3. fs \in Passable(Entries) /\ IsFiniteSet(fs)
  BY FewFunctions DEF Passable
<1> HIDE DEF released, next
<1>4. /\ Table(es, Issued, E) /\ Entries \subseteq E /\ (bridged => refs \subseteq E \ Entries)
      /\ \A e \in Entries : es[e] = released[e]
      /\ \A e \in E \ Entries : bridged /\ New(es[e], Host, fs, Unscoped, NoActor)
  <2>1. CASE bridged
    <3>1. es = Register(released, Host, fs, Unscoped, NoActor)
      BY <2>1
    <3>2. Host \in Sides /\ Unscoped \in Issued \cup {Unscoped} /\ NoActor \in Actors \cup {NoActor}
      BY DEF Sides
    <3> HIDE DEF es
    <3>3. Table(es, Issued, Entries) /\ Registered(released, es, Host, fs, Unscoped, NoActor)
      BY <1>2, <1>3, <3>1, <3>2, RegisterIs
    <3>4. Entries \subseteq E
      BY <1>2, <3>3 DEF Registered
    <3> QED
      BY <1>2, <2>1, <3>3, <3>4, TypesGrow DEF Registered, Table
  <2>2. CASE ~bridged
    BY <1>2, <2>2
  <2> QED
    BY <2>1, <2>2
<1> HIDE DEF es
<1>5. Ports(toWorker, Issued, E)
  BY <1>4, Widened DEF Ports
<1>6. /\ Ports(result, Issued, E)
      /\ \A w \in Workers : \/ result[w] = <<>>
                            \/ \E m \in MessageSet(Issued, E) :
                                 /\ m.kind = "result" /\ m.call = c /\ m.refs \subseteq E \ Entries
                                 /\ bridged /\ Caller(c) = w
                                 /\ result[w] = <<m>>
  <2> DEFINE m == Result(c, refs)
  <2>1. bridged => /\ m \in MessageSet(Issued, E) /\ m.kind = "result" /\ m.call = c
                   /\ m.refs \subseteq E \ Entries
    BY <1>4 DEF Result, MessageSet
  <2> HIDE DEF m
  <2>2. \A w \in Workers : result[w] = <<>> \/ (bridged /\ Caller(c) = w /\ result[w] = <<m>>)
    BY DEF OnWorker, m
  <2>3. DOMAIN result = Workers /\ result = [w \in Workers |-> result[w]]
    BY DEF OnWorker
  <2> HIDE DEF result
  <2>4. ASSUME NEW w \in Workers PROVE result[w] \in Seq(MessageSet(Issued, E))
    <3>1. bridged => <<m>> \in Seq(MessageSet(Issued, E))
      BY <2>1
    <3>2. CASE result[w] = <<>>
      BY <3>2
    <3>3. CASE bridged /\ result[w] = <<m>>
      BY <3>1, <3>3
    <3> QED
      BY <2>2, <3>2, <3>3
  <2>5. Ports(result, Issued, E)
    BY <2>3, <2>4 DEF Ports
  <2> QED
    BY <2>1, <2>2, <2>5
<1> HIDE DEF result
<1>7. \A w \in Workers : \E r \in Seq(MessageSet(Issued, E)) :
        /\ r = toWorker[w] \o result[w]
        /\ \/ r = toWorker[w]
           \/ \E m \in MessageSet(Issued, E) :
                /\ m.kind = "result" /\ m.call = c /\ m.refs \subseteq E \ Entries
                /\ bridged /\ Caller(c) = w
                /\ r = Append(toWorker[w], m)
  <2> TAKE w \in Workers
  <2>1. toWorker[w] \in Seq(MessageSet(Issued, E)) /\ result[w] \in Seq(MessageSet(Issued, E))
    BY <1>5, <1>6 DEF Ports
  <2>2. toWorker[w] \o result[w] \in Seq(MessageSet(Issued, E))
    BY <2>1
  <2>3. CASE result[w] = <<>>
    BY <2>1, <2>2, <2>3, OneIsAppend
  <2>4. ASSUME NEW m \in MessageSet(Issued, E), m.kind = "result", m.call = c, result[w] = <<m>>
        PROVE  toWorker[w] \o result[w] = Append(toWorker[w], m)
    BY <2>1, <2>4, OneIsAppend
  <2> QED
    BY <1>6, <2>2, <2>3, <2>4
<1>8. /\ Issued' = Issued /\ calls' \in Seq(CallSet(Issued, Entries))
      /\ \A d \in Issued :
           /\ calls'[d].kind = calls[d].kind /\ calls'[d].by = calls[d].by
           /\ calls'[d].actor = calls[d].actor /\ calls'[d].prev = calls[d].prev
           /\ calls'[d].fns = calls[d].fns
           /\ d = c => calls'[d].st = IF bridged THEN "answered" ELSE "settled"
           /\ d # c => calls'[d].st = IF d \in next THEN "sent" ELSE St(d)
  <2>1. ASSUME NEW d \in Issued
        PROVE  /\ calls'[d] \in CallSet(Issued, Entries)
               /\ calls'[d].kind = calls[d].kind /\ calls'[d].by = calls[d].by
               /\ calls'[d].actor = calls[d].actor /\ calls'[d].prev = calls[d].prev
               /\ calls'[d].fns = calls[d].fns
               /\ d = c => calls'[d].st = IF bridged THEN "answered" ELSE "settled"
               /\ d # c => calls'[d].st = IF d \in next THEN "sent" ELSE St(d)
    <3>1. calls[d] \in CallSet(Issued, Entries)
      BY Numbers
    <3>2. \E st \in {"sent", "answered", "settled"} :
            /\ calls'[d] = [calls[d] EXCEPT !.st = st] \/ (d # c /\ d \notin next /\ calls'[d] = calls[d])
            /\ d = c => st = IF bridged THEN "answered" ELSE "settled"
            /\ d # c => st = "sent" /\ (calls'[d] # calls[d] => d \in next)
            /\ d # c /\ d \in next => calls'[d] = [calls[d] EXCEPT !.st = "sent"]
      BY <1>1 DEF Ended
    <3> QED
      BY <3>1, <3>2 DEF CallSet, St
  <2>2. DOMAIN calls' = 1..Len(calls) /\ Len(calls) \in Nat /\ Issued = 1..Len(calls)
    BY <1>1, Numbers
  <2>3. calls' = [d \in 1..Len(calls) |-> calls'[d]]
    BY <1>1, <2>2
  <2>4. calls' \in [1..Len(calls) -> CallSet(Issued, Entries)]
    BY <2>1, <2>2, <2>3
  <2>5. calls' \in Seq(CallSet(Issued, Entries)) /\ Issued' = Issued
    BY <2>2, <2>4 DEF Issued
  <2> QED
    BY <2>1, <2>5
<1>9. held' \in [Sides -> SUBSET Entries]
  BY <1>1 DEF WellTyped
<1>10. ASSUME E \subseteq Entries', Table(entries', Issued, Entries'), Ports(toWorker', Issued, Entries'),
               \A e \in E : entries'[e] = es[e],
               \A e \in Entries' \ E : \E d \in next : New(entries'[e], Host, calls[d].fns, d, NoActor),
               \A w \in Workers : PostsOf(c, toWorker[w], toWorker'[w], w)
       PROVE  Settled(c, fs)
  <2>1. Entries \subseteq Entries'
    BY <1>4, <1>10
  <2>2. calls' \in Seq(CallSet(Issued', Entries'))
    BY <1>8, <2>1, TypesGrow
  <2>3. held' \in [Sides -> SUBSET Entries']
    BY <1>9, <2>1
  <2>4. \A e \in Entries :
          /\ entries'[e].at = entries[e].at /\ entries'[e].fn = entries[e].fn
          /\ entries'[e].scope = entries[e].scope /\ entries'[e].actor = entries[e].actor
          /\ entries'[e].live <=> entries[e].live /\ entries[e].scope # c
    BY <1>2, <1>4, <1>10
  <2>5. \A e \in Entries' \ Entries :
          \/ bridged /\ New(entries'[e], Host, fs, Unscoped, NoActor)
          \/ \E d \in Following(c) : New(entries'[e], Host, calls[d].fns, d, NoActor)
    BY <1>4, <1>10 DEF next
  <2> QED
    BY <1>1, <1>8, <1>10, <2>1, <2>2, <2>3, <2>4, <2>5 DEF Settled, next
<1>11. CASE next = {}
  <2>1. entries' = es /\ toWorker' = [w \in Workers |-> toWorker[w] \o result[w]]
    BY <1>1, <1>11
  <2>2. Entries' = E
    BY <2>1 DEF Entries
  <2>3. \A w \in Workers : PostsOf(c, toWorker[w], toWorker'[w], w)
    BY <1>7, <1>8, <2>1, <2>2 DEF PostsOf
  <2>4. Ports(toWorker', Issued, Entries')
    BY <1>7, <2>1, <2>2 DEF Ports
  <2> QED
    BY <1>4, <1>10, <2>1, <2>2, <2>3, <2>4
<1>12. ASSUME NEW d \in next, Start(d, calls[d].fns, es, result)
       PROVE  Settled(c, fs)
  <2> DEFINE w0 == Home[calls'[d].actor]
  <2>1. d \in Issued /\ calls[d] \in CallSet(Issued, Entries)
    BY Numbers DEF next, Following
  <2>2. w0 \in Workers /\ w0 = Side(d)
    BY <1>8, <2>1, CallbacksAssumption, Numbers DEF CallSet, Side
  <2>3. calls[d].fns \in Passable(E) /\ IsFiniteSet(calls[d].fns)
    <3>1. calls[d].fns \in Passable(Entries)
      BY <2>1 DEF CallSet
    <3> QED
      BY <1>4, <3>1, FewFunctions DEF Passable
  <2>4. Started(d, calls[d].fns, es, Issued, result, w0)
    BY <1>4, <1>5, <1>6, <1>12, <2>1, <2>2, <2>3, StartIs
  <2> HIDE DEF w0
  <2>5. PICK m \in MessageSet(Issued, Entries') :
          /\ m.kind = "call" /\ m.call = d /\ m.refs \subseteq Entries' \ E
          /\ \A w \in Workers : toWorker'[w] =
               IF w = w0 THEN Append(toWorker[w] \o result[w], m) ELSE toWorker[w] \o result[w]
    BY <2>4 DEF Started
  <2>6. E \subseteq Entries' /\ Table(entries', Issued, Entries') /\ Ports(toWorker', Issued, Entries')
    BY <2>4 DEF Started
  <2>7. MessageSet(Issued, E) \subseteq MessageSet(Issued, Entries')
        /\ Seq(MessageSet(Issued, E)) \subseteq Seq(MessageSet(Issued, Entries'))
    BY <2>6, TypesGrow
  <2>8. ASSUME NEW w \in Workers PROVE PostsOf(c, toWorker[w], toWorker'[w], w)
    <3>1. PICK r \in Seq(MessageSet(Issued, E)) :
            /\ r = toWorker[w] \o result[w]
            /\ \/ r = toWorker[w]
               \/ \E l \in MessageSet(Issued, E) :
                    /\ l.kind = "result" /\ l.call = c /\ l.refs \subseteq E \ Entries
                    /\ bridged /\ Caller(c) = w /\ r = Append(toWorker[w], l)
      BY <1>7
    <3>2. r \in Seq(MessageSet(Issued, Entries'))
      BY <2>7, <3>1
    <3>3. \/ r = toWorker[w]
          \/ \E l \in MessageSet(Issued, Entries') :
               /\ l.kind = "result" /\ l.call = c /\ l.refs \subseteq Entries' \ Entries
               /\ bridged /\ Caller(c) = w /\ r = Append(toWorker[w], l)
      BY <2>6, <2>7, <3>1
    <3>4. toWorker'[w] = r \/ (w = w0 /\ toWorker'[w] = Append(r, m))
      BY <2>5, <3>1
    <3>5. /\ m.call \in Following(c) /\ m.kind = "call" /\ Side(m.call) = w0
          /\ m.refs \subseteq Entries' \ Entries
      BY <1>4, <2>2, <2>5 DEF next
    <3> QED
      BY <1>8, <2>5, <3>2, <3>3, <3>4, <3>5 DEF PostsOf
  <2>9. /\ \A e \in E : entries'[e] = es[e]
        /\ \A e \in Entries' \ E : \E k \in next : New(entries'[e], Host, calls[k].fns, k, NoActor)
    BY <2>4 DEF Started
  <2> QED
    BY <1>10, <2>6, <2>8, <2>9
<1> QED
  BY <1>1, <1>11, <1>12

-----------------------------------------------------------------------------
(* Type correctness.                                                       *)

LEMMA InitTyped == Init => WellTyped
<1> SUFFICES ASSUME Init PROVE WellTyped
  OBVIOUS
<1>1. Issued = {} /\ Entries = {}
  BY DEF Init, Issued, Entries
<1>2. calls \in Seq(CallSet({}, {})) /\ entries \in Seq(EntrySet({}, {}))
  BY DEF Init
<1>3. MaxInvokes \in Nat
  BY CallbacksAssumption
<1> QED
  BY <1>1, <1>2, <1>3 DEF Init, WellTyped

\* ports from which a message was taken
Taken(f, g, w) == f[w] # <<>> /\ g = [f EXCEPT ![w] = Tail(f[w])]

LEMMA TakenIs ==
  ASSUME NEW C, NEW E, NEW f, NEW g, Ports(f, C, E), NEW w \in Workers, Taken(f, g, w)
  PROVE  /\ Ports(g, C, E) /\ Head(f[w]) \in MessageSet(C, E)
         /\ g[w] = Tail(f[w]) /\ \A v \in Workers \ {w} : g[v] = f[v]
<1>1. f[w] \in Seq(MessageSet(C, E)) /\ f[w] # <<>>
  BY DEF Ports, Taken
<1>2. Tail(f[w]) \in Seq(MessageSet(C, E)) /\ Head(f[w]) \in MessageSet(C, E)
  BY <1>1, TailIs
<1> QED
  BY <1>2 DEF Ports, Taken

\* a message is posted to one port
Posted(f, g, w, m) == g = [f EXCEPT ![w] = Append(@, m)]

LEMMA PostedIs ==
  ASSUME NEW C, NEW E, NEW f, NEW g, Ports(f, C, E), NEW w, NEW m \in MessageSet(C, E),
         Posted(f, g, w, m)
  PROVE  /\ Ports(g, C, E)
         /\ \A v \in Workers : g[v] = IF v = w THEN Append(f[v], m) ELSE f[v]
<1> USE DEF Posted
<1>1. \A v \in Workers :
        /\ f[v] \in Seq(MessageSet(C, E))
        /\ g[v] = IF v = w THEN Append(f[v], m) ELSE f[v]
  BY DEF Ports
<1>2. \A v \in Workers : g[v] \in Seq(MessageSet(C, E))
  BY <1>1, AddIs
<1> QED
  BY <1>1, <1>2 DEF Ports

\* q is p, and perhaps an invocation behind it
Invoked(p, q) ==
  q = p \/ \E m \in MessageSet(Issued, Entries) : m.kind = "invoke" /\ q = Append(p, m)

LEMMA ForwardIs ==
  ASSUME NEW s, NEW e \in Entries, NEW due \in BOOLEAN, NEW up, NEW down,
         Ports(up, Issued, Entries), Ports(down, Issued, Entries), Forward(s, e, due, up, down)
  PROVE  /\ Ports(toHost', Issued, Entries) /\ Ports(toWorker', Issued, Entries)
         /\ \A w \in Workers : Invoked(up[w], toHost'[w]) /\ Invoked(down[w], toWorker'[w])
<1> DEFINE m == Invoke(e, due)
<1>1. m \in MessageSet(Issued, Entries) /\ m.kind = "invoke"
  BY DEF Invoke, MessageSet
<1>2. CASE s = Host
  <2>1. Posted(down, toWorker', entries[e].at, m) /\ toHost' = up
    BY <1>2 DEF Forward, Posted
  <2> HIDE DEF m
  <2>2. /\ Ports(toWorker', Issued, Entries)
        /\ \A v \in Workers : toWorker'[v] = IF v = entries[e].at THEN Append(down[v], m) ELSE down[v]
    BY <1>1, <2>1, PostedIs
  <2> QED
    BY <1>1, <2>1, <2>2 DEF Invoked
<1>3. CASE s # Host
  <2>1. Posted(up, toHost', s, m) /\ toWorker' = down
    BY <1>3 DEF Forward, Posted
  <2> HIDE DEF m
  <2>2. /\ Ports(toHost', Issued, Entries)
        /\ \A v \in Workers : toHost'[v] = IF v = s THEN Append(up[v], m) ELSE up[v]
    BY <1>1, <2>1, PostedIs
  <2> QED
    BY <1>1, <2>1, <2>2 DEF Invoked
<1> QED
  BY <1>2, <1>3

\* the rest of WellTyped, when calls and entries were added
LEMMA RestTyped ==
  ASSUME WellTyped, Issued \subseteq Issued', Entries \subseteq Entries'
  PROVE  /\ UNCHANGED calls => calls' \in Seq(CallSet(Issued', Entries'))
         /\ UNCHANGED mailboxes => mailboxes' \in [Actors -> Issued' \cup {0}]
         /\ UNCHANGED running => running' \subseteq Issued'
         /\ UNCHANGED objects => objects' \subseteq Actors
         /\ UNCHANGED entries => Table(entries', Issued', Entries')
         /\ UNCHANGED held => held' \in [Sides -> SUBSET Entries']
         /\ UNCHANGED toWorker => Ports(toWorker', Issued', Entries')
         /\ UNCHANGED toHost => Ports(toHost', Issued', Entries')
         /\ UNCHANGED invokes => invokes' \in 0..MaxInvokes
         /\ UNCHANGED gaveUp => gaveUp' \subseteq Issued'
         /\ UNCHANGED hasty => hasty' \subseteq Issued'
         /\ Ports(toHost, Issued', Entries') /\ Ports(toWorker, Issued', Entries')
<1> DEFINE C == Issued'
           E == Entries'
<1> HIDE DEF C, E
<1>1. Issued \subseteq C /\ Entries \subseteq E
  BY DEF C, E
<1>2. /\ calls \in Seq(CallSet(C, E)) /\ mailboxes \in [Actors -> C \cup {0}]
      /\ running \subseteq C /\ objects \subseteq Actors
      /\ entries \in Seq(EntrySet(C, E)) /\ held \in [Sides -> SUBSET E]
      /\ toWorker \in [Workers -> Seq(MessageSet(C, E))]
      /\ toHost \in [Workers -> Seq(MessageSet(C, E))]
      /\ gaveUp \subseteq C /\ hasty \subseteq C
  BY <1>1, Widened
<1>3. invokes \in 0..MaxInvokes
  BY DEF WellTyped
<1>4. Ports(toHost, C, E) /\ Ports(toWorker, C, E) /\ Table(entries, C, E)
  BY <1>2 DEF Ports, Table
<1> QED
  BY <1>2, <1>3, <1>4 DEF C, E

LEMMA EnqueueTyped ==
  ASSUME WellTyped, NEW c, NEW call, Enqueued(c, call), Ports(toHost', Issued', Entries'),
         UNCHANGED <<running, objects, held, invokes, gaveUp, hasty>>
  PROVE  WellTyped'
<1>1. Issued \subseteq Issued' /\ Entries \subseteq Entries'
  BY DEF Enqueued
<1>2. /\ running' \subseteq Issued' /\ objects' \subseteq Actors /\ held' \in [Sides -> SUBSET Entries']
      /\ invokes' \in 0..MaxInvokes /\ gaveUp' \subseteq Issued' /\ hasty' \subseteq Issued'
  BY <1>1, RestTyped
<1> QED
  BY <1>2 DEF WellTyped, Enqueued, Table, Ports

LEMMA SettleTyped ==
  ASSUME WellTyped, NEW c \in Issued, NEW fs, Settled(c, fs), Ports(toHost', Issued', Entries'),
         mailboxes' \in [Actors -> Issued \cup {0}],
         gaveUp' \subseteq gaveUp \cup {c},
         UNCHANGED <<running, objects, invokes, hasty>>
  PROVE  WellTyped'
<1>1. Issued \subseteq Issued' /\ Entries \subseteq Entries' /\ Issued' = Issued
  BY DEF Settled
<1>2. /\ running' \subseteq Issued' /\ objects' \subseteq Actors
      /\ invokes' \in 0..MaxInvokes /\ hasty' \subseteq Issued'
  BY <1>1, RestTyped
<1>3. gaveUp' \subseteq Issued'
  BY <1>1 DEF WellTyped
<1> QED
  BY <1>1, <1>2, <1>3 DEF WellTyped, Settled, Table, Ports

\* the messages of a call in a port
LEMMA MessageIs ==
  ASSUME NEW C, NEW E, NEW m \in MessageSet(C, E)
  PROVE  /\ m.kind \in {"call", "answer", "result", "invoke"}
         /\ m.kind # "invoke" => m.call \in C /\ m.refs \in SUBSET E
         /\ m.kind = "invoke" => m.entry \in E /\ m.due \in BOOLEAN
BY DEF MessageSet

LEMMA HeadIs ==
  ASSUME WellTyped, NEW w \in Workers
  PROVE  /\ toHost[w] # <<>> => Head(toHost[w]) \in MessageSet(Issued, Entries)
                                /\ Head(toHost[w]) \in ToSet(toHost[w])
         /\ toWorker[w] # <<>> => Head(toWorker[w]) \in MessageSet(Issued, Entries)
                                  /\ Head(toWorker[w]) \in ToSet(toWorker[w])
<1>1. toHost[w] \in Seq(MessageSet(Issued, Entries)) /\ toWorker[w] \in Seq(MessageSet(Issued, Entries))
  BY DEF WellTyped
<1> QED
  BY <1>1, TailIs

\* a new call is well typed
LEMMA NewCallIs ==
  ASSUME NEW C, NEW E, NEW kind \in {"call", "destroy"}, NEW by \in C \cup {User}, NEW a \in Actors,
         NEW fs \in Passable(E)
  PROVE  LET call == NewCall(kind, by, a, fs) IN
         /\ call \in CallSet(C, E) /\ call.actor = a /\ call.by = by /\ call.kind = kind
         /\ call.st = "asked"
BY DEF NewCall, CallSet

\* what a side has to pass
LEMMA PassedIs ==
  ASSUME WellTyped, NEW s \in Sides, NEW fs \in Passed(s)
  PROVE  fs \in Passable(Entries) /\ IsFiniteSet(fs)
<1>1. fs \in Passable(Entries)
  BY DEF Passed, Passable, WellTyped
<1> QED
  BY <1>1, FewFunctions

LEMMA SideIs ==
  ASSUME WellTyped, NEW c \in Issued
  PROVE  Side(c) \in Workers /\ Side(c) = Home[calls[c].actor] /\ calls[c].actor \in Actors
BY Numbers, CallbacksAssumption DEF Side, CallSet

\* StubCalls, step by step
StubCalled(p, a, fs) ==
  LET c == Len(calls) + 1 IN
  /\ c \notin Issued /\ Issued' = Issued \cup {c}
  /\ \A d \in Issued : calls'[d] = calls[d]
  /\ calls'[c].st = "asked" /\ calls'[c].by = p /\ calls'[c].actor = a /\ calls'[c].kind = "call"
  /\ Entries \subseteq Entries'
  /\ \A e \in Entries : entries'[e] = entries[e]
  /\ \A e \in Entries' \ Entries : New(entries'[e], Side(p), fs, Unscoped, NoActor)
  /\ calls'[c].fns = Entries' \ Entries
  /\ \E m \in MessageSet(Issued', Entries') :
       m.kind = "call" /\ m.call = c /\ Posted(toHost, toHost', Side(p), m)

LEMMA StubCallsIs ==
  ASSUME WellTyped, NEW p \in running, NEW a \in Actors, NEW fs \in Passed(Side(p)), StubCalls(p, a, fs)
  PROVE  WellTyped' /\ StubCalled(p, a, fs)
<1> DEFINE c == Len(calls) + 1
           refs == Refs(entries, fs)
           call == NewCall("call", p, a, refs)
           m == CallMsg(c, refs)
<1>1. p \in Issued /\ Side(p) \in Workers /\ Side(p) \in Sides
  BY SideIs DEF WellTyped, Sides
<1>2. fs \in Passable(Entries) /\ IsFiniteSet(fs)
  BY <1>1, PassedIs
<1>3. Table(entries', Issued, Entries) /\ Registered(entries, entries', Side(p), fs, Unscoped, NoActor)
  <2>1. Table(entries, Issued, Entries)
    BY DEF WellTyped, Table
  <2>2. Unscoped \in Issued \cup {Unscoped} /\ NoActor \in Actors \cup {NoActor}
    OBVIOUS
  <2>3. entries' = Register(entries, Side(p), fs, Unscoped, NoActor)
    BY DEF StubCalls
  <2> QED
    BY <1>1, <1>2, <2>1, <2>2, <2>3, RegisterIs
<1>4. /\ Entries' = Entries \cup refs /\ refs \in SUBSET Entries' /\ Entries \subseteq Entries'
      /\ \A e \in Entries : entries'[e] = entries[e] /\ e \notin refs
      /\ \A e \in refs : New(entries'[e], Side(p), fs, Unscoped, NoActor)
  BY <1>3 DEF Registered, Entries
<1>5. calls' = Append(calls, call) /\ Posted(toHost, toHost', Side(p), m)
  BY DEF StubCalls, Posted
<1> HIDE DEF refs
<1>6. /\ call \in CallSet(Issued, Entries') /\ call.actor = a /\ call.by = p /\ call.kind = "call"
      /\ call.st = "asked" /\ call.fns = refs
  <2>1. refs \in Passable(Entries') /\ p \in Issued \cup {User}
    BY <1>1, <1>4 DEF Passable
  <2> QED
    BY <2>1 DEF NewCall, CallSet
<1> HIDE DEF call
<1>7. calls \in Seq(CallSet(Issued, Entries'))
  BY <1>4, Widened
<1>8. /\ calls' \in Seq(CallSet(Issued, Entries')) /\ Issued' = Issued \cup {c} /\ c \notin Issued
      /\ calls'[c] = call /\ \A d \in Issued : calls'[d] = calls[d]
  BY <1>5, <1>6, <1>7 DEF Issued
<1>9. m \in MessageSet(Issued', Entries') /\ m.kind = "call" /\ m.call = c
  BY <1>4, <1>8 DEF CallMsg, MessageSet
<1> HIDE DEF m
<1>10. Issued \subseteq Issued'
  BY <1>8
<1>11. /\ calls' \in Seq(CallSet(Issued', Entries')) /\ Table(entries', Issued', Entries')
  <2>1. Seq(CallSet(Issued, Entries')) \subseteq Seq(CallSet(Issued', Entries'))
    BY <1>10, TypesGrow
  <2>2. Seq(EntrySet(Issued, Entries)) \subseteq Seq(EntrySet(Issued', Entries'))
    BY <1>4, <1>10, TypesGrow
  <2> QED
    BY <1>3, <1>8, <2>1, <2>2 DEF Table
<1>12. /\ mailboxes' \in [Actors -> Issued' \cup {0}] /\ running' \subseteq Issued'
       /\ objects' \subseteq Actors /\ held' \in [Sides -> SUBSET Entries']
       /\ Ports(toWorker', Issued', Entries') /\ invokes' \in 0..MaxInvokes
       /\ gaveUp' \subseteq Issued' /\ hasty' \subseteq Issued'
       /\ Ports(toHost, Issued', Entries')
  BY <1>4, <1>10, RestTyped DEF StubCalls
<1>13. Ports(toHost', Issued', Entries')
  BY <1>5, <1>9, <1>12, PostedIs
<1>14. WellTyped'
  BY <1>11, <1>12, <1>13 DEF WellTyped, Table, Ports
<1>15. StubCalled(p, a, fs)
  BY <1>4, <1>5, <1>6, <1>8, <1>9 DEF StubCalled
<1> QED
  BY <1>14, <1>15

LEMMA HostCallsTyped ==
  ASSUME WellTyped, NEW kind \in {"call", "destroy"}, NEW a \in Actors, NEW fs \in Passable(Entries),
         Enqueue(Len(calls) + 1, NewCall(kind, User, a, fs)),
         UNCHANGED <<running, objects, held, toHost, invokes, gaveUp, hasty>>
  PROVE  WellTyped' /\ Enqueued(Len(calls) + 1, NewCall(kind, User, a, fs))
<1> DEFINE call == NewCall(kind, User, a, fs)
<1>1. call \in CallSet(Issued, Entries)
  BY NewCallIs
<1>2. Enqueued(Len(calls) + 1, call)
  BY <1>1, EnqueueIs
<1>3. Issued \subseteq Issued' /\ Entries \subseteq Entries'
  BY <1>2 DEF Enqueued
<1>4. Ports(toHost', Issued', Entries')
  BY <1>3, RestTyped
<1> HIDE DEF call
<1>5. WellTyped'
  BY <1>2, <1>4, EnqueueTyped
<1> QED
  BY <1>2, <1>5 DEF call

LEMMA HandleBridgeCallIs ==
  ASSUME WellTyped, NEW w \in Workers, HandleBridgeCall(w)
  PROVE  LET c == Head(toHost[w]).call IN
         /\ c \in Issued /\ Head(toHost[w]).kind = "call"
         /\ WellTyped' /\ Enqueued(c, calls[c]) /\ Taken(toHost, toHost', w)
<1> DEFINE c == Head(toHost[w]).call
<1>1. Taken(toHost, toHost', w) /\ Head(toHost[w]).kind = "call" /\ Enqueue(c, calls[c])
  BY DEF HandleBridgeCall, TakeHost, Taken
<1>2. Head(toHost[w]) \in MessageSet(Issued, Entries)
  BY <1>1, HeadIs DEF Taken
<1>3. c \in Issued
  BY <1>1, <1>2, MessageIs
<1>4. calls[c] \in CallSet(Issued, Entries)
  BY <1>3, Numbers
<1>5. Enqueued(c, calls[c])
  BY <1>1, <1>3, <1>4, EnqueueIs
<1>6. Issued \subseteq Issued' /\ Entries \subseteq Entries'
  BY <1>5 DEF Enqueued
<1>7. Ports(toHost, Issued', Entries')
  BY <1>6, RestTyped
<1>8. Ports(toHost', Issued', Entries')
  BY <1>1, <1>7, TakenIs
<1>9. UNCHANGED <<running, objects, held, invokes, gaveUp, hasty>>
  BY DEF HandleBridgeCall
<1> HIDE DEF c
<1>10. WellTyped'
  BY <1>5, <1>8, <1>9, EnqueueTyped
<1> QED
  BY <1>1, <1>3, <1>5, <1>10 DEF c

LEMMA OnAnswerIs ==
  ASSUME WellTyped, NEW w \in Workers, OnAnswer(w)
  PROVE  LET c == Head(toHost[w]).call IN
         /\ WellTyped' /\ Taken(toHost, toHost', w)
         /\ c \in Issued /\ Head(toHost[w]).kind = "answer"
         /\ IF St(c) = "sent"
            THEN /\ Settled(c, Head(toHost[w]).refs)
                 /\ \/ mailboxes' = mailboxes
                    \/ /\ calls[c].kind = "destroy"
                       /\ mailboxes' = [mailboxes EXCEPT ![calls[c].actor] = 0]
            ELSE UNCHANGED <<calls, mailboxes, entries, held, toWorker>>
<1> DEFINE c == Head(toHost[w]).call
           fs == Head(toHost[w]).refs
<1>1. Taken(toHost, toHost', w) /\ Head(toHost[w]).kind = "answer"
  BY DEF OnAnswer, TakeHost, Taken
<1>2. Head(toHost[w]) \in MessageSet(Issued, Entries)
  BY <1>1, HeadIs DEF Taken
<1>3. c \in Issued /\ fs \in SUBSET Entries
  BY <1>1, <1>2, MessageIs
<1>4. UNCHANGED <<running, objects, invokes, gaveUp, hasty>>
  BY DEF OnAnswer
<1>5. CASE St(c) = "sent"
  <2>1. /\ Settle(c, fs)
        /\ mailboxes' = IF calls[c].kind = "destroy"
                        THEN [mailboxes EXCEPT ![calls[c].actor] = 0] ELSE mailboxes
    BY <1>5 DEF OnAnswer, St
  <2> HIDE DEF c, fs
  <2>2. Settled(c, fs)
    BY <1>3, <2>1, SettleIs
  <2>3. Issued \subseteq Issued' /\ Entries \subseteq Entries'
    BY <2>2 DEF Settled
  <2>4. Ports(toHost', Issued', Entries')
    BY <1>1, <2>3, RestTyped, TakenIs
  <2>5. mailboxes' \in [Actors -> Issued \cup {0}]
    BY <2>1 DEF WellTyped
  <2>6. WellTyped'
    BY <1>3, <1>4, <2>2, <2>4, <2>5, SettleTyped
  <2> QED
    BY <1>1, <1>3, <1>5, <2>1, <2>2, <2>6 DEF c, fs
<1>6. CASE St(c) # "sent"
  <2>1. UNCHANGED <<calls, mailboxes, entries, held, toWorker>>
    BY <1>6 DEF OnAnswer, St
  <2>2. Issued' = Issued /\ Entries' = Entries
    BY <2>1 DEF Issued, Entries
  <2>3. Ports(toHost, Issued, Entries)
    BY DEF WellTyped, Ports
  <2>4. Ports(toHost', Issued, Entries)
    BY <1>1, <2>3, TakenIs
  <2>5. WellTyped'
    BY <1>4, <2>1, <2>2, <2>4 DEF WellTyped, Ports
  <2> QED
    BY <1>1, <1>3, <1>6, <2>1, <2>5
<1> QED
  BY <1>5, <1>6

LEMMA TimerFiresIs ==
  ASSUME WellTyped, NEW c \in Issued, TimerFires(c)
  PROVE  /\ WellTyped' /\ Settled(c, {}) /\ St(c) = "sent" /\ calls[c].kind = "call"
         /\ gaveUp' = gaveUp \cup {c}
<1>1. /\ Settle(c, {}) /\ St(c) = "sent" /\ calls[c].kind = "call"
      /\ gaveUp' = gaveUp \cup {c}
      /\ UNCHANGED <<mailboxes, running, objects, toHost, invokes, hasty>>
  BY DEF TimerFires, St
<1>2. Settled(c, {})
  BY <1>1, SettleIs
<1>3. Issued \subseteq Issued' /\ Entries \subseteq Entries'
  BY <1>2 DEF Settled
<1>4. Ports(toHost', Issued', Entries')
  BY <1>1, <1>3, RestTyped
<1>5. mailboxes' \in [Actors -> Issued \cup {0}]
  BY <1>1 DEF WellTyped
<1>6. gaveUp' \subseteq gaveUp \cup {c}
  BY <1>1
<1>7. WellTyped'
  BY <1>1, <1>2, <1>4, <1>5, <1>6, SettleTyped
<1> QED
  BY <1>1, <1>2, <1>7

LEMMA HandleCallIs ==
  ASSUME WellTyped, NEW w \in Workers, HandleCall(w)
  PROVE  LET c == Head(toWorker[w]).call IN
         /\ WellTyped' /\ Taken(toWorker, toWorker', w)
         /\ c \in Issued /\ Head(toWorker[w]).kind = "call"
         /\ \/ /\ calls[c].actor \in objects /\ running' = running \cup {c}
               /\ UNCHANGED toHost
            \/ /\ calls[c].actor \notin objects /\ UNCHANGED running
               /\ \E m \in MessageSet(Issued, Entries) :
                    m.kind = "answer" /\ m.call = c /\ m.refs = {} /\ Posted(toHost, toHost', w, m)
<1> DEFINE c == Head(toWorker[w]).call
           refs == Head(toWorker[w]).refs
           m == Answer(c, {})
<1>1. /\ Taken(toWorker, toWorker', w) /\ Head(toWorker[w]).kind = "call"
      /\ \/ /\ calls[c].actor \in objects /\ running' = running \cup {c}
            /\ held' = [held EXCEPT ![w] = held[w] \cup refs] /\ UNCHANGED toHost
         \/ /\ calls[c].actor \notin objects /\ UNCHANGED <<running, held>>
            /\ Posted(toHost, toHost', w, m)
      /\ UNCHANGED <<calls, mailboxes, objects, entries, invokes, gaveUp, hasty>>
  BY DEF HandleCall, TakeWorker, Taken, Posted
<1>2. Head(toWorker[w]) \in MessageSet(Issued, Entries)
  BY <1>1, HeadIs DEF Taken
<1>3. c \in Issued /\ refs \in SUBSET Entries
  BY <1>1, <1>2, MessageIs
<1>4. Issued' = Issued /\ Entries' = Entries
  BY <1>1 DEF Issued, Entries
<1>5. m \in MessageSet(Issued, Entries) /\ m.kind = "answer" /\ m.call = c /\ m.refs = {}
  BY <1>3 DEF Answer, MessageSet
<1> HIDE DEF c, refs, m
<1>6. Ports(toWorker, Issued, Entries) /\ Ports(toHost, Issued, Entries)
  BY DEF WellTyped, Ports
<1>7. Ports(toWorker', Issued, Entries)
  BY <1>1, <1>6, TakenIs
<1>8. Ports(toHost', Issued, Entries)
  <2>1. Posted(toHost, toHost', w, m) => Ports(toHost', Issued, Entries)
    BY <1>5, <1>6, PostedIs
  <2> QED
    BY <1>1, <1>6, <2>1
<1>9. held' \in [Sides -> SUBSET Entries] /\ running' \subseteq Issued
  BY <1>1, <1>3 DEF WellTyped
<1>10. WellTyped'
  BY <1>1, <1>4, <1>7, <1>8, <1>9 DEF WellTyped, Ports
<1> QED
  BY <1>1, <1>3, <1>5, <1>10 DEF c

LEMMA HandleResultIs ==
  ASSUME WellTyped, NEW w \in Workers, HandleResult(w)
  PROVE  LET c == Head(toWorker[w]).call IN
         /\ WellTyped' /\ Taken(toWorker, toWorker', w)
         /\ c \in Issued /\ Head(toWorker[w]).kind = "result"
         /\ Issued' = Issued
         /\ \A d \in Issued :
              /\ calls'[d].kind = calls[d].kind /\ calls'[d].by = calls[d].by
              /\ calls'[d].actor = calls[d].actor /\ calls'[d].prev = calls[d].prev
              /\ calls'[d].fns = calls[d].fns
              /\ calls'[d].st = IF d = c THEN "settled" ELSE St(d)
<1> DEFINE c == Head(toWorker[w]).call
           refs == Head(toWorker[w]).refs
<1>1. /\ Taken(toWorker, toWorker', w) /\ Head(toWorker[w]).kind = "result"
      /\ calls' = [calls EXCEPT ![c] = [calls[c] EXCEPT !.st = "settled"]]
      /\ held' = [held EXCEPT ![w] = held[w] \cup refs]
      /\ UNCHANGED <<mailboxes, running, objects, entries, toHost, invokes, gaveUp, hasty>>
  BY DEF HandleResult, TakeWorker, Taken
<1>2. Head(toWorker[w]) \in MessageSet(Issued, Entries)
  BY <1>1, HeadIs DEF Taken
<1>3. c \in Issued /\ refs \in SUBSET Entries
  BY <1>1, <1>2, MessageIs
<1> HIDE DEF c, refs
<1>4. calls \in Seq(CallSet(Issued, Entries)) /\ calls[c] \in CallSet(Issued, Entries)
  BY <1>3, Numbers DEF WellTyped
<1> DEFINE settled == [calls[c] EXCEPT !.st = "settled"]
<1>5. /\ settled \in CallSet(Issued, Entries) /\ settled.kind = calls[c].kind
      /\ settled.by = calls[c].by /\ settled.actor = calls[c].actor /\ settled.prev = calls[c].prev
      /\ settled.fns = calls[c].fns
      /\ settled.st = "settled"
  BY <1>4 DEF CallSet
<1> HIDE DEF settled
<1>6. calls' = [calls EXCEPT ![c] = settled]
  BY <1>1 DEF settled
<1>7. /\ calls' \in Seq(CallSet(Issued, Entries)) /\ DOMAIN calls' = DOMAIN calls
      /\ calls'[c] = settled /\ \A d \in DOMAIN calls \ {c} : calls'[d] = calls[d]
  BY <1>3, <1>4, <1>5, <1>6, ExceptIs DEF Issued
<1>8. Issued' = Issued /\ Entries' = Entries
  BY <1>1, <1>7 DEF Issued, Entries
<1>9. Ports(toWorker, Issued, Entries) /\ Ports(toHost', Issued, Entries)
  BY <1>1 DEF WellTyped, Ports
<1>10. Ports(toWorker', Issued, Entries)
  BY <1>1, <1>9, TakenIs
<1>11. held' \in [Sides -> SUBSET Entries]
  BY <1>1, <1>3 DEF WellTyped
<1>12. WellTyped'
  BY <1>1, <1>7, <1>8, <1>9, <1>10, <1>11 DEF WellTyped, Ports
<1>13. \A d \in Issued :
         /\ calls'[d].kind = calls[d].kind /\ calls'[d].by = calls[d].by
         /\ calls'[d].actor = calls[d].actor /\ calls'[d].prev = calls[d].prev
         /\ calls'[d].fns = calls[d].fns
         /\ calls'[d].st = IF d = c THEN "settled" ELSE St(d)
  BY <1>5, <1>7 DEF Issued, St
<1> QED
  BY <1>1, <1>3, <1>8, <1>12, <1>13 DEF c

\* a method or a close of c answered
Answers(c) ==
  \E m \in MessageSet(Issued', Entries') :
    m.kind = "answer" /\ m.call = c /\ m.refs \subseteq Entries' \ Entries /\ Posted(toHost, toHost', Side(c), m)

LEMMA MethodReturnsIs ==
  ASSUME WellTyped, NEW c \in running, NEW fs \in Passed(Side(c)), MethodReturns(c, fs)
  PROVE  /\ WellTyped' /\ Answers(c)
         /\ Entries \subseteq Entries' /\ \A e \in Entries : entries'[e] = entries[e]
         /\ \A e \in Entries' \ Entries :
              New(entries'[e], Side(c), fs, Unscoped, calls[c].actor)
<1> DEFINE new == Refs(entries, fs)
<1>1. c \in Issued /\ Side(c) \in Workers /\ Side(c) \in Sides /\ calls[c].actor \in Actors
  BY SideIs DEF WellTyped, Sides
<1>2. fs \in Passable(Entries) /\ IsFiniteSet(fs)
  BY <1>1, PassedIs
<1>3. Table(entries', Issued, Entries) /\ Registered(entries, entries', Side(c), fs, Unscoped, calls[c].actor)
  <2>1. Table(entries, Issued, Entries)
    BY DEF WellTyped, Table
  <2>2. Unscoped \in Issued \cup {Unscoped} /\ calls[c].actor \in Actors \cup {NoActor}
    BY <1>1
  <2>3. entries' = Register(entries, Side(c), fs, Unscoped, calls[c].actor)
    BY DEF MethodReturns
  <2> QED
    BY <1>1, <1>2, <2>1, <2>2, <2>3, RegisterIs
<1>4. /\ Entries' = Entries \cup new /\ Entries \subseteq Entries'
      /\ \A e \in Entries : entries'[e] = entries[e]
      /\ \A e \in Entries' \ Entries :
           New(entries'[e], Side(c), fs, Unscoped, calls[c].actor)
  BY <1>3 DEF Registered, Entries
<1>5. Issued' = Issued
  BY DEF MethodReturns, Issued
<1>6. PICK refs \in {{}, new} : Posted(toHost, toHost', Side(c), Answer(c, refs))
  BY DEF MethodReturns, Posted
<1> DEFINE m == Answer(c, refs)
<1>7. /\ m \in MessageSet(Issued', Entries') /\ m.kind = "answer" /\ m.call = c
      /\ m.refs \subseteq Entries' \ Entries
  <2>1. refs \in SUBSET Entries' /\ refs \subseteq Entries' \ Entries
    BY <1>3, <1>4 DEF Registered, Entries
  <2> QED
    BY <1>1, <1>5, <2>1 DEF Answer, MessageSet
<1> HIDE DEF m, new
<1>8. Answers(c)
  BY <1>6, <1>7 DEF Answers, m
<1>9. /\ calls' \in Seq(CallSet(Issued', Entries')) /\ mailboxes' \in [Actors -> Issued' \cup {0}]
      /\ objects' \subseteq Actors /\ held' \in [Sides -> SUBSET Entries']
      /\ Ports(toWorker', Issued', Entries') /\ invokes' \in 0..MaxInvokes
      /\ gaveUp' \subseteq Issued' /\ Ports(toHost, Issued', Entries')
  BY <1>4, <1>5, RestTyped DEF MethodReturns
<1>10. Ports(toHost', Issued', Entries')
  BY <1>6, <1>7, <1>9, PostedIs DEF m
<1>11. running' \subseteq Issued' /\ hasty' \subseteq Issued'
  BY <1>1, <1>5 DEF MethodReturns, WellTyped
<1>12. Table(entries', Issued', Entries')
  BY <1>3, <1>4, <1>5, TypesGrow DEF Table
<1>13. WellTyped'
  BY <1>9, <1>10, <1>11, <1>12 DEF WellTyped, Ports, Table
<1> QED
  BY <1>4, <1>8, <1>13

LEMMA CloseReturnsIs ==
  ASSUME WellTyped, NEW c \in running, CloseReturns(c)
  PROVE  /\ WellTyped' /\ Answers(c) /\ Entries' = Entries
         /\ \A e \in Entries :
              /\ entries'[e].at = entries[e].at /\ entries'[e].fn = entries[e].fn
              /\ entries'[e].scope = entries[e].scope /\ entries'[e].actor = entries[e].actor
              /\ entries'[e].live <=> entries[e].live /\ entries[e].actor # calls[c].actor
<1>1. c \in Issued /\ Side(c) \in Workers
  BY SideIs DEF WellTyped
<1>2. /\ Table(entries', Issued, Entries) /\ Entries' = Entries
      /\ \A e \in Entries :
           /\ entries'[e].at = entries[e].at /\ entries'[e].fn = entries[e].fn
           /\ entries'[e].scope = entries[e].scope /\ entries'[e].actor = entries[e].actor
           /\ entries'[e].live <=> entries[e].live /\ entries[e].actor # calls[c].actor
  BY ReleaseIs DEF WellTyped, CloseReturns, ReleaseBoundToObject, Table, Entries
<1>3. Issued' = Issued
  BY DEF CloseReturns, Issued
<1> DEFINE m == Answer(c, {})
<1>4. m \in MessageSet(Issued', Entries') /\ m.kind = "answer" /\ m.call = c /\ m.refs = {}
  BY <1>1, <1>3 DEF Answer, MessageSet
<1>5. Posted(toHost, toHost', Side(c), m)
  BY DEF CloseReturns, Posted
<1> HIDE DEF m
<1>6. Answers(c)
  BY <1>4, <1>5 DEF Answers
<1>7. /\ calls' \in Seq(CallSet(Issued', Entries')) /\ mailboxes' \in [Actors -> Issued' \cup {0}]
      /\ held' \in [Sides -> SUBSET Entries']
      /\ Ports(toWorker', Issued', Entries') /\ invokes' \in 0..MaxInvokes
      /\ gaveUp' \subseteq Issued' /\ hasty' \subseteq Issued' /\ Ports(toHost, Issued', Entries')
  BY <1>2, <1>3, RestTyped DEF CloseReturns
<1>8. Ports(toHost', Issued', Entries')
  BY <1>4, <1>5, <1>7, PostedIs
<1>9. running' \subseteq Issued' /\ objects' \subseteq Actors
  BY <1>3 DEF CloseReturns, WellTyped
<1>10. WellTyped'
  BY <1>2, <1>3, <1>7, <1>8, <1>9 DEF WellTyped, Ports, Table
<1> QED
  BY <1>2, <1>6, <1>10

\* an invocation is posted, or handled at a side and perhaps passed on
InvocationMoved ==
  /\ UNCHANGED <<calls, mailboxes, running, objects, entries, held, gaveUp, hasty>>
  /\ \E up, down :
       /\ Ports(up, Issued, Entries) /\ Ports(down, Issued, Entries)
       /\ up = toHost \/ \E w \in Workers : Taken(toHost, up, w)
       /\ down = toWorker \/ \E w \in Workers : Taken(toWorker, down, w)
       /\ \A w \in Workers : Invoked(up[w], toHost'[w]) /\ Invoked(down[w], toWorker'[w])

LEMMA InvocationTyped ==
  ASSUME WellTyped, Ports(toHost', Issued, Entries), Ports(toWorker', Issued, Entries),
         UNCHANGED <<calls, mailboxes, running, objects, entries, held, gaveUp, hasty>>,
         invokes' \in 0..MaxInvokes
  PROVE  WellTyped'
<1>1. Issued' = Issued /\ Entries' = Entries
  BY DEF Issued, Entries
<1> QED
  BY <1>1 DEF WellTyped, Ports

LEMMA InvokesIs ==
  ASSUME WellTyped, NEW c \in running \cup {User}, NEW e \in held[Side(c)], Invokes(c, e)
  PROVE  WellTyped' /\ InvocationMoved
<1>1. Side(c) \in Sides
  <2>1. c = User => Side(c) = Host
    BY DEF Side
  <2> QED
    BY <2>1, SideIs DEF WellTyped, Sides
<1>2. e \in Entries
  BY <1>1 DEF WellTyped
<1>3. PICK due \in BOOLEAN : Forward(Side(c), e, due, toHost, toWorker)
  <2>1. Forward(Side(c), e, c \in Promised[e], toHost, toWorker) /\ (c \in Promised[e]) \in BOOLEAN
    BY DEF Invokes
  <2> QED
    BY <2>1, Zenon
<1>4. Ports(toHost, Issued, Entries) /\ Ports(toWorker, Issued, Entries)
  BY DEF WellTyped, Ports
<1>5. /\ Ports(toHost', Issued, Entries) /\ Ports(toWorker', Issued, Entries)
      /\ \A w \in Workers : Invoked(toHost[w], toHost'[w]) /\ Invoked(toWorker[w], toWorker'[w])
  BY <1>2, <1>3, <1>4, ForwardIs
<1>6. invokes' \in 0..MaxInvokes
  BY CallbacksAssumption DEF WellTyped, Invokes
<1>7. UNCHANGED <<calls, mailboxes, running, objects, entries, held, gaveUp, hasty>>
  BY DEF Invokes
<1>8. WellTyped'
  BY <1>5, <1>6, <1>7, InvocationTyped
<1> QED
  BY <1>4, <1>5, <1>7, <1>8 DEF InvocationMoved

LEMMA HandleInvokeIs ==
  ASSUME WellTyped, NEW s, NEW m \in MessageSet(Issued, Entries), m.kind = "invoke", NEW up, NEW down,
         Ports(up, Issued, Entries), Ports(down, Issued, Entries), HandleInvoke(s, m, up, down)
  PROVE  /\ WellTyped'
         /\ \A w \in Workers : Invoked(up[w], toHost'[w]) /\ Invoked(down[w], toWorker'[w])
<1> DEFINE x == entries[m.entry]
           due == m.due /\ (entries[x.fn].actor # NoActor => Kept(entries[x.fn].actor))
<1>1. /\ IF x.live /\ x.fn # Own THEN Forward(s, x.fn, due, up, down) ELSE toHost' = up /\ toWorker' = down
      /\ UNCHANGED <<calls, mailboxes, running, objects, entries, held, invokes, gaveUp, hasty>>
  BY DEF HandleInvoke
<1>2. m.entry \in Entries /\ x.fn \in Entries \cup {Own}
  BY MessageIs, Numbers DEF EntrySet
<1>3. due \in BOOLEAN
  OBVIOUS
<1> HIDE DEF x, due
<1>4. /\ Ports(toHost', Issued, Entries) /\ Ports(toWorker', Issued, Entries)
      /\ \A w \in Workers : Invoked(up[w], toHost'[w]) /\ Invoked(down[w], toWorker'[w])
  <2>1. CASE x.live /\ x.fn # Own
    <3>1. x.fn \in Entries /\ Forward(s, x.fn, due, up, down)
      BY <1>1, <1>2, <2>1
    <3> QED
      BY <1>3, <3>1, ForwardIs
  <2>2. CASE ~(x.live /\ x.fn # Own)
    BY <1>1, <2>2 DEF Invoked
  <2> QED
    BY <2>1, <2>2
<1>5. invokes' \in 0..MaxInvokes
  BY <1>1 DEF WellTyped
<1>6. WellTyped'
  BY <1>1, <1>4, <1>5, InvocationTyped
<1> QED
  BY <1>4, <1>6

LEMMA InvokeHandledIs ==
  ASSUME WellTyped, NEW w \in Workers, HandleBridgeCallbackInvoke(w) \/ HandleCallbackInvoke(w)
  PROVE  WellTyped' /\ InvocationMoved
<1>1. Ports(toHost, Issued, Entries) /\ Ports(toWorker, Issued, Entries)
  BY DEF WellTyped, Ports
<1>2. UNCHANGED <<calls, mailboxes, running, objects, entries, held, gaveUp, hasty>>
  BY DEF HandleBridgeCallbackInvoke, HandleCallbackInvoke, HandleInvoke
<1>3. CASE HandleBridgeCallbackInvoke(w)
  <2> DEFINE up == [toHost EXCEPT ![w] = Tail(@)]
             m == Head(toHost[w])
  <2>1. Taken(toHost, up, w) /\ m.kind = "invoke" /\ HandleInvoke(Host, m, up, toWorker)
    BY <1>3 DEF HandleBridgeCallbackInvoke, Taken
  <2>2. m \in MessageSet(Issued, Entries)
    BY <2>1, HeadIs DEF Taken
  <2> HIDE DEF up, m
  <2>3. Ports(up, Issued, Entries)
    BY <1>1, <2>1, TakenIs
  <2>4. /\ WellTyped'
        /\ \A v \in Workers : Invoked(up[v], toHost'[v]) /\ Invoked(toWorker[v], toWorker'[v])
    BY <1>1, <2>1, <2>2, <2>3, HandleInvokeIs
  <2> QED
    BY <1>1, <1>2, <2>1, <2>3, <2>4 DEF InvocationMoved
<1>4. CASE HandleCallbackInvoke(w)
  <2> DEFINE down == [toWorker EXCEPT ![w] = Tail(@)]
             m == Head(toWorker[w])
  <2>1. Taken(toWorker, down, w) /\ m.kind = "invoke" /\ HandleInvoke(w, m, toHost, down)
    BY <1>4 DEF HandleCallbackInvoke, Taken
  <2>2. m \in MessageSet(Issued, Entries)
    BY <2>1, HeadIs DEF Taken
  <2> HIDE DEF down, m
  <2>3. Ports(down, Issued, Entries)
    BY <1>1, <2>1, TakenIs
  <2>4. /\ WellTyped'
        /\ \A v \in Workers : Invoked(toHost[v], toHost'[v]) /\ Invoked(down[v], toWorker'[v])
    BY <1>1, <2>1, <2>2, <2>3, HandleInvokeIs
  <2> QED
    BY <1>1, <1>2, <2>1, <2>3, <2>4 DEF InvocationMoved
<1> QED
  BY <1>3, <1>4

-----------------------------------------------------------------------------
(* What actions do to ports.                                               *)

\* q holds nothing that p does not hold but invocations and ms
Within(p, q, ms) == \A m \in ToSet(q) : m \in ToSet(p) \/ m \in ms \/ m.kind = "invoke"

LEMMA TakenWithin ==
  ASSUME NEW C, NEW E, NEW f, NEW g, Ports(f, C, E), NEW w \in Workers, Taken(f, g, w)
  PROVE  /\ \A v \in Workers : Within(f[v], g[v], {}) /\ (Once(f[v]) => Once(g[v]))
         /\ Head(f[w]) \in ToSet(f[w])
         /\ Once(f[w]) /\ Head(f[w]).kind # "invoke" => ~Has(g[w], Head(f[w]).kind, Head(f[w]).call)
<1>1. f[w] \in Seq(MessageSet(C, E)) /\ f[w] # <<>>
  BY DEF Ports, Taken
<1>2. g[w] = Tail(f[w]) /\ \A v \in Workers \ {w} : g[v] = f[v]
  BY DEF Ports, Taken
<1>3. /\ Head(f[w]) \in ToSet(f[w]) /\ ToSet(g[w]) \subseteq ToSet(f[w])
      /\ Once(f[w]) => Once(g[w])
      /\ Once(f[w]) /\ Head(f[w]).kind # "invoke" => ~Has(g[w], Head(f[w]).kind, Head(f[w]).call)
  BY <1>1, <1>2, TailIs
<1> QED
  BY <1>2, <1>3 DEF Within

LEMMA AppendWithin ==
  ASSUME NEW S, NEW p \in Seq(S), NEW m \in S, NEW q, Appended(p, q, m)
  PROVE  /\ Within(p, q, {m})
         /\ m.kind = "invoke" => Within(p, q, {})
         /\ Once(p) /\ (m.kind = "invoke" \/ ~Has(p, m.kind, m.call)) => Once(q)
<1>1. /\ \A x : x \in ToSet(q) <=> x \in ToSet(p) \/ x = m
      /\ Once(p) /\ (m.kind = "invoke" \/ ~Has(p, m.kind, m.call)) => Once(q)
  BY AddIs
<1> QED
  BY <1>1 DEF Within

LEMMA InvokedWithin ==
  ASSUME NEW S, NEW p \in Seq(S), MessageSet(Issued, Entries) \subseteq S, NEW q, Invoked(p, q)
  PROVE  Within(p, q, {}) /\ (Once(p) => Once(q))
<1>1. CASE q = p
  BY <1>1 DEF Within
<1>2. ASSUME NEW m \in S, m.kind = "invoke", q = Append(p, m)
      PROVE  Within(p, q, {}) /\ (Once(p) => Once(q))
  BY <1>2, AppendWithin DEF Appended
<1> QED
  BY <1>1, <1>2 DEF Invoked

LEMMA WithinTwice ==
  ASSUME NEW p, NEW q, NEW r, NEW ms, Within(p, q, {}), Within(q, r, ms)
  PROVE  Within(p, r, ms)
BY DEF Within

LEMMA HasWithin ==
  ASSUME NEW p, NEW q, NEW ms, Within(p, q, ms), NEW kind, kind # "invoke", NEW c, Has(q, kind, c)
  PROVE  Has(p, kind, c) \/ \E m \in ms : m.kind = kind /\ m.call = c
BY DEF Within, Has

LEMMA InPort ==
  ASSUME WellTyped, NEW w \in Workers
  PROVE  /\ toHost[w] \in Seq(MessageSet(Issued, Entries))
         /\ toWorker[w] \in Seq(MessageSet(Issued, Entries))
         /\ \A m \in ToSet(toHost[w]) \cup ToSet(toWorker[w]) :
              /\ m \in MessageSet(Issued, Entries)
              /\ m.kind # "invoke" => m.call \in Issued
         /\ \A c : Has(toHost[w], "answer", c) \/ Has(toHost[w], "call", c) => c \in Issued
         /\ \A c : Has(toWorker[w], "call", c) => c \in Issued
<1>1. toHost[w] \in Seq(MessageSet(Issued, Entries)) /\ toWorker[w] \in Seq(MessageSet(Issued, Entries))
  BY DEF WellTyped
<1>2. \A m \in ToSet(toHost[w]) \cup ToSet(toWorker[w]) : m \in MessageSet(Issued, Entries)
  BY <1>1 DEF ToSet
<1>3. \A m \in MessageSet(Issued, Entries) : m.kind # "invoke" => m.call \in Issued
  BY MessageIs
<1> QED
  BY <1>1, <1>2, <1>3 DEF Has

\* Calls are added, those there are keep who made them, their actor and that
\* they ended.
CallsKept ==
  /\ Issued \subseteq Issued' /\ User \notin Issued'
  /\ \A c \in Issued :
       /\ calls'[c].kind = calls[c].kind /\ calls'[c].by = calls[c].by
       /\ calls'[c].actor = calls[c].actor
       /\ St(c) \in Ended => calls'[c].st \in Ended

LEMMA SidesKept ==
  ASSUME WellTyped, CallsKept, NEW c \in Issued
  PROVE  Side(c)' = Side(c) /\ Caller(c)' = Caller(c)
<1>1. calls[c].by \in Issued \cup {User}
  BY Numbers DEF CallSet
<1> QED
  BY <1>1 DEF Side, Caller, CallsKept

LEMMA MessagesKept ==
  ASSUME WellTyped, CallsKept, NEW m \in MessageSet(Issued, Entries), NEW w
  PROVE  /\ FromWorker(w, m) /\ (m.kind = "call" => calls'[m.call].st = "asked") => FromWorker(w, m)'
         /\ ToWorkerOf(w, m) => ToWorkerOf(w, m)'
<1>1. CASE m.kind = "invoke"
  BY <1>1 DEF FromWorker, ToWorkerOf
<1>2. CASE m.kind # "invoke"
  <2>1. m.call \in Issued
    BY <1>2, MessageIs
  <2>2. Side(m.call)' = Side(m.call) /\ Caller(m.call)' = Caller(m.call)
    BY <2>1, SidesKept
  <2> QED
    BY <2>1, <2>2 DEF FromWorker, ToWorkerOf, CallsKept, St
<1> QED
  BY <1>1, <1>2

LEMMA PostedWithin ==
  ASSUME NEW C, NEW E, NEW f, NEW g, Ports(f, C, E), NEW w, NEW m \in MessageSet(C, E), Posted(f, g, w, m)
  PROVE  /\ \A v \in Workers : Within(f[v], g[v], IF v = w THEN {m} ELSE {})
         /\ \A v \in Workers :
              Once(f[v]) /\ (v # w \/ m.kind = "invoke" \/ ~Has(f[v], m.kind, m.call)) => Once(g[v])
<1>1. ASSUME NEW v \in Workers
      PROVE  /\ Within(f[v], g[v], IF v = w THEN {m} ELSE {})
             /\ Once(f[v]) /\ (v # w \/ m.kind = "invoke" \/ ~Has(f[v], m.kind, m.call)) => Once(g[v])
  <2>1. f[v] \in Seq(MessageSet(C, E)) /\ g[v] = IF v = w THEN Append(f[v], m) ELSE f[v]
    BY DEF Ports, Posted
  <2>2. CASE v = w
    <3>1. Appended(f[v], g[v], m)
      BY <2>1, <2>2 DEF Appended
    <3> QED
      BY <2>1, <2>2, <3>1, AppendWithin
  <2>3. CASE v # w
    BY <2>1, <2>3 DEF Within
  <2> QED
    BY <2>2, <2>3
<1> QED
  BY <1>1

\* no message is left of which the ports do not hold what they should
LEMMA PortsFrame ==
  ASSUME WellTyped, PortsOK, CallsKept, NEW news, NEW newr,
         \A w \in Workers :
           /\ Within(toHost[w], toHost'[w], news[w]) /\ Once(toHost'[w])
           /\ Within(toWorker[w], toWorker'[w], newr[w]) /\ Once(toWorker'[w])
           /\ \A m \in news[w] : FromWorker(w, m)'
           /\ \A m \in newr[w] : ToWorkerOf(w, m)',
         \A w \in Workers : \A m \in ToSet(toHost'[w]) :
           m \in ToSet(toHost[w]) /\ m.kind = "call" => calls'[m.call].st = "asked"
  PROVE  PortsOK'
<1>1. ASSUME NEW w \in Workers, NEW m \in ToSet(toHost'[w]) PROVE FromWorker(w, m)'
  <2>1. CASE m \in ToSet(toHost[w])
    <3>1. m \in MessageSet(Issued, Entries) /\ FromWorker(w, m)
      BY <2>1, InPort DEF PortsOK
    <3> QED
      BY <1>1, <2>1, <3>1, MessagesKept
  <2>2. CASE m.kind = "invoke"
    BY <2>2 DEF FromWorker
  <2> QED
    BY <1>1, <2>1, <2>2 DEF Within
<1>2. ASSUME NEW w \in Workers, NEW m \in ToSet(toWorker'[w]) PROVE ToWorkerOf(w, m)'
  <2>1. CASE m \in ToSet(toWorker[w])
    <3>1. m \in MessageSet(Issued, Entries) /\ ToWorkerOf(w, m)
      BY <2>1, InPort DEF PortsOK
    <3> QED
      BY <2>1, <3>1, MessagesKept
  <2>2. CASE m.kind = "invoke"
    BY <2>2 DEF ToWorkerOf
  <2>3. m \in ToSet(toWorker[w]) \/ m \in newr[w] \/ m.kind = "invoke"
    BY <1>2 DEF Within
  <2> QED
    BY <2>1, <2>2, <2>3
<1> QED
  BY <1>1, <1>2 DEF PortsOK

\* a call that a step does not touch
LEMMA PlaceFrame ==
  ASSUME CallsKept, NEW c \in Issued, PlaceOK(c), calls'[c].st = calls[c].st,
         Requested(c)' => Requested(c), Answered(c)' => Answered(c),
         c \in running' => c \in running, c \in gaveUp' <=> c \in gaveUp, objects' \subseteq objects
  PROVE  PlaceOK(c)'
BY DEF PlaceOK, CallsKept, St

\* what a step that posts ms to w does to the requests and answers
LEMMA PlacesWithin ==
  ASSUME WellTyped, CallsKept, NEW c \in Issued, NEW ms,
         \/ \A w \in Workers : Within(toHost[w], toHost'[w], ms)
         \/ \A w \in Workers : Within(toWorker[w], toWorker'[w], ms)
  PROVE  /\ (\A w \in Workers : Within(toHost[w], toHost'[w], ms)) =>
              (Answered(c)' => Answered(c) \/ \E m \in ms : m.kind = "answer" /\ m.call = c)
         /\ (\A w \in Workers : Within(toWorker[w], toWorker'[w], ms)) =>
              (Requested(c)' => Requested(c) \/ \E m \in ms : m.kind = "call" /\ m.call = c)
<1>1. Side(c)' = Side(c) /\ Side(c) \in Workers
  BY SidesKept, SideIs
<1> QED
  BY <1>1, HasWithin DEF Answered, Requested

\* Invocations move nothing else.
LEMMA InvocationPlaces ==
  ASSUME WellTyped, PortsOK, PlacesOK, InvocationMoved
  PROVE  PortsOK' /\ PlacesOK'
<1>1. /\ UNCHANGED <<calls, running, objects, gaveUp>> /\ Issued' = Issued
  BY DEF InvocationMoved, Issued
<1>2. CallsKept
  BY <1>1, Numbers DEF CallsKept, St
<1>3. PICK up, down :
        /\ Ports(up, Issued, Entries) /\ Ports(down, Issued, Entries)
        /\ up = toHost \/ \E w \in Workers : Taken(toHost, up, w)
        /\ down = toWorker \/ \E w \in Workers : Taken(toWorker, down, w)
        /\ \A w \in Workers : Invoked(up[w], toHost'[w]) /\ Invoked(down[w], toWorker'[w])
  BY DEF InvocationMoved
<1>4. Ports(toHost, Issued, Entries) /\ Ports(toWorker, Issued, Entries)
  BY DEF WellTyped, Ports
<1>5. \A w \in Workers :
        /\ Within(toHost[w], up[w], {}) /\ (Once(toHost[w]) => Once(up[w]))
        /\ Within(toWorker[w], down[w], {}) /\ (Once(toWorker[w]) => Once(down[w]))
  <2>1. \A w \in Workers : Within(toHost[w], toHost[w], {}) /\ Within(toWorker[w], toWorker[w], {})
    BY DEF Within
  <2> QED
    BY <1>3, <1>4, <2>1, TakenWithin
<1>6. ASSUME NEW w \in Workers
      PROVE  /\ Within(toHost[w], toHost'[w], {}) /\ Once(toHost'[w])
             /\ Within(toWorker[w], toWorker'[w], {}) /\ Once(toWorker'[w])
  <2>1. up[w] \in Seq(MessageSet(Issued, Entries)) /\ down[w] \in Seq(MessageSet(Issued, Entries))
    BY <1>3 DEF Ports
  <2>2. Invoked(up[w], toHost'[w]) /\ Invoked(down[w], toWorker'[w])
    BY <1>3
  <2>3. /\ Within(up[w], toHost'[w], {}) /\ (Once(up[w]) => Once(toHost'[w]))
        /\ Within(down[w], toWorker'[w], {}) /\ (Once(down[w]) => Once(toWorker'[w]))
    BY <2>1, <2>2, InvokedWithin
  <2> QED
    BY <1>5, <2>3, WithinTwice DEF PortsOK
<1>7. \A w \in Workers : \A m \in ToSet(toHost'[w]) :
        m \in ToSet(toHost[w]) /\ m.kind = "call" => calls'[m.call].st = "asked"
  BY <1>1 DEF PortsOK, FromWorker, St
<1> DEFINE none == [w \in Workers |-> {}]
<1>8. \A w \in Workers :
        /\ Within(toHost[w], toHost'[w], none[w]) /\ Once(toHost'[w])
        /\ Within(toWorker[w], toWorker'[w], none[w]) /\ Once(toWorker'[w])
        /\ \A m \in none[w] : FromWorker(w, m)'
        /\ \A m \in none[w] : ToWorkerOf(w, m)'
  BY <1>6
<1> HIDE DEF none
<1>9. PortsOK'
  BY <1>2, <1>7, <1>8, PortsFrame
<1>10. ASSUME NEW c \in Issued PROVE PlaceOK(c)'
  <2>1. (Requested(c)' => Requested(c)) /\ (Answered(c)' => Answered(c))
    BY <1>2, <1>6, PlacesWithin
  <2> QED
    BY <1>1, <1>2, <2>1, PlaceFrame DEF PlacesOK
<1> QED
  BY <1>1, <1>9, <1>10 DEF PlacesOK

\* a call that is enqueued was not requested before
EnqueuesNew(c, call) ==
  /\ c # 0 /\ call.actor \in Actors /\ Enqueued(c, call)
  /\ c \notin Issued \/ (St(c) = "asked" /\ call = calls[c])

LEMMA EnqueueKeeps ==
  ASSUME WellTyped, NEW c, NEW call, EnqueuesNew(c, call)
  PROVE  CallsKept
<1>1. /\ Issued' = Issued \cup {c} /\ c # 0
      /\ \A d \in Issued \ {c} : calls'[d] = calls[d]
      /\ calls'[c].kind = call.kind /\ calls'[c].by = call.by /\ calls'[c].actor = call.actor
      /\ c \in Issued => St(c) = "asked" /\ call = calls[c]
  BY DEF EnqueuesNew, Enqueued
<1>2. "asked" \notin Ended
  BY DEF Ended
<1> QED
  BY <1>1, <1>2, Numbers DEF CallsKept, St, User

LEMMA EnqueuePlaces ==
  ASSUME WellTyped, PortsOK, PlacesOK, NEW c, NEW call, EnqueuesNew(c, call),
         \A w \in Workers :
           Within(toHost[w], toHost'[w], {}) /\ Once(toHost'[w]) /\ ~Has(toHost'[w], "call", c),
         UNCHANGED <<running, objects, gaveUp>>
  PROVE  PortsOK' /\ PlacesOK'
<1> DEFINE starts == mailboxes[call.actor] = 0 \/ St(mailboxes[call.actor]) \in Ended
           w0 == Home[call.actor]
<1>1. CallsKept
  BY EnqueueKeeps
<1>2. /\ Issued' = Issued \cup {c} /\ c # 0
      /\ \A d \in Issued \ {c} : calls'[d] = calls[d]
      /\ calls'[c].actor = call.actor /\ calls'[c].kind = call.kind
      /\ calls'[c].st = IF starts THEN "sent" ELSE "queued"
      /\ c \notin Issued \/ (St(c) = "asked" /\ call = calls[c])
      /\ call.actor \in Actors /\ w0 \in Workers
  BY CallbacksAssumption DEF EnqueuesNew, Enqueued
<1>3. PICK m \in MessageSet(Issued', Entries') :
        /\ m.kind = "call" /\ m.call = c
        /\ \A w \in Workers : toWorker'[w] =
             IF starts /\ w = w0 THEN Append(toWorker[w], m) ELSE toWorker[w]
  BY DEF EnqueuesNew, Enqueued
<1> HIDE DEF starts
<1>4. Side(c)' = w0
  BY <1>2 DEF Side, User
<1> HIDE DEF w0
<1>5. c \notin running /\ \A w \in Workers : ~Has(toWorker[w], "call", c) /\ ~Has(toHost[w], "answer", c)
  <2>1. CASE c \notin Issued
    BY <2>1, InPort DEF WellTyped
  <2>2. CASE c \in Issued
    <3>1. PlaceOK(c) /\ St(c) = "asked"
      BY <1>2, <2>2 DEF PlacesOK
    <3>2. ~Requested(c) /\ ~Answered(c) /\ c \notin running
      BY <3>1 DEF PlaceOK, Ended
    <3>3. ASSUME NEW w \in Workers
          PROVE  ~Has(toWorker[w], "call", c) /\ ~Has(toHost[w], "answer", c)
      <4>1. Has(toWorker[w], "call", c) \/ Has(toHost[w], "answer", c) => w = Side(c)
        BY DEF PortsOK, Has, FromWorker, ToWorkerOf
      <4> QED
        BY <3>2, <4>1 DEF Requested, Answered
    <3> QED
      BY <3>2, <3>3
  <2> QED
    BY <2>1, <2>2
<1> DEFINE none == [w \in Workers |-> {}]
           new == [w \in Workers |-> IF starts /\ w = w0 THEN {m} ELSE {}]
<1>6. ASSUME NEW w \in Workers
      PROVE  Within(toWorker[w], toWorker'[w], new[w]) /\ Once(toWorker'[w])
  <2>1. toWorker[w] \in Seq(MessageSet(Issued', Entries')) /\ Once(toWorker[w])
    <3>1. Issued \subseteq Issued' /\ Entries \subseteq Entries'
      BY DEF EnqueuesNew, Enqueued
    <3> QED
      BY <3>1, RestTyped DEF Ports, PortsOK
  <2>2. CASE starts /\ w = w0
    <3>1. Appended(toWorker[w], toWorker'[w], m)
      BY <1>3, <2>2 DEF Appended
    <3>2. ~Has(toWorker[w], m.kind, m.call)
      BY <1>3, <1>5
    <3>3. Within(toWorker[w], toWorker'[w], {m}) /\ Once(toWorker'[w])
      BY <2>1, <3>1, <3>2, AppendWithin
    <3> QED
      BY <2>2, <3>3
  <2>3. CASE ~(starts /\ w = w0)
    BY <1>3, <2>1, <2>3 DEF Within
  <2> QED
    BY <2>2, <2>3
<1>7. \A w \in Workers :
        /\ \A x \in none[w] : FromWorker(w, x)'
        /\ \A x \in new[w] : ToWorkerOf(w, x)'
  BY <1>3, <1>4 DEF ToWorkerOf
<1>8. \A w \in Workers : none[w] = {} /\ \A x \in new[w] : starts /\ x = m
  OBVIOUS
<1> HIDE DEF none, new
<1>9. ASSUME NEW w \in Workers, NEW x \in ToSet(toHost'[w]), x \in ToSet(toHost[w]), x.kind = "call"
      PROVE  calls'[x.call].st = "asked"
  <2>1. x.call # c
    BY <1>9 DEF Has
  <2>2. x.call \in Issued /\ St(x.call) = "asked"
    BY <1>9, InPort DEF PortsOK, FromWorker
  <2> QED
    BY <1>2, <2>1, <2>2 DEF St
<1>10. PortsOK'
  <2>1. \A w \in Workers :
          /\ Within(toHost[w], toHost'[w], none[w]) /\ Once(toHost'[w])
          /\ Within(toWorker[w], toWorker'[w], new[w]) /\ Once(toWorker'[w])
          /\ \A x \in none[w] : FromWorker(w, x)'
          /\ \A x \in new[w] : ToWorkerOf(w, x)'
    BY <1>6, <1>7, <1>8
  <2> QED
    BY <1>1, <1>9, <2>1, PortsFrame
<1>11. ASSUME NEW d \in Issued, d # c PROVE PlaceOK(d)'
  <2>1. \A w \in Workers : Within(toWorker[w], toWorker'[w], {m})
    BY <1>6, <1>8 DEF Within
  <2>2. (Requested(d)' => Requested(d)) /\ (Answered(d)' => Answered(d))
    BY <1>1, <1>3, <1>11, <2>1, PlacesWithin
  <2> QED
    BY <1>1, <1>2, <1>11, <2>2, PlaceFrame DEF PlacesOK
<1>12. PlaceOK(c)'
  <2>1. ~Answered(c)'
    <3>1. Answered(c)' => Has(toHost'[w0], "answer", c)
      BY <1>4 DEF Answered
    <3> QED
      BY <1>2, <1>5, <3>1, HasWithin
  <2>2. Requested(c)' => calls'[c].st = "sent"
    <3>1. Requested(c)' => Has(toWorker'[w0], "call", c)
      BY <1>4 DEF Requested
    <3> QED
      BY <1>2, <1>5, <1>6, <1>8, <3>1, HasWithin
  <2>3. c \notin running'
    BY <1>5
  <2>4. c \in gaveUp => calls'[c].kind = "call"
    BY <1>2 DEF PlacesOK, PlaceOK, WellTyped
  <2>5. calls'[c].st \notin Ended
    BY <1>2 DEF Ended
  <2> QED
    BY <2>1, <2>2, <2>3, <2>4, <2>5 DEF PlaceOK, St
<1> QED
  BY <1>2, <1>10, <1>11, <1>12 DEF PlacesOK

\* what is posted when c settles: its result, and requests that waited for it
Late(c, w, m) ==
  \/ m.kind = "result" /\ m.call = c
  \/ m.kind = "call" /\ m.call \in Following(c) /\ Side(m.call) = w

LEMMA SettleKeeps ==
  ASSUME WellTyped, NEW c \in Issued, NEW fs, St(c) = "sent", Settled(c, fs)
  PROVE  CallsKept
BY Numbers DEF CallsKept, Settled, Following, St, Ended, User

LEMMA SettlePosts ==
  ASSUME WellTyped, PortsOK, PlacesOK, NEW c \in Issued, NEW fs, St(c) = "sent", Settled(c, fs), NEW w \in Workers
  PROVE  /\ Once(toWorker'[w])
         /\ \A m \in ToSet(toWorker'[w]) : m \in ToSet(toWorker[w]) \/ Late(c, w, m)
<1> DEFINE S == MessageSet(Issued', Entries')
           p == toWorker[w]
           q == toWorker'[w]
<1>1. p \in Seq(S) /\ Once(p)
  <2>1. Issued \subseteq Issued' /\ Entries \subseteq Entries'
    BY DEF Settled
  <2> QED
    BY <2>1, RestTyped DEF Ports, PortsOK
<1>2. PICK r \in Seq(S) :
        /\ \/ r = p
           \/ \E m \in S : m.kind = "result" /\ m.call = c /\ r = Append(p, m)
        /\ \/ q = r
           \/ \E m \in S : /\ m.kind = "call" /\ m.call \in Following(c) /\ Side(m.call) = w
                           /\ q = Append(r, m)
  BY DEF Settled, PostsOf
<1>3. ~Has(p, "result", c)
  BY DEF Has, PortsOK, ToWorkerOf, Ended
<1>4. \A d \in Following(c) : Side(d) = w => ~Has(p, "call", d)
  <2>1. \A d \in Following(c) : PlaceOK(d) /\ St(d) = "queued"
    BY DEF Following, PlacesOK
  <2> QED
    BY <2>1 DEF PlaceOK, Requested, Ended
<1> HIDE DEF S, p, q
<1>5. Once(r) /\ (\A x \in ToSet(r) : x \in ToSet(p) \/ (x.kind = "result" /\ x.call = c))
  <2>1. ASSUME NEW m \in S, m.kind = "result", m.call = c, r = Append(p, m)
        PROVE  Once(r) /\ (\A x \in ToSet(r) : x \in ToSet(p) \/ (x.kind = "result" /\ x.call = c))
    <3>1. Appended(p, r, m) /\ ~Has(p, m.kind, m.call)
      BY <1>3, <2>1 DEF Appended
    <3> QED
      BY <1>1, <2>1, <3>1, AddIs
  <2> QED
    BY <1>1, <1>2, <2>1
<1>6. \A d \in Following(c) : Side(d) = w => ~Has(r, "call", d)
  BY <1>4, <1>5 DEF Has
<1>7. CASE q = r
  BY <1>5, <1>7 DEF Late, p, q
<1>8. ASSUME NEW m \in S, m.kind = "call", m.call \in Following(c), Side(m.call) = w, q = Append(r, m)
      PROVE  Once(q) /\ \A x \in ToSet(q) : x \in ToSet(p) \/ Late(c, w, x)
  <2>1. Appended(r, q, m) /\ ~Has(r, m.kind, m.call)
    BY <1>6, <1>8 DEF Appended
  <2>2. Once(q) /\ \A x : x \in ToSet(q) <=> x \in ToSet(r) \/ x = m
    BY <1>5, <2>1, AddIs
  <2> QED
    BY <1>5, <1>8, <2>2 DEF Late
<1> QED
  BY <1>2, <1>7, <1>8 DEF p, q

LEMMA SettlePlaces ==
  ASSUME WellTyped, PortsOK, PlacesOK, NEW c \in Issued, NEW fs, St(c) = "sent", Settled(c, fs),
         \A w \in Workers : Within(toHost[w], toHost'[w], {}) /\ Once(toHost'[w]),
         UNCHANGED <<running, objects>>,
         \/ gaveUp' = gaveUp \cup {c} /\ calls[c].kind = "call"
         \/ gaveUp' = gaveUp /\ Answered(c) /\ ~Has(toHost'[Side(c)], "answer", c)
  PROVE  PortsOK' /\ PlacesOK'
<1>1. CallsKept
  BY SettleKeeps
<1>2. /\ Issued' = Issued
      /\ calls'[c].st \in Ended /\ calls'[c].kind = calls[c].kind /\ calls'[c].actor = calls[c].actor
      /\ \A d \in Issued \ {c} : calls'[d].st = IF d \in Following(c) THEN "sent" ELSE St(d)
  BY DEF Settled, Ended
<1>3. \A w \in Workers :
        /\ Once(toWorker'[w])
        /\ \A m \in ToSet(toWorker'[w]) : m \in ToSet(toWorker[w]) \/ Late(c, w, m)
  BY SettlePosts
<1> DEFINE none == [w \in Workers |-> {}]
           new == [w \in Workers |-> {m \in ToSet(toWorker'[w]) : Late(c, w, m)}]
<1>4. ASSUME NEW w \in Workers, NEW m, Late(c, w, m) PROVE ToWorkerOf(w, m)'
  <2>1. CASE m.kind = "result" /\ m.call = c
    BY <1>2, <2>1 DEF ToWorkerOf, St
  <2>2. CASE m.kind = "call" /\ m.call \in Following(c) /\ Side(m.call) = w
    <3>1. Side(m.call)' = w
      BY <1>1, <2>2, SidesKept DEF Following
    <3> QED
      BY <2>2, <3>1 DEF ToWorkerOf
  <2> QED
    BY <1>4, <2>1, <2>2 DEF Late
<1>5. \A w \in Workers :
        /\ Within(toHost[w], toHost'[w], none[w]) /\ Once(toHost'[w])
        /\ Within(toWorker[w], toWorker'[w], new[w]) /\ Once(toWorker'[w])
        /\ \A x \in none[w] : FromWorker(w, x)'
        /\ \A x \in new[w] : ToWorkerOf(w, x)'
  BY <1>3, <1>4 DEF Within
<1>6. ASSUME NEW w \in Workers, NEW x \in ToSet(toHost'[w]), x \in ToSet(toHost[w]), x.kind = "call"
      PROVE  calls'[x.call].st = "asked"
  <2>1. x.call \in Issued /\ St(x.call) = "asked"
    BY <1>6, InPort DEF PortsOK, FromWorker
  <2>2. x.call # c /\ x.call \notin Following(c)
    BY <2>1 DEF Following
  <2> QED
    BY <1>2, <2>1, <2>2 DEF St
<1> HIDE DEF none, new
<1>7. PortsOK'
  BY <1>1, <1>5, <1>6, PortsFrame
<1>8. ASSUME NEW d \in Issued
      PROVE  /\ Answered(d)' => Answered(d)
             /\ Requested(d)' => Requested(d) \/ d \in Following(c)
  <2>1. Answered(d)' => Answered(d)
    BY <1>1, PlacesWithin
  <2>2. Side(d)' = Side(d) /\ Side(d) \in Workers
    BY <1>1, SidesKept, SideIs
  <2>3. Requested(d)' => Has(toWorker'[Side(d)], "call", d)
    BY <2>2 DEF Requested
  <2>4. Has(toWorker'[Side(d)], "call", d) => Has(toWorker[Side(d)], "call", d) \/ d \in Following(c)
    BY <1>3, <2>2 DEF Has, Late
  <2> QED
    BY <2>1, <2>3, <2>4 DEF Requested
<1>9. ASSUME NEW d \in Issued, d # c, d \notin Following(c) PROVE PlaceOK(d)'
  <2>1. calls'[d].st = calls[d].st /\ (d \in gaveUp' <=> d \in gaveUp)
    BY <1>2, <1>9 DEF St
  <2> QED
    BY <1>1, <1>8, <1>9, <2>1, PlaceFrame DEF PlacesOK
<1>10. ASSUME NEW d \in Following(c) PROVE PlaceOK(d)'
  <2>1. d \in Issued /\ d # c /\ St(d) = "queued" /\ PlaceOK(d) /\ calls'[d].st = "sent"
    BY <1>2 DEF Following, PlacesOK
  <2>2. ~Answered(d) /\ d \notin running
    BY <2>1 DEF PlaceOK, Ended
  <2>3. ~Answered(d)' /\ d \notin running' /\ (d \in gaveUp' => calls'[d].kind = "call")
    BY <1>1, <1>8, <2>1, <2>2 DEF PlaceOK, CallsKept
  <2> QED
    BY <2>1, <2>3 DEF PlaceOK, St, Ended
<1>11. PlaceOK(c)'
  <2>1. c \notin Following(c) /\ PlaceOK(c) /\ (Requested(c)' => Requested(c)) /\ (Answered(c)' => Answered(c))
    BY <1>8 DEF Following, PlacesOK
  <2>2. CASE gaveUp' = gaveUp \cup {c} /\ calls[c].kind = "call"
    BY <1>2, <2>1, <2>2 DEF PlaceOK, St
  <2>3. CASE gaveUp' = gaveUp /\ Answered(c) /\ ~Has(toHost'[Side(c)], "answer", c)
    <3>1. ~Requested(c) /\ c \notin running /\ (c \in gaveUp => calls[c].kind = "call")
          /\ (calls[c].kind = "destroy" => calls[c].actor \notin objects)
      BY <2>1, <2>3 DEF PlaceOK
    <3>2. ~Answered(c)'
      BY <1>1, <2>3, SidesKept DEF Answered
    <3> QED
      BY <1>2, <2>1, <2>3, <3>1, <3>2 DEF PlaceOK, St
  <2> QED
    BY <2>2, <2>3
<1> QED
  BY <1>2, <1>7, <1>9, <1>10, <1>11 DEF PlacesOK

\* a step that only takes a message of a port
LEMMA TakePlaces ==
  ASSUME WellTyped, PortsOK, PlacesOK, UNCHANGED <<calls, running, objects, gaveUp, toWorker>>,
         NEW w \in Workers, Taken(toHost, toHost', w)
  PROVE  PortsOK' /\ PlacesOK'
<1>1. Issued' = Issued /\ CallsKept
  BY Numbers DEF CallsKept, St, Issued
<1> DEFINE none == [v \in Workers |-> {}]
<1>2. Ports(toHost, Issued, Entries)
  BY DEF WellTyped, Ports
<1>3. \A v \in Workers :
        /\ Within(toHost[v], toHost'[v], {}) /\ Once(toHost'[v])
        /\ Within(toWorker[v], toWorker'[v], {}) /\ Once(toWorker'[v])
  <2>1. \A v \in Workers : Within(toHost[v], toHost'[v], {}) /\ (Once(toHost[v]) => Once(toHost'[v]))
    BY <1>2, TakenWithin
  <2> QED
    BY <2>1 DEF Within, PortsOK
<1>4. \A v \in Workers :
        /\ Within(toHost[v], toHost'[v], none[v]) /\ Once(toHost'[v])
        /\ Within(toWorker[v], toWorker'[v], none[v]) /\ Once(toWorker'[v])
        /\ \A x \in none[v] : FromWorker(v, x)'
        /\ \A x \in none[v] : ToWorkerOf(v, x)'
  BY <1>3
<1> HIDE DEF none
<1>5. \A v \in Workers : \A x \in ToSet(toHost'[v]) :
        x \in ToSet(toHost[v]) /\ x.kind = "call" => calls'[x.call].st = "asked"
  BY DEF PortsOK, FromWorker, St
<1>6. PortsOK'
  BY <1>1, <1>4, <1>5, PortsFrame
<1>7. ASSUME NEW c \in Issued PROVE PlaceOK(c)'
  <2>1. (Requested(c)' => Requested(c)) /\ (Answered(c)' => Answered(c))
    BY <1>1, <1>3, PlacesWithin
  <2> QED
    BY <1>1, <2>1, PlaceFrame DEF PlacesOK
<1> QED
  BY <1>1, <1>6, <1>7 DEF PlacesOK

LEMMA StubCallsPlaces ==
  ASSUME WellTyped, PortsOK, PlacesOK, NEW p \in running, NEW a \in Actors, NEW fs, StubCalled(p, a, fs),
         UNCHANGED <<running, objects, gaveUp, toWorker>>
  PROVE  PortsOK' /\ PlacesOK' /\ CallsKept
<1>0. PICK c, w0 : c = Len(calls) + 1 /\ w0 = Side(p)
  OBVIOUS
<1>1. /\ c \notin Issued /\ c # 0 /\ Issued' = Issued \cup {c} /\ p \in Issued
      /\ \A d \in Issued : calls'[d] = calls[d]
      /\ calls'[c].st = "asked" /\ calls'[c].by = p /\ calls'[c].actor = a
  BY <1>0, Numbers DEF StubCalled, WellTyped
<1>2. PICK m \in MessageSet(Issued', Entries') :
        m.kind = "call" /\ m.call = c /\ Posted(toHost, toHost', w0, m)
  BY <1>0 DEF StubCalled
<1>3. CallsKept
  BY <1>1, Numbers DEF CallsKept, St, User
<1>4. Ports(toHost, Issued', Entries')
  BY <1>3, RestTyped DEF CallsKept, StubCalled
<1>5. \A w \in Workers : ~Has(toHost[w], "call", c) /\ ~Has(toHost[w], "answer", c) /\ ~Has(toWorker[w], "call", c)
  BY <1>1, InPort
<1> DEFINE none == [v \in Workers |-> {}]
           new == [v \in Workers |-> IF v = w0 THEN {m} ELSE {}]
<1>6. \A v \in Workers : Within(toHost[v], toHost'[v], new[v]) /\ Once(toHost'[v])
  <2>1. \A v \in Workers : ~Has(toHost[v], m.kind, m.call)
    BY <1>2, <1>5
  <2>2. \A v \in Workers :
          /\ Within(toHost[v], toHost'[v], IF v = w0 THEN {m} ELSE {})
          /\ Once(toHost[v]) => Once(toHost'[v])
    BY <1>2, <1>4, <2>1, PostedWithin
  <2> QED
    BY <2>2 DEF PortsOK
<1>7. \A v \in Workers : Within(toWorker[v], toWorker'[v], none[v]) /\ Once(toWorker'[v])
  <2>1. toWorker' = toWorker
    OBVIOUS
  <2> QED
    BY <2>1 DEF Within, PortsOK
<1>8. FromWorker(w0, m)'
  <2>1. Caller(c)' = Side(p)'
    BY <1>1 DEF Caller
  <2>2. Side(p)' = w0
    BY <1>0, <1>1, <1>3, SidesKept
  <2> QED
    BY <1>1, <1>2, <2>1, <2>2 DEF FromWorker, St
<1>9. \A v \in Workers :
        /\ Within(toHost[v], toHost'[v], new[v]) /\ Once(toHost'[v])
        /\ Within(toWorker[v], toWorker'[v], none[v]) /\ Once(toWorker'[v])
        /\ \A x \in new[v] : FromWorker(v, x)'
        /\ \A x \in none[v] : ToWorkerOf(v, x)'
  BY <1>6, <1>7, <1>8
<1>10. \A v \in Workers : \A x \in new[v] : x = m
  OBVIOUS
<1>11. \A v \in Workers : Within(toWorker[v], toWorker'[v], {})
  BY <1>7
<1> HIDE DEF none, new
<1>12. ASSUME NEW v \in Workers, NEW x \in ToSet(toHost'[v]), x \in ToSet(toHost[v]), x.kind = "call"
       PROVE  calls'[x.call].st = "asked"
  BY <1>1, <1>12, InPort DEF PortsOK, FromWorker, St
<1>13. PortsOK'
  BY <1>3, <1>9, <1>12, PortsFrame
<1>14. ASSUME NEW d \in Issued PROVE PlaceOK(d)'
  <2>1. \A v \in Workers : Within(toHost[v], toHost'[v], {m})
    BY <1>6, <1>10 DEF Within
  <2>2. (Requested(d)' => Requested(d)) /\ (Answered(d)' => Answered(d))
    BY <1>2, <1>3, <1>11, <2>1, PlacesWithin
  <2> QED
    BY <1>1, <1>3, <2>2, PlaceFrame DEF PlacesOK
<1>15. PlaceOK(c)'
  <2>1. Side(c)' \in Workers
    BY <1>1, CallbacksAssumption DEF Side, User
  <2>2. ~Requested(c)' /\ ~Answered(c)'
    <3>1. ~Has(toWorker'[Side(c)'], "call", c)
      BY <1>5, <1>11, <2>1, HasWithin
    <3>2. ~Has(toHost'[Side(c)'], "answer", c)
      BY <1>2, <1>5, <1>6, <1>10, <2>1, HasWithin
    <3> QED
      BY <3>1, <3>2 DEF Requested, Answered
  <2>3. c \notin running' /\ c \notin gaveUp' /\ calls'[c].st \notin Ended
    BY <1>1 DEF WellTyped, Ended
  <2> QED
    BY <2>2, <2>3 DEF PlaceOK, St
<1> QED
  BY <1>1, <1>3, <1>13, <1>14, <1>15 DEF PlacesOK

\* a step that answers c, and takes messages of workers or none
LEMMA AnswerPlaces ==
  ASSUME WellTyped, PortsOK, UNCHANGED calls, NEW c \in Issued, ~Answered(c), Answers(c),
         Entries \subseteq Entries',
         \A v \in Workers : Within(toWorker[v], toWorker'[v], {}) /\ Once(toWorker'[v])
  PROVE  /\ PortsOK' /\ CallsKept /\ Issued' = Issued
         /\ \A d \in Issued : /\ Requested(d)' => Requested(d)
                              /\ Answered(d)' => Answered(d) \/ d = c
<1>0. PICK w0 : w0 = Side(c)
  OBVIOUS
<1>1. /\ calls' = calls /\ Issued' = Issued /\ CallsKept
  BY Numbers DEF CallsKept, St, Issued
<1>2. PICK m \in MessageSet(Issued', Entries') :
        m.kind = "answer" /\ m.call = c /\ Posted(toHost, toHost', w0, m)
  BY <1>0 DEF Answers
<1>3. Ports(toHost, Issued', Entries')
  BY <1>1, RestTyped DEF CallsKept
<1>4. ~Has(toHost[w0], "answer", c)
  BY <1>0 DEF Answered
<1> DEFINE none == [v \in Workers |-> {}]
           new == [v \in Workers |-> IF v = w0 THEN {m} ELSE {}]
<1>5. \A v \in Workers : Within(toHost[v], toHost'[v], new[v]) /\ Once(toHost'[v])
  <2>1. \A v \in Workers : v # w0 \/ ~Has(toHost[v], m.kind, m.call)
    BY <1>2, <1>4
  <2>2. \A v \in Workers :
          /\ Within(toHost[v], toHost'[v], IF v = w0 THEN {m} ELSE {})
          /\ Once(toHost[v]) => Once(toHost'[v])
    BY <1>2, <1>3, <2>1, PostedWithin
  <2> QED
    BY <2>2 DEF PortsOK
<1>6. FromWorker(w0, m)'
  <2>1. Side(c)' = w0
    BY <1>0, <1>1, SidesKept
  <2> QED
    BY <1>2, <2>1 DEF FromWorker
<1>7. \A v \in Workers :
        /\ Within(toHost[v], toHost'[v], new[v]) /\ Once(toHost'[v])
        /\ Within(toWorker[v], toWorker'[v], none[v]) /\ Once(toWorker'[v])
        /\ \A x \in new[v] : FromWorker(v, x)'
        /\ \A x \in none[v] : ToWorkerOf(v, x)'
  BY <1>5, <1>6
<1>8. \A v \in Workers : \A x \in new[v] : x = m
  OBVIOUS
<1> HIDE DEF none, new
<1>9. ASSUME NEW v \in Workers, NEW x \in ToSet(toHost'[v]), x \in ToSet(toHost[v]), x.kind = "call"
      PROVE  calls'[x.call].st = "asked"
  BY <1>1, <1>9 DEF PortsOK, FromWorker, St
<1>10. PortsOK'
  BY <1>1, <1>7, <1>9, PortsFrame
<1>11. ASSUME NEW d \in Issued
       PROVE  (Requested(d)' => Requested(d)) /\ (Answered(d)' => Answered(d) \/ d = c)
  <2>1. \A v \in Workers : Within(toHost[v], toHost'[v], {m})
    BY <1>5, <1>8 DEF Within
  <2>2. Answered(d)' => Answered(d) \/ \E x \in {m} : x.kind = "answer" /\ x.call = d
    BY <1>1, <2>1, PlacesWithin
  <2>3. Requested(d)' => Requested(d) \/ \E x \in {} : x.kind = "call" /\ x.call = d
    BY <1>1, PlacesWithin
  <2> QED
    BY <1>2, <2>2, <2>3
<1> QED
  BY <1>1, <1>10, <1>11

\* The request of c is handled: its method runs, or it is answered.
LEMMA HandleCallPlaces ==
  ASSUME WellTyped, PortsOK, PlacesOK, NEW w \in Workers, HandleCall(w)
  PROVE  PortsOK' /\ PlacesOK' /\ CallsKept
<1>0. PICK c : c = Head(toWorker[w]).call
  OBVIOUS
<1>1. /\ Taken(toWorker, toWorker', w) /\ c \in Issued /\ Head(toWorker[w]).kind = "call"
      /\ \/ /\ calls[c].actor \in objects /\ running' = running \cup {c}
            /\ UNCHANGED toHost
         \/ /\ calls[c].actor \notin objects /\ UNCHANGED running
            /\ \E m \in MessageSet(Issued, Entries) :
                 m.kind = "answer" /\ m.call = c /\ m.refs = {} /\ Posted(toHost, toHost', w, m)
  BY <1>0, HandleCallIs
<1>2. calls' = calls /\ Issued' = Issued /\ Entries' = Entries /\ gaveUp' = gaveUp /\ objects' = objects
  BY DEF HandleCall, Issued, Entries
<1>3. CallsKept
  BY <1>2, Numbers DEF CallsKept, St
<1>4. /\ \A v \in Workers : Within(toWorker[v], toWorker'[v], {}) /\ Once(toWorker'[v])
      /\ Head(toWorker[w]) \in ToSet(toWorker[w]) /\ ~Has(toWorker'[w], "call", c)
  <2>1. Ports(toWorker, Issued, Entries)
    BY DEF WellTyped, Ports
  <2> QED
    BY <1>0, <1>1, <2>1, TakenWithin DEF PortsOK
<1>5. Side(c) = w /\ Requested(c)
  <2>1. Side(c) = w
    BY <1>0, <1>1, <1>4 DEF PortsOK, ToWorkerOf
  <2> QED
    BY <1>0, <1>1, <1>4, <2>1 DEF Requested, Has
<1>6. /\ PlaceOK(c) /\ ~Answered(c) /\ c \notin running
      /\ St(c) \in {"sent"} \cup Ended /\ (St(c) = "sent" \/ c \in gaveUp)
      /\ c \in gaveUp => calls[c].kind = "call"
  BY <1>1, <1>5 DEF PlacesOK, PlaceOK
<1>7. ~Requested(c)'
  BY <1>1, <1>3, <1>4, <1>5, SidesKept DEF Requested
<1>8. CASE /\ calls[c].actor \in objects /\ running' = running \cup {c} /\ UNCHANGED toHost
  <2> DEFINE none == [v \in Workers |-> {}]
  <2>1. \A v \in Workers :
          /\ Within(toHost[v], toHost'[v], none[v]) /\ Once(toHost'[v])
          /\ Within(toWorker[v], toWorker'[v], none[v]) /\ Once(toWorker'[v])
          /\ \A x \in none[v] : FromWorker(v, x)'
          /\ \A x \in none[v] : ToWorkerOf(v, x)'
    BY <1>4, <1>8 DEF Within, PortsOK
  <2>2. \A v \in Workers : Within(toHost[v], toHost'[v], {})
    BY <2>1
  <2> HIDE DEF none
  <2>3. \A v \in Workers : \A x \in ToSet(toHost'[v]) :
          x \in ToSet(toHost[v]) /\ x.kind = "call" => calls'[x.call].st = "asked"
    BY <1>2 DEF PortsOK, FromWorker, St
  <2>4. PortsOK'
    BY <1>3, <2>1, <2>3, PortsFrame
  <2>5. ASSUME NEW d \in Issued PROVE (Requested(d)' => Requested(d)) /\ (Answered(d)' => Answered(d))
    BY <1>3, <1>4, <2>2, PlacesWithin
  <2>6. ASSUME NEW d \in Issued, d # c PROVE PlaceOK(d)'
    <3>1. PlaceOK(d) /\ calls'[d].st = calls[d].st /\ (d \in running' => d \in running)
      BY <1>2, <1>8, <2>6 DEF PlacesOK
    <3> QED
      BY <1>2, <1>3, <2>5, <3>1, PlaceFrame
  <2>7. PlaceOK(c)'
    BY <1>1, <1>2, <1>6, <1>7, <2>5 DEF PlaceOK, St
  <2> QED
    BY <1>2, <1>3, <2>4, <2>6, <2>7 DEF PlacesOK
<1>9. CASE /\ calls[c].actor \notin objects /\ UNCHANGED running
           /\ \E m \in MessageSet(Issued, Entries) :
                m.kind = "answer" /\ m.call = c /\ m.refs = {} /\ Posted(toHost, toHost', w, m)
  <2>1. Answers(c)
    BY <1>2, <1>5, <1>9 DEF Answers
  <2>2. /\ PortsOK'
        /\ \A d \in Issued : /\ Requested(d)' => Requested(d)
                             /\ Answered(d)' => Answered(d) \/ d = c
    BY <1>1, <1>2, <1>4, <1>6, <2>1, AnswerPlaces
  <2>3. ASSUME NEW d \in Issued, d # c PROVE PlaceOK(d)'
    <3>1. PlaceOK(d) /\ calls'[d].st = calls[d].st /\ (d \in running' => d \in running)
      BY <1>2, <1>9 DEF PlacesOK
    <3>2. (Requested(d)' => Requested(d)) /\ (Answered(d)' => Answered(d))
      BY <2>2, <2>3
    <3> QED
      BY <1>2, <1>3, <3>1, <3>2, PlaceFrame
  <2>4. PlaceOK(c)'
    BY <1>2, <1>6, <1>7, <1>9 DEF PlaceOK, St
  <2> QED
    BY <1>2, <1>3, <2>2, <2>3, <2>4 DEF PlacesOK
<1> QED
  BY <1>1, <1>8, <1>9

\* A method returns, or a close, which forgets the actor.
LEMMA ReturnPlaces ==
  ASSUME WellTyped, PortsOK, PlacesOK, NEW c \in running, Answers(c), Entries \subseteq Entries',
         running' = running \ {c}, objects' \subseteq objects,
         calls[c].kind = "destroy" => calls[c].actor \notin objects',
         UNCHANGED <<calls, toWorker, gaveUp>>
  PROVE  PortsOK' /\ PlacesOK' /\ CallsKept
<1>1. calls' = calls /\ toWorker' = toWorker /\ gaveUp' = gaveUp /\ c \in Issued
  BY DEF WellTyped
<1>2. /\ PlaceOK(c) /\ ~Answered(c) /\ ~Requested(c)
      /\ St(c) \in {"sent"} \cup Ended /\ (St(c) = "sent" \/ c \in gaveUp)
      /\ c \in gaveUp => calls[c].kind = "call"
  BY <1>1 DEF PlacesOK, PlaceOK
<1>3. \A v \in Workers : Within(toWorker[v], toWorker'[v], {}) /\ Once(toWorker'[v])
  BY <1>1 DEF Within, PortsOK
<1>4. /\ PortsOK' /\ CallsKept /\ Issued' = Issued
      /\ \A d \in Issued : /\ Requested(d)' => Requested(d)
                           /\ Answered(d)' => Answered(d) \/ d = c
  BY <1>1, <1>2, <1>3, AnswerPlaces
<1>5. ASSUME NEW d \in Issued, d # c PROVE PlaceOK(d)'
  <2>1. PlaceOK(d) /\ calls'[d].st = calls[d].st /\ (d \in running' => d \in running)
    BY <1>1 DEF PlacesOK
  <2>2. (Requested(d)' => Requested(d)) /\ (Answered(d)' => Answered(d))
    BY <1>4, <1>5
  <2> QED
    BY <1>1, <1>4, <2>1, <2>2, PlaceFrame
<1>6. PlaceOK(c)'
  BY <1>1, <1>2, <1>4 DEF PlaceOK, St
<1> QED
  BY <1>4, <1>5, <1>6 DEF PlacesOK

\* The result of a call of a method, which had ended, is handled.
LEMMA ResultPlaces ==
  ASSUME WellTyped, PortsOK, PlacesOK, NEW w \in Workers, HandleResult(w)
  PROVE  /\ PortsOK' /\ PlacesOK' /\ CallsKept /\ Issued' = Issued
         /\ \A d \in Issued :
              /\ calls'[d].prev = calls[d].prev
              /\ calls'[d].st # calls[d].st => {calls[d].st, calls'[d].st} \subseteq Ended
<1>0. PICK c : c = Head(toWorker[w]).call
  OBVIOUS
<1>1. /\ Taken(toWorker, toWorker', w) /\ c \in Issued /\ Head(toWorker[w]).kind = "result"
      /\ Issued' = Issued
      /\ \A d \in Issued :
           /\ calls'[d].kind = calls[d].kind /\ calls'[d].by = calls[d].by
           /\ calls'[d].actor = calls[d].actor /\ calls'[d].prev = calls[d].prev
           /\ calls'[d].st = IF d = c THEN "settled" ELSE St(d)
  BY <1>0, HandleResultIs
<1>2. running' = running /\ gaveUp' = gaveUp /\ objects' = objects /\ toHost' = toHost
  BY DEF HandleResult
<1>3. CallsKept
  BY <1>1, Numbers DEF CallsKept, St, Ended, User
<1>4. /\ \A v \in Workers : Within(toWorker[v], toWorker'[v], {}) /\ Once(toWorker'[v])
      /\ Head(toWorker[w]) \in ToSet(toWorker[w])
  <2>1. Ports(toWorker, Issued, Entries)
    BY DEF WellTyped, Ports
  <2> QED
    BY <1>1, <2>1, TakenWithin DEF PortsOK
<1>5. St(c) \in Ended /\ calls'[c].st \in Ended
  BY <1>0, <1>1, <1>4 DEF PortsOK, ToWorkerOf, Ended
<1> DEFINE none == [v \in Workers |-> {}]
<1>6. \A v \in Workers :
        /\ Within(toHost[v], toHost'[v], none[v]) /\ Once(toHost'[v])
        /\ Within(toWorker[v], toWorker'[v], none[v]) /\ Once(toWorker'[v])
        /\ \A x \in none[v] : FromWorker(v, x)'
        /\ \A x \in none[v] : ToWorkerOf(v, x)'
  BY <1>2, <1>4 DEF Within, PortsOK
<1>7. \A v \in Workers : Within(toHost[v], toHost'[v], {})
  BY <1>6
<1> HIDE DEF none
<1>8. ASSUME NEW v \in Workers, NEW x \in ToSet(toHost'[v]), x \in ToSet(toHost[v]), x.kind = "call"
      PROVE  calls'[x.call].st = "asked"
  <2>1. x.call \in Issued /\ St(x.call) = "asked"
    BY <1>8, InPort DEF PortsOK, FromWorker
  <2> QED
    BY <1>1, <1>5, <2>1 DEF Ended
<1>9. PortsOK'
  BY <1>3, <1>6, <1>8, PortsFrame
<1>10. ASSUME NEW d \in Issued PROVE PlaceOK(d)'
  <2>1. (Requested(d)' => Requested(d)) /\ (Answered(d)' => Answered(d)) /\ PlaceOK(d)
    BY <1>3, <1>4, <1>7, PlacesWithin DEF PlacesOK
  <2>2. CASE d # c
    BY <1>1, <1>2, <1>3, <2>1, <2>2, PlaceFrame DEF St
  <2>3. CASE d = c
    BY <1>1, <1>2, <1>5, <2>1, <2>3 DEF PlaceOK, St, Ended
  <2> QED
    BY <2>2, <2>3
<1> QED
  BY <1>1, <1>3, <1>5, <1>9, <1>10 DEF PlacesOK, St

-----------------------------------------------------------------------------
(* The turns of an actor's tasks.                                          *)

\* rank orders the tasks of a after a step that settles tasks and starts those
\* whose turn it is
LEMMA OrderFrame ==
  ASSUME NEW rank, NEW a, InOrder(a, rank), mailboxes'[a] = mailboxes[a],
         \A c : c \in Tasks(a)' <=> c \in Tasks(a),
         \A c \in Tasks(a) :
           /\ calls'[c].prev = calls[c].prev
           /\ St(c) \in Ended => calls'[c].st \in Ended
           /\ St(c) = "queued" /\ calls'[c].st # "queued" =>
                \A d \in Tasks(a) : rank[d] < rank[c] => calls'[d].st \in Ended
  PROVE  InOrder(a, rank)'
<1>1. /\ mailboxes'[a] = 0 => \A c : c \notin Tasks(a)'
      /\ mailboxes'[a] # 0 =>
           /\ mailboxes'[a] \in Tasks(a)'
           /\ \A c \in Tasks(a)' \ {mailboxes'[a]} : rank[c] < rank[mailboxes'[a]]
  BY DEF InOrder
<1>2. \A c \in Tasks(a)' :
        /\ \A d \in Tasks(a)' : rank[c] = rank[d] => c = d
        /\ \A d \in Tasks(a)' : rank[d] < rank[c] =>
             calls'[c].prev \in Tasks(a)' /\ rank[d] <= rank[calls'[c].prev]
  BY DEF InOrder
<1>3. \A c \in Tasks(a)' : calls'[c].st # "queued" =>
        \A d \in Tasks(a)' : rank[d] < rank[c] => calls'[d].st \in Ended
  BY DEF InOrder
<1> QED
  BY <1>1, <1>2, <1>3 DEF InOrder, St

\* no task is added, and what a step settles had ended
LEMMA TurnsFrame ==
  ASSUME WellTyped, TurnsOK, CallsKept, objects' \subseteq objects,
         \A a \in objects' : mailboxes'[a] = mailboxes[a],
         \A c \in Issued :
           /\ calls'[c].prev = calls[c].prev
           /\ calls'[c].st # calls[c].st => {calls[c].st, calls'[c].st} \subseteq Ended,
         \A c \in Issued' \ Issued : calls'[c].st = "asked"
  PROVE  TurnsOK'
<1>1. PICK rank \in [Nat -> Nat] : Ranked(rank)
  BY DEF TurnsOK
<1>2. ASSUME NEW a \in objects' PROVE InOrder(a, rank)'
  <2>1. \A c : c \in Tasks(a)' <=> c \in Tasks(a)
    BY DEF Tasks, CallsKept, St, Ended
  <2>2. InOrder(a, rank) /\ mailboxes'[a] = mailboxes[a]
    BY <1>1 DEF Ranked
  <2>3. \A c \in Tasks(a) :
          /\ calls'[c].prev = calls[c].prev
          /\ St(c) \in Ended => calls'[c].st \in Ended
          /\ ~(St(c) = "queued" /\ calls'[c].st # "queued")
    BY DEF Tasks, CallsKept, St, Ended
  <2> QED
    BY <2>1, <2>2, <2>3, OrderFrame
<1> QED
  BY <1>1, <1>2 DEF TurnsOK, Ranked

\* the task that follows c starts when all before it have ended
LEMMA SettleTurns ==
  ASSUME WellTyped, TurnsOK, NEW c \in Issued, NEW fs, St(c) = "sent", Settled(c, fs), objects' = objects,
         \A a \in objects : mailboxes'[a] = mailboxes[a]
  PROVE  TurnsOK'
<1>1. PICK rank \in [Nat -> Nat] : Ranked(rank)
  BY DEF TurnsOK
<1>2. /\ Issued' = Issued /\ Issued \subseteq Nat
      /\ \A d \in Issued : calls'[d].actor = calls[d].actor /\ calls'[d].prev = calls[d].prev
      /\ calls'[c].st \in Ended
      /\ \A d \in Issued \ {c} : calls'[d].st = IF d \in Following(c) THEN "sent" ELSE St(d)
  <2>1. Issued \subseteq Nat
    BY Numbers
  <2> QED
    BY <2>1 DEF Settled, Ended
<1>3. ASSUME NEW a \in objects PROVE InOrder(a, rank)'
  <2>1. InOrder(a, rank) /\ mailboxes'[a] = mailboxes[a]
    BY <1>1 DEF Ranked
  <2>2. \A d : d \in Tasks(a)' <=> d \in Tasks(a)
    BY <1>2 DEF Tasks, St, Following, Ended
  <2>3. ASSUME NEW d \in Tasks(a), St(d) = "queued", calls'[d].st # "queued",
               NEW e \in Tasks(a), rank[e] < rank[d]
        PROVE  calls'[e].st \in Ended
    <3>1. d \in Following(c)
      BY <1>2, <2>3 DEF Tasks, St
    <3>2. c \in Tasks(a) /\ rank[e] <= rank[c]
      BY <2>1, <2>3, <3>1 DEF InOrder, Following
    <3>3. CASE rank[e] = rank[c]
      BY <1>2, <2>1, <3>2, <3>3 DEF InOrder
    <3>4. CASE rank[e] < rank[c]
      <4>1. St(e) \in Ended
        BY <2>1, <3>2, <3>4 DEF InOrder
      <4> QED
        BY <1>2, <4>1 DEF Tasks, Following, Ended
    <3>5. rank[e] \in Nat /\ rank[c] \in Nat
      BY <1>2 DEF Tasks
    <3> QED
      BY <3>2, <3>3, <3>4, <3>5
  <2>4. \A d \in Tasks(a) :
          /\ calls'[d].prev = calls[d].prev
          /\ St(d) \in Ended => calls'[d].st \in Ended
    BY <1>2 DEF Tasks, Following, Ended
  <2> QED
    BY <2>1, <2>2, <2>3, <2>4, OrderFrame
<1> QED
  BY <1>1, <1>3 DEF TurnsOK, Ranked

\* a call that is enqueued comes after all the tasks of its actor
LEMMA EnqueueTurns ==
  ASSUME WellTyped, TurnsOK, NEW c, NEW call, EnqueuesNew(c, call), objects' = objects
  PROVE  TurnsOK'
<1>1. PICK rank \in [Nat -> Nat] : Ranked(rank)
  BY DEF TurnsOK
<1>0. PICK a0, prev : a0 = call.actor /\ prev = mailboxes[a0]
  OBVIOUS
<1>2. /\ Issued' = Issued \cup {c} /\ Issued \subseteq Nat /\ c \in Nat /\ c # 0 /\ 0 \notin Issued
      /\ a0 \in Actors
      /\ \A d \in Issued \ {c} : calls'[d] = calls[d]
      /\ calls'[c].actor = a0 /\ calls'[c].prev = prev
      /\ calls'[c].st = IF prev = 0 \/ St(prev) \in Ended THEN "sent" ELSE "queued"
      /\ mailboxes' = [mailboxes EXCEPT ![a0] = c]
      /\ c \notin Issued \/ (St(c) = "asked" /\ calls[c].actor = a0)
  <2>1. c \in Nat
    <3>1. calls' \in Seq(CallSet(Issued', Entries')) /\ c \in Issued'
      BY DEF EnqueuesNew, Enqueued
    <3> QED
      BY <3>1 DEF Issued
  <2>2. /\ Issued' = Issued \cup {c}
        /\ \A d \in Issued \ {c} : calls'[d] = calls[d]
        /\ calls'[c].actor = a0 /\ calls'[c].prev = prev
        /\ calls'[c].st = IF prev = 0 \/ St(prev) \in Ended THEN "sent" ELSE "queued"
        /\ mailboxes' = [mailboxes EXCEPT ![a0] = c]
    BY <1>0 DEF EnqueuesNew, Enqueued
  <2>3. /\ c # 0 /\ a0 \in Actors
        /\ c \notin Issued \/ (St(c) = "asked" /\ calls[c].actor = a0)
    BY <1>0 DEF EnqueuesNew
  <2>4. Issued \subseteq Nat /\ 0 \notin Issued
    BY Numbers
  <2> QED
    BY <2>1, <2>2, <2>3, <2>4
<1>3. mailboxes'[a0] = c /\ \A a \in Actors \ {a0} : mailboxes'[a] = mailboxes[a]
  BY <1>2 DEF WellTyped
<1>4. /\ \A a : c \notin Tasks(a)
      /\ \A a : \A d : d \in Tasks(a)' <=> d \in Tasks(a) \/ (a = a0 /\ d = c)
      /\ \A a : \A d \in Tasks(a) : d # c /\ d \in Nat /\ calls'[d] = calls[d]
  BY <1>2 DEF Tasks, St
<1> DEFINE last == IF prev = 0 THEN 0 ELSE rank[prev] + 1
           rank2 == [rank EXCEPT ![c] = last]
<1>5. prev # 0 => prev \in Nat
  BY <1>0, <1>2 DEF WellTyped
<1>6. /\ rank2 \in [Nat -> Nat] /\ rank2[c] = last
      /\ \A d \in Nat \ {c} : rank2[d] = rank[d]
  BY <1>2, <1>5
<1> HIDE DEF rank2
<1>7. ASSUME NEW a \in objects, a # a0 PROVE InOrder(a, rank2)'
  <2>1. /\ InOrder(a, rank) /\ mailboxes'[a] = mailboxes[a]
        /\ \A d : d \in Tasks(a)' <=> d \in Tasks(a)
        /\ \A d \in Tasks(a) : rank2[d] = rank[d] /\ calls'[d] = calls[d]
    BY <1>1, <1>3, <1>4, <1>6, <1>7 DEF Ranked, WellTyped
  <2>2. InOrder(a, rank2)
    BY <2>1 DEF InOrder
  <2>3. \A d \in Tasks(a) :
          /\ calls'[d].prev = calls[d].prev
          /\ St(d) \in Ended => calls'[d].st \in Ended
          /\ ~(St(d) = "queued" /\ calls'[d].st # "queued")
    BY <2>1 DEF St
  <2> QED
    BY <2>1, <2>2, <2>3, OrderFrame
<1>8. ASSUME a0 \in objects PROVE InOrder(a0, rank2)'
  <2>1. InOrder(a0, rank)
    BY <1>1, <1>8 DEF Ranked
  <2>2. CASE prev = 0
    <3>1. \A d : d \in Tasks(a0)' <=> d = c
      BY <1>0, <1>4, <2>1, <2>2 DEF InOrder
    <3>2. ~(rank2[c] < rank2[c])
      BY <1>6, <2>2
    <3> QED
      BY <1>2, <1>3, <3>1, <3>2 DEF InOrder
  <2>3. CASE prev # 0
    <3>1. /\ prev \in Tasks(a0)
          /\ \A d \in Tasks(a0) \ {prev} : rank[d] < rank[prev]
      BY <1>0, <2>1, <2>3 DEF InOrder
    <3>2. /\ \A d \in Tasks(a0) : rank[d] \in Nat /\ rank2[d] = rank[d] /\ rank2[d] <= rank2[prev]
          /\ \A d \in Tasks(a0) : rank2[d] < rank2[c]
      <4>1. \A d \in Tasks(a0) : rank[d] \in Nat /\ rank2[d] = rank[d]
        BY <1>4, <1>6
      <4>2. \A d \in Tasks(a0) : rank[d] <= rank[prev]
        BY <3>1, <4>1
      <4>3. rank2[c] = rank[prev] + 1
        BY <1>6, <2>3
      <4> QED
        BY <3>1, <4>1, <4>2, <4>3
    <3>3. rank2[c] \in Nat
      BY <1>2, <1>6
    <3>4. mailboxes'[a0] # 0 /\ mailboxes'[a0] \in Tasks(a0)'
          /\ \A d \in Tasks(a0)' \ {mailboxes'[a0]} : rank2[d] < rank2[mailboxes'[a0]]
      BY <1>2, <1>3, <1>4, <3>2
    <3>5. ASSUME NEW d \in Tasks(a0)', NEW e \in Tasks(a0)'
          PROVE  rank2[d] = rank2[e] => d = e
      <4>1. (d = c \/ d \in Tasks(a0)) /\ (e = c \/ e \in Tasks(a0))
        BY <1>4
      <4>2. CASE d \in Tasks(a0) /\ e \in Tasks(a0)
        BY <2>1, <3>2, <4>2 DEF InOrder
      <4>3. CASE d = c \/ e = c
        BY <3>2, <3>3, <4>1, <4>3
      <4> QED
        BY <4>1, <4>2, <4>3
    <3>6. ASSUME NEW d \in Tasks(a0)', NEW e \in Tasks(a0)', rank2[e] < rank2[d]
          PROVE  /\ calls'[d].prev \in Tasks(a0)' /\ rank2[e] <= rank2[calls'[d].prev]
                 /\ calls'[d].st # "queued" => calls'[e].st \in Ended
      <4>1. e \in Tasks(a0)
        <5>1. e = c => d = c \/ d \in Tasks(a0)
          BY <1>4
        <5> QED
          BY <1>4, <3>2, <3>3, <3>6, <5>1
      <4>2. CASE d = c
        <5>1. calls'[d].prev \in Tasks(a0)' /\ rank2[e] <= rank2[calls'[d].prev]
          BY <1>2, <1>4, <3>1, <3>2, <4>1, <4>2
        <5>2. ASSUME calls'[d].st # "queued" PROVE calls'[e].st \in Ended
          <6>1. St(prev) \in Ended
            BY <1>2, <2>3, <4>2, <5>2
          <6>2. e # prev => St(e) \in Ended
            BY <2>1, <3>1, <4>1, <6>1 DEF InOrder, Ended
          <6> QED
            BY <1>4, <4>1, <6>1, <6>2 DEF St
        <5> QED
          BY <5>1, <5>2
      <4>3. CASE d \in Tasks(a0)
        <5>1. rank[e] < rank[d]
          BY <3>2, <3>6, <4>1, <4>3
        <5>2. /\ calls[d].prev \in Tasks(a0) /\ rank[e] <= rank[calls[d].prev]
              /\ St(d) # "queued" => St(e) \in Ended
          BY <2>1, <4>1, <4>3, <5>1 DEF InOrder
        <5> QED
          BY <1>4, <3>2, <4>1, <4>3, <5>2 DEF St
      <4> QED
        BY <1>4, <4>2, <4>3
    <3> QED
      BY <3>4, <3>5, <3>6 DEF InOrder, St
  <2> QED
    BY <2>2, <2>3
<1>9. \A a \in objects' : InOrder(a, rank2)'
  BY <1>7, <1>8
<1> QED
  BY <1>6, <1>9 DEF TurnsOK, Ranked

\* two requests of an actor are not with its worker at a time
LEMMA OneSent ==
  ASSUME WellTyped, TurnsOK, NEW c \in Issued, NEW d \in Issued, St(c) = "sent", St(d) = "sent",
         calls[c].actor = calls[d].actor, calls[c].actor \in objects
  PROVE  c = d
<1> DEFINE a == calls[c].actor
<1>1. PICK rank \in [Nat -> Nat] : InOrder(a, rank)
  BY DEF TurnsOK, Ranked
<1>2. c \in Tasks(a) /\ d \in Tasks(a)
  BY DEF Tasks
<1>3. rank[c] \in Nat /\ rank[d] \in Nat
  <2>1. Issued \subseteq Nat
    BY Numbers
  <2> QED
    BY <1>1, <2>1
<1>4. ~(rank[c] < rank[d]) /\ ~(rank[d] < rank[c])
  <2>1. /\ St(d) # "queued" /\ rank[c] < rank[d] => St(c) \in Ended
        /\ St(c) # "queued" /\ rank[d] < rank[c] => St(d) \in Ended
    BY <1>1, <1>2 DEF InOrder
  <2>2. St(c) \notin Ended /\ St(d) \notin Ended /\ St(c) # "queued" /\ St(d) # "queued"
    BY DEF Ended
  <2> QED
    BY <2>1, <2>2
<1>5. rank[c] = rank[d]
  BY <1>3, <1>4
<1> QED
  BY <1>1, <1>2, <1>5 DEF InOrder

-----------------------------------------------------------------------------
(* What keeps running methods and entries.                                 *)

\* methods run on, and calls that were given up stay so
LEMMA RunningFrame ==
  ASSUME WellTyped, RunningOK, CallsKept, running' \subseteq running, objects' = objects, gaveUp \subseteq gaveUp'
  PROVE  RunningOK'
<1>1. \A c \in running : c \in Issued /\ calls'[c].actor = calls[c].actor
  BY DEF WellTyped, CallsKept
<1>2. \A a : GivenUp(a) => GivenUp(a)'
  BY DEF GivenUp, WellTyped, CallsKept
<1> QED
  BY <1>1, <1>2 DEF RunningOK

\* GivenUp after the step
StaysGivenUp(a) == \E c \in gaveUp' : calls'[c].actor = a

\* Entries are released or added, and no call of an entry that is kept stops
\* awaiting its worker.
LEMMA KeptFrame ==
  ASSUME WellTyped, KeptOnlyWhileNeeded, CallsKept, Entries \subseteq Entries',
         gaveUp \subseteq gaveUp',
         \A e \in Entries :
           /\ entries'[e].scope = entries[e].scope /\ entries'[e].actor = entries[e].actor
           /\ entries'[e].live =>
                /\ entries[e].live
                /\ entries[e].scope # Unscoped /\ St(entries[e].scope) = "sent" =>
                     calls'[entries[e].scope].st = "sent"
                /\ entries[e].actor \in objects => entries[e].actor \in objects',
         \A e \in Entries' \ Entries :
           /\ entries'[e].scope # Unscoped => calls'[entries'[e].scope].st = "sent"
           /\ entries'[e].actor # NoActor => entries'[e].actor \in objects' \/ StaysGivenUp(entries'[e].actor)
  PROVE  KeptOnlyWhileNeeded'
<1>1. \A a : GivenUp(a) => StaysGivenUp(a)
  BY DEF GivenUp, StaysGivenUp, WellTyped, CallsKept
<1>2. ASSUME NEW e \in Entries, entries'[e].live
      PROVE  /\ entries'[e].scope # Unscoped => calls'[entries'[e].scope].st = "sent"
             /\ entries'[e].actor # NoActor => entries'[e].actor \in objects' \/ StaysGivenUp(entries'[e].actor)
  <2>1. /\ entries[e].live
        /\ entries[e].scope # Unscoped => St(entries[e].scope) = "sent"
        /\ entries[e].actor # NoActor => entries[e].actor \in objects \/ GivenUp(entries[e].actor)
    BY <1>2 DEF KeptOnlyWhileNeeded, GivenUp, St
  <2> QED
    BY <1>1, <1>2, <2>1
<1>3. \A e \in Entries' : entries'[e].live =>
        /\ entries'[e].scope # Unscoped => calls'[entries'[e].scope].st = "sent"
        /\ entries'[e].actor # NoActor => entries'[e].actor \in objects' \/ StaysGivenUp(entries'[e].actor)
  BY <1>2
<1> QED
  BY <1>3 DEF KeptOnlyWhileNeeded, StaysGivenUp

-----------------------------------------------------------------------------
(* The steps keep the invariant.                                           *)

\* a step that makes, settles or releases nothing
LEMMA QuietInv ==
  ASSUME WellTyped, CallbacksInv, PortsOK', PlacesOK',
         UNCHANGED <<calls, mailboxes, objects, entries, gaveUp>>, running' \subseteq running
  PROVE  CallbacksInv'
<1>1. /\ calls' = calls /\ mailboxes' = mailboxes /\ objects' = objects /\ gaveUp' = gaveUp
      /\ entries' = entries /\ Issued' = Issued /\ Entries' = Entries
  BY DEF Issued, Entries
<1>2. CallsKept
  BY <1>1, Numbers DEF CallsKept, St
<1>3. RunningOK'
  BY <1>1, <1>2, RunningFrame DEF CallbacksInv
<1>4. TurnsOK'
  BY <1>1, <1>2, TurnsFrame DEF CallbacksInv
<1>5. KeptOnlyWhileNeeded'
  BY <1>1 DEF KeptOnlyWhileNeeded, CallbacksInv
<1> QED
  BY <1>3, <1>4, <1>5 DEF CallbacksInv

LEMMA EnqueueInv ==
  ASSUME WellTyped, CallbacksInv, NEW c, NEW call, EnqueuesNew(c, call),
         \A w \in Workers :
           Within(toHost[w], toHost'[w], {}) /\ Once(toHost'[w]) /\ ~Has(toHost'[w], "call", c),
         UNCHANGED <<running, objects, gaveUp>>
  PROVE  CallbacksInv'
<1>1. running' = running /\ objects' = objects /\ gaveUp' = gaveUp
  OBVIOUS
<1>2. CallsKept
  BY EnqueueKeeps
<1>3. PortsOK' /\ PlacesOK'
  BY EnqueuePlaces DEF CallbacksInv
<1>4. RunningOK'
  BY <1>1, <1>2, RunningFrame DEF CallbacksInv
<1>5. TurnsOK'
  BY <1>1, EnqueueTurns DEF CallbacksInv
<1>6. KeptOnlyWhileNeeded'
  <2>1. /\ \A d \in Issued \ {c} : calls'[d] = calls[d]
        /\ c \notin Issued \/ St(c) = "asked"
        /\ Entries \subseteq Entries'
        /\ \A e \in Entries : entries'[e] = entries[e]
        /\ \A e \in Entries' \ Entries :
             entries'[e].scope = c /\ entries'[e].actor = NoActor /\ calls'[c].st = "sent"
    BY DEF EnqueuesNew, Enqueued, New
  <2>2. \A e \in Entries : entries[e].scope \in Issued \cup {Unscoped}
    BY Numbers DEF EntrySet
  <2>3. \A e \in Entries : entries[e].scope # Unscoped /\ St(entries[e].scope) = "sent" =>
          calls'[entries[e].scope].st = "sent"
    BY <2>1, <2>2 DEF St
  <2> QED
    BY <1>1, <1>2, <2>1, <2>3, KeptFrame DEF CallbacksInv
<1> QED
  BY <1>3, <1>4, <1>5, <1>6 DEF CallbacksInv

LEMMA SettleInv ==
  ASSUME WellTyped, CallbacksInv, NEW c \in Issued, NEW fs, St(c) = "sent", Settled(c, fs),
         \A w \in Workers : Within(toHost[w], toHost'[w], {}) /\ Once(toHost'[w]),
         UNCHANGED <<running, objects>>,
         \/ gaveUp' = gaveUp \cup {c} /\ calls[c].kind = "call"
         \/ gaveUp' = gaveUp /\ Answered(c) /\ ~Has(toHost'[Side(c)], "answer", c),
         \A a \in objects : mailboxes'[a] = mailboxes[a]
  PROVE  CallbacksInv'
<1>1. running' = running /\ objects' = objects /\ gaveUp \subseteq gaveUp'
  OBVIOUS
<1>2. CallsKept
  BY SettleKeeps
<1>3. PortsOK' /\ PlacesOK'
  BY SettlePlaces DEF CallbacksInv
<1>4. RunningOK'
  BY <1>1, <1>2, RunningFrame DEF CallbacksInv
<1>5. TurnsOK'
  BY <1>1, SettleTurns DEF CallbacksInv
<1>6. KeptOnlyWhileNeeded'
  <2>1. /\ \A d \in Issued \ {c} : calls'[d].st = IF d \in Following(c) THEN "sent" ELSE St(d)
        /\ Entries \subseteq Entries'
        /\ \A e \in Entries :
             /\ entries'[e].scope = entries[e].scope /\ entries'[e].actor = entries[e].actor
             /\ entries'[e].live => entries[e].live /\ entries[e].scope # c
        /\ \A e \in Entries' \ Entries :
             entries'[e].scope \in {Unscoped} \cup Following(c) /\ entries'[e].actor = NoActor
    BY DEF Settled, New
  <2>2. \A e \in Entries : entries[e].scope \in Issued \cup {Unscoped}
    BY Numbers DEF EntrySet
  <2>3. c \notin Following(c) /\ Following(c) \subseteq Issued
    BY DEF Following
  <2>4. \A e \in Entries :
          entries'[e].live /\ entries[e].scope # Unscoped /\ St(entries[e].scope) = "sent" =>
            calls'[entries[e].scope].st = "sent"
    BY <2>1, <2>2
  <2>5. \A e \in Entries' \ Entries :
          entries'[e].scope # Unscoped => calls'[entries'[e].scope].st = "sent"
    BY <2>1, <2>3
  <2> QED
    BY <1>1, <1>2, <2>1, <2>4, <2>5, KeptFrame DEF CallbacksInv
<1> QED
  BY <1>3, <1>4, <1>5, <1>6 DEF CallbacksInv

LEMMA StubCallsInv ==
  ASSUME WellTyped, CallbacksInv, NEW p \in running, NEW a \in Actors, NEW fs, StubCalled(p, a, fs),
         UNCHANGED <<mailboxes, running, objects, gaveUp, toWorker>>
  PROVE  CallbacksInv'
<1>1. running' = running /\ objects' = objects /\ gaveUp' = gaveUp /\ mailboxes' = mailboxes /\ toWorker' = toWorker
  OBVIOUS
<1>2. PortsOK' /\ PlacesOK' /\ CallsKept
  BY <1>1, StubCallsPlaces DEF CallbacksInv
<1>3. /\ \A d \in Issued : calls'[d] = calls[d]
      /\ \A d \in Issued' \ Issued : calls'[d].st = "asked"
      /\ Entries \subseteq Entries'
      /\ \A e \in Entries : entries'[e] = entries[e]
      /\ \A e \in Entries' \ Entries : entries'[e].scope = Unscoped /\ entries'[e].actor = NoActor
  BY DEF StubCalled, New
<1>4. RunningOK'
  BY <1>1, <1>2, RunningFrame DEF CallbacksInv
<1>5. TurnsOK'
  BY <1>1, <1>2, <1>3, TurnsFrame DEF CallbacksInv
<1>6. KeptOnlyWhileNeeded'
  <2>1. \A e \in Entries : entries[e].scope \in Issued \cup {Unscoped}
    BY Numbers DEF EntrySet
  <2>2. \A e \in Entries : entries[e].scope # Unscoped /\ St(entries[e].scope) = "sent" =>
          calls'[entries[e].scope].st = "sent"
    BY <1>3, <2>1 DEF St
  <2> QED
    BY <1>1, <1>2, <1>3, <2>2, KeptFrame DEF CallbacksInv
<1> QED
  BY <1>2, <1>4, <1>5, <1>6 DEF CallbacksInv

LEMMA HandleCallInv ==
  ASSUME WellTyped, CallbacksInv, NEW w \in Workers, HandleCall(w)
  PROVE  CallbacksInv'
<1>1. PortsOK' /\ PlacesOK' /\ CallsKept
  BY HandleCallPlaces DEF CallbacksInv
<1>2. /\ calls' = calls /\ mailboxes' = mailboxes /\ objects' = objects /\ gaveUp' = gaveUp
      /\ entries' = entries /\ Issued' = Issued /\ Entries' = Entries
  BY DEF HandleCall, Issued, Entries
<1>3. RunningOK'
  <2>1. \E c : running' = running \/ (calls[c].actor \in objects /\ running' = running \cup {c})
    BY HandleCallIs
  <2> QED
    BY <1>2, <2>1 DEF RunningOK, GivenUp, CallbacksInv
<1>4. TurnsOK'
  BY <1>1, <1>2, TurnsFrame DEF CallbacksInv
<1>5. KeptOnlyWhileNeeded'
  BY <1>2 DEF KeptOnlyWhileNeeded, CallbacksInv
<1> QED
  BY <1>1, <1>3, <1>4, <1>5 DEF CallbacksInv

LEMMA HandleResultInv ==
  ASSUME WellTyped, CallbacksInv, NEW w \in Workers, HandleResult(w)
  PROVE  CallbacksInv'
<1>1. /\ PortsOK' /\ PlacesOK' /\ CallsKept /\ Issued' = Issued
      /\ \A d \in Issued :
           /\ calls'[d].prev = calls[d].prev
           /\ calls'[d].st # calls[d].st => {calls[d].st, calls'[d].st} \subseteq Ended
  BY ResultPlaces DEF CallbacksInv
<1>2. /\ mailboxes' = mailboxes /\ objects' = objects /\ gaveUp' = gaveUp /\ running' = running
      /\ entries' = entries /\ Entries' = Entries
  BY DEF HandleResult, Entries
<1>3. RunningOK'
  BY <1>1, <1>2, RunningFrame DEF CallbacksInv
<1>4. TurnsOK'
  BY <1>1, <1>2, TurnsFrame DEF CallbacksInv
<1>5. KeptOnlyWhileNeeded'
  <2>1. \A e \in Entries : entries[e].scope \in Issued \cup {Unscoped}
    BY Numbers DEF EntrySet
  <2>2. \A e \in Entries : entries[e].scope # Unscoped /\ St(entries[e].scope) = "sent" =>
          calls'[entries[e].scope].st = "sent"
    BY <1>1, <2>1 DEF St, Ended
  <2> QED
    BY <1>1, <1>2, <2>2, KeptFrame DEF CallbacksInv
<1> QED
  BY <1>1, <1>3, <1>4, <1>5 DEF CallbacksInv

LEMMA MethodReturnsInv ==
  ASSUME WellTyped, CallbacksInv, NEW c \in running, NEW fs \in Passed(Side(c)), MethodReturns(c, fs)
  PROVE  CallbacksInv'
<1>1. /\ Answers(c) /\ Entries \subseteq Entries' /\ \A e \in Entries : entries'[e] = entries[e]
      /\ \A e \in Entries' \ Entries :
           entries'[e].scope = Unscoped /\ entries'[e].actor = calls[c].actor
  BY MethodReturnsIs DEF New
<1>2. /\ calls' = calls /\ mailboxes' = mailboxes /\ objects' = objects /\ gaveUp' = gaveUp
      /\ running' = running \ {c} /\ toWorker' = toWorker /\ calls[c].kind = "call" /\ Issued' = Issued
  BY DEF MethodReturns, Issued
<1>3. PortsOK' /\ PlacesOK' /\ CallsKept
  BY <1>1, <1>2, ReturnPlaces DEF CallbacksInv
<1>4. RunningOK'
  BY <1>2, <1>3, RunningFrame DEF CallbacksInv
<1>5. TurnsOK'
  BY <1>2, <1>3, TurnsFrame DEF CallbacksInv
<1>6. KeptOnlyWhileNeeded'
  <2>1. calls[c].actor \in objects' \/ StaysGivenUp(calls[c].actor)
    BY <1>2 DEF RunningOK, GivenUp, StaysGivenUp, CallbacksInv
  <2>2. \A e \in Entries : St(entries[e].scope) = "sent" => calls'[entries[e].scope].st = "sent"
    BY <1>2 DEF St
  <2> QED
    BY <1>1, <1>2, <1>3, <2>1, <2>2, KeptFrame DEF CallbacksInv
<1> QED
  BY <1>3, <1>4, <1>5, <1>6 DEF CallbacksInv

\* When an actor closes, no method of it runs but one that was given up.
LEMMA CloseReturnsInv ==
  ASSUME WellTyped, CallbacksInv, NEW c \in running, CloseReturns(c)
  PROVE  CallbacksInv'
<1>0. PICK a : a = calls[c].actor
  OBVIOUS
<1>1. /\ Answers(c) /\ Entries' = Entries
      /\ \A e \in Entries :
           /\ entries'[e].scope = entries[e].scope /\ entries'[e].actor = entries[e].actor
           /\ entries'[e].live => entries[e].live /\ entries[e].actor # a
  BY <1>0, CloseReturnsIs
<1>2. /\ calls' = calls /\ mailboxes' = mailboxes /\ objects' = objects \ {a} /\ gaveUp' = gaveUp
      /\ running' = running \ {c} /\ toWorker' = toWorker /\ calls[c].kind = "destroy" /\ Issued' = Issued
  BY <1>0 DEF CloseReturns, Issued
<1>3. PortsOK' /\ PlacesOK' /\ CallsKept
  BY <1>0, <1>1, <1>2, ReturnPlaces DEF CallbacksInv
<1>4. RunningOK'
  <2>1. ASSUME NEW d \in running, d # c, calls[d].actor = a, ~GivenUp(a) PROVE FALSE
    <3>1. /\ c \in Issued /\ d \in Issued /\ PlaceOK(c) /\ PlaceOK(d)
          /\ calls[d].actor \in objects
      BY <2>1 DEF CallbacksInv, PlacesOK, RunningOK, WellTyped
    <3>2. c \notin gaveUp /\ d \notin gaveUp
      BY <1>2, <2>1, <3>1 DEF PlaceOK, GivenUp
    <3>3. St(c) = "sent" /\ St(d) = "sent"
      BY <2>1, <3>1, <3>2 DEF PlaceOK
    <3> QED
      BY <1>0, <2>1, <3>1, <3>3, OneSent DEF CallbacksInv
  <2>2. \A b : GivenUp(b) => StaysGivenUp(b)
    BY <1>2 DEF GivenUp, StaysGivenUp
  <2>3. ASSUME NEW d \in running' PROVE calls'[d].actor \in objects' \/ StaysGivenUp(calls'[d].actor)
    <3>1. d \in running /\ d # c /\ calls'[d].actor = calls[d].actor
      BY <1>2
    <3>2. calls[d].actor \in objects \/ GivenUp(calls[d].actor)
      BY <3>1 DEF CallbacksInv, RunningOK
    <3> QED
      BY <1>2, <2>1, <2>2, <3>1, <3>2
  <2> QED
    BY <2>3 DEF RunningOK, GivenUp, StaysGivenUp
<1>5. TurnsOK'
  BY <1>2, <1>3, TurnsFrame DEF CallbacksInv
<1>6. KeptOnlyWhileNeeded'
  <2>1. \A e \in Entries : St(entries[e].scope) = "sent" => calls'[entries[e].scope].st = "sent"
    BY <1>2 DEF St
  <2> QED
    BY <1>1, <1>2, <1>3, <2>1, KeptFrame DEF CallbacksInv
<1> QED
  BY <1>3, <1>4, <1>5, <1>6 DEF CallbacksInv

LEMMA InitInv == Init => CallbacksInv
<1> SUFFICES ASSUME Init PROVE CallbacksInv
  OBVIOUS
<1>1. /\ Issued = {} /\ Entries = {} /\ running = {}
      /\ \A a \in Actors : mailboxes[a] = 0
      /\ \A w \in Workers : toHost[w] = <<>> /\ toWorker[w] = <<>>
      /\ objects = Actors
  BY DEF Init, Issued, Entries
<1>2. PortsOK
  <2>1. ToSet(<<>>) = {} /\ Once(<<>>)
    BY DEF ToSet, Once
  <2> QED
    BY <1>1, <2>1 DEF PortsOK
<1>3. TurnsOK
  <2>1. PICK rank : rank \in [Nat -> Nat]
    <3>1. [n \in Nat |-> n] \in [Nat -> Nat]
      OBVIOUS
    <3> QED
      BY <3>1
  <2>2. \A a : Tasks(a) = {}
    BY <1>1 DEF Tasks
  <2>3. Ranked(rank)
    BY <1>1, <2>2 DEF Ranked, InOrder
  <2> QED
    BY <2>1, <2>3 DEF TurnsOK
<1>4. PlacesOK /\ RunningOK /\ KeptOnlyWhileNeeded
  BY <1>1 DEF PlacesOK, RunningOK, KeptOnlyWhileNeeded
<1> QED
  BY <1>2, <1>3, <1>4 DEF CallbacksInv

\* user code calls or destroys an actor
LEMMA HostCallsInv ==
  ASSUME WellTyped, CallbacksInv, NEW kind \in {"call", "destroy"}, NEW a \in Actors,
         NEW fs \in Passable(Entries), Enqueue(Len(calls) + 1, NewCall(kind, User, a, fs)),
         UNCHANGED <<running, objects, held, toHost, invokes, gaveUp, hasty>>
  PROVE  WellTyped' /\ CallbacksInv'
<1>1. WellTyped' /\ Enqueued(Len(calls) + 1, NewCall(kind, User, a, fs))
  BY HostCallsTyped
<1>2. PICK c, call : c = Len(calls) + 1 /\ call = NewCall(kind, User, a, fs)
  OBVIOUS
<1>3. c \notin Issued /\ c # 0
  BY <1>2, Numbers
<1>4. call.actor \in Actors
  BY <1>2 DEF NewCall
<1>5. EnqueuesNew(c, call)
  BY <1>1, <1>2, <1>3, <1>4 DEF EnqueuesNew
<1>6. running' = running /\ objects' = objects /\ gaveUp' = gaveUp /\ toHost' = toHost
  OBVIOUS
<1>7. \A w \in Workers :
        Within(toHost[w], toHost'[w], {}) /\ Once(toHost'[w]) /\ ~Has(toHost'[w], "call", c)
  BY <1>3, <1>6, InPort DEF Within, CallbacksInv, PortsOK
<1>8. CallbacksInv'
  BY <1>5, <1>6, <1>7, EnqueueInv
<1> QED
  BY <1>1, <1>8

\* the host enqueues a call that a method made
LEMMA HandleBridgeCallInv ==
  ASSUME WellTyped, CallbacksInv, NEW w \in Workers, HandleBridgeCall(w)
  PROVE  WellTyped' /\ CallbacksInv'
<1>1. PICK c, call : c = Head(toHost[w]).call /\ call = calls[c]
  OBVIOUS
<1>2. /\ c \in Issued /\ Head(toHost[w]).kind = "call"
      /\ WellTyped' /\ Enqueued(c, call) /\ Taken(toHost, toHost', w)
  BY <1>1, HandleBridgeCallIs
<1>3. /\ \A v \in Workers : Within(toHost[v], toHost'[v], {}) /\ Once(toHost'[v])
      /\ Head(toHost[w]) \in ToSet(toHost[w]) /\ ~Has(toHost'[w], "call", c)
  <2>1. Ports(toHost, Issued, Entries)
    BY DEF WellTyped, Ports
  <2> QED
    BY <1>1, <1>2, <2>1, TakenWithin DEF PortsOK, CallbacksInv
<1>4. St(c) = "asked" /\ Caller(c) = w
  BY <1>1, <1>2, <1>3 DEF CallbacksInv, PortsOK, FromWorker
<1>5. \A v \in Workers : ~Has(toHost'[v], "call", c)
  <2>1. \A v \in Workers : Has(toHost[v], "call", c) => v = w
    BY <1>4 DEF CallbacksInv, PortsOK, FromWorker, Has
  <2> QED
    BY <1>3, <2>1, HasWithin
<1>6. EnqueuesNew(c, call)
  <2>1. calls[c].actor \in Actors /\ c # 0
    BY <1>2, SideIs, Numbers
  <2> QED
    BY <1>1, <1>2, <1>4, <2>1 DEF EnqueuesNew
<1>7. running' = running /\ objects' = objects /\ gaveUp' = gaveUp
  BY DEF HandleBridgeCall
<1>8. CallbacksInv'
  BY <1>3, <1>5, <1>6, <1>7, EnqueueInv
<1> QED
  BY <1>2, <1>8

\* The answer of a request settles it, if nothing else has.
LEMMA OnAnswerInv ==
  ASSUME WellTyped, CallbacksInv, NEW w \in Workers, OnAnswer(w)
  PROVE  WellTyped' /\ CallbacksInv'
<1>1. PICK c : c = Head(toHost[w]).call
  OBVIOUS
<1>2. /\ WellTyped' /\ Taken(toHost, toHost', w)
      /\ c \in Issued /\ Head(toHost[w]).kind = "answer"
      /\ IF St(c) = "sent"
         THEN /\ Settled(c, Head(toHost[w]).refs)
              /\ \/ mailboxes' = mailboxes
                 \/ /\ calls[c].kind = "destroy"
                    /\ mailboxes' = [mailboxes EXCEPT ![calls[c].actor] = 0]
         ELSE UNCHANGED <<calls, mailboxes, entries, held, toWorker>>
  BY <1>1, OnAnswerIs
<1>3. running' = running /\ objects' = objects /\ gaveUp' = gaveUp
  BY DEF OnAnswer
<1>4. /\ \A v \in Workers : Within(toHost[v], toHost'[v], {}) /\ Once(toHost'[v])
      /\ Head(toHost[w]) \in ToSet(toHost[w]) /\ ~Has(toHost'[w], "answer", c)
  <2>1. Ports(toHost, Issued, Entries)
    BY DEF WellTyped, Ports
  <2> QED
    BY <1>1, <1>2, <2>1, TakenWithin DEF PortsOK, CallbacksInv
<1>5. Side(c) = w
  BY <1>1, <1>2, <1>4 DEF CallbacksInv, PortsOK, FromWorker
<1>6. Answered(c) /\ ~Has(toHost'[Side(c)], "answer", c)
  BY <1>1, <1>2, <1>4, <1>5 DEF Answered, Has
<1>7. CASE St(c) = "sent"
  <2>1. \A a \in objects : mailboxes'[a] = mailboxes[a]
    <3>1. calls[c].kind = "destroy" => calls[c].actor \notin objects
      BY <1>2, <1>6 DEF CallbacksInv, PlacesOK, PlaceOK
    <3> QED
      BY <1>2, <1>7, <3>1 DEF WellTyped
  <2>2. Settled(c, Head(toHost[w]).refs)
    BY <1>2, <1>7
  <2>3. CallbacksInv'
    BY <1>2, <1>3, <1>4, <1>6, <1>7, <2>1, <2>2, SettleInv
  <2> QED
    BY <1>2, <2>3
<1>8. CASE St(c) # "sent"
  <2>1. /\ calls' = calls /\ mailboxes' = mailboxes /\ entries' = entries /\ toWorker' = toWorker
        /\ running' \subseteq running
    BY <1>2, <1>3, <1>8
  <2>2. PortsOK' /\ PlacesOK'
    BY <1>2, <1>3, <2>1, TakePlaces DEF CallbacksInv
  <2>3. CallbacksInv'
    BY <1>3, <2>1, <2>2, QuietInv
  <2> QED
    BY <1>2, <2>3
<1> QED
  BY <1>7, <1>8

\* the host gives up on a call
LEMMA TimerFiresInv ==
  ASSUME WellTyped, CallbacksInv, NEW c \in Issued, TimerFires(c)
  PROVE  WellTyped' /\ CallbacksInv'
<1>1. WellTyped' /\ Settled(c, {}) /\ St(c) = "sent" /\ calls[c].kind = "call" /\ gaveUp' = gaveUp \cup {c}
  BY TimerFiresIs
<1>2. running' = running /\ objects' = objects /\ mailboxes' = mailboxes /\ toHost' = toHost
  BY DEF TimerFires
<1>3. \A w \in Workers : Within(toHost[w], toHost'[w], {}) /\ Once(toHost'[w])
  BY <1>2 DEF Within, PortsOK, CallbacksInv
<1>4. CallbacksInv'
  BY <1>1, <1>2, <1>3, SettleInv
<1> QED
  BY <1>1, <1>4

LEMMA InvocationInv ==
  ASSUME WellTyped, CallbacksInv, InvocationMoved
  PROVE  CallbacksInv'
<1>1. PortsOK' /\ PlacesOK'
  BY InvocationPlaces DEF CallbacksInv
<1>2. UNCHANGED <<calls, mailboxes, objects, entries, gaveUp>> /\ running' \subseteq running
  BY DEF InvocationMoved
<1> QED
  BY <1>1, <1>2, QuietInv

LEMMA NextInv == WellTyped /\ CallbacksInv /\ [Next]_vars => WellTyped' /\ CallbacksInv'
<1> SUFFICES ASSUME WellTyped, CallbacksInv, [Next]_vars PROVE WellTyped' /\ CallbacksInv'
  OBVIOUS
<1>0. Host \in Sides
  BY DEF Sides
<1>1. ASSUME NEW a \in Actors, NEW fs \in Passed(Host), HostCalls(a, fs) PROVE WellTyped' /\ CallbacksInv'
  <2>1. fs \in Passable(Entries)
    BY <1>0, PassedIs
  <2>2. /\ Enqueue(Len(calls) + 1, NewCall("call", User, a, fs))
        /\ UNCHANGED <<running, objects, held, toHost, invokes, gaveUp, hasty>>
    BY <1>1 DEF HostCalls
  <2> QED
    BY <2>1, <2>2, HostCallsInv
<1>2. ASSUME NEW a \in Actors, HostDestroys(a) PROVE WellTyped' /\ CallbacksInv'
  <2>1. {} \in Passable(Entries)
    BY DEF Passable
  <2>2. /\ Enqueue(Len(calls) + 1, NewCall("destroy", User, a, {}))
        /\ UNCHANGED <<running, objects, held, toHost, invokes, gaveUp, hasty>>
    BY <1>2 DEF HostDestroys
  <2> QED
    BY <2>1, <2>2, HostCallsInv
<1>3. ASSUME NEW a \in Actors, NEW p \in running, NEW fs \in Passed(Side(p)), StubCalls(p, a, fs)
      PROVE  WellTyped' /\ CallbacksInv'
  <2>1. WellTyped' /\ StubCalled(p, a, fs)
    BY <1>3, StubCallsIs
  <2>2. UNCHANGED <<mailboxes, running, objects, gaveUp, toWorker>>
    BY <1>3 DEF StubCalls
  <2> QED
    BY <2>1, <2>2, StubCallsInv
<1>4. ASSUME NEW w \in Workers, HandleBridgeCall(w) \/ OnAnswer(w) PROVE WellTyped' /\ CallbacksInv'
  BY <1>4, HandleBridgeCallInv, OnAnswerInv
<1>5. ASSUME NEW w \in Workers, HandleBridgeCallbackInvoke(w) \/ HandleCallbackInvoke(w)
      PROVE  WellTyped' /\ CallbacksInv'
  <2>1. WellTyped' /\ InvocationMoved
    BY <1>5, InvokeHandledIs
  <2> QED
    BY <2>1, InvocationInv
<1>6. ASSUME NEW w \in Workers, HandleCall(w) \/ HandleResult(w) PROVE WellTyped' /\ CallbacksInv'
  <2>1. CASE HandleCall(w)
    BY <2>1, HandleCallIs, HandleCallInv
  <2>2. CASE HandleResult(w)
    BY <2>2, HandleResultIs, HandleResultInv
  <2> QED
    BY <1>6, <2>1, <2>2
<1>7. ASSUME NEW c \in Issued, TimerFires(c) PROVE WellTyped' /\ CallbacksInv'
  BY <1>7, TimerFiresInv
<1>8. ASSUME NEW c \in running, NEW fs \in Passed(Side(c)), MethodReturns(c, fs)
      PROVE  WellTyped' /\ CallbacksInv'
  BY <1>8, MethodReturnsIs, MethodReturnsInv
<1>9. ASSUME NEW c \in running, CloseReturns(c) PROVE WellTyped' /\ CallbacksInv'
  BY <1>9, CloseReturnsIs, CloseReturnsInv
<1>10. ASSUME NEW c \in running \cup {User}, NEW e \in held[Side(c)], Invokes(c, e)
       PROVE  WellTyped' /\ CallbacksInv'
  <2>1. WellTyped' /\ InvocationMoved
    BY <1>10, InvokesIs
  <2> QED
    BY <2>1, InvocationInv
<1>11. CASE UNCHANGED vars
  <2>1. /\ UNCHANGED <<calls, mailboxes, running, objects, entries, held, gaveUp, hasty>>
        /\ invokes' = invokes /\ toHost' = toHost /\ toWorker' = toWorker
    BY <1>11 DEF vars
  <2>2. Ports(toHost, Issued, Entries) /\ Ports(toWorker, Issued, Entries)
    BY DEF WellTyped, Ports
  <2>3. WellTyped'
    BY <2>1, <2>2, InvocationTyped DEF WellTyped
  <2>4. InvocationMoved
    BY <2>1, <2>2 DEF InvocationMoved, Invoked
  <2> QED
    BY <2>3, <2>4, InvocationInv
<1>12. CASE Next
  BY <1>1, <1>2, <1>3, <1>4, <1>5, <1>6, <1>7, <1>8, <1>9, <1>10, <1>12 DEF Next
<1> QED
  BY <1>11, <1>12

LEMMA InvHolds == Spec => [](WellTyped /\ CallbacksInv)
<1>1. Init => WellTyped /\ CallbacksInv
  BY InitTyped, InitInv
<1> QED
  BY <1>1, NextInv, PTL DEF Spec

\* Every variable holds a value of its kind: messages only name calls that were
\* made and entries that were registered (Callbacks.TypeOK).
THEOREM TypeOKHolds == Spec => []TypeOK
<1>1. ASSUME WellTyped PROVE TypeOK
  <2>1. calls \in Seq([kind : {"call", "destroy"}, by : Issued \cup {User}, actor : Actors,
                       fns : SUBSET (Entries \cup {Own}), prev : Issued \cup {0},
                       st : {"asked", "queued", "sent", "answered", "settled"}])
    BY <1>1 DEF WellTyped, CallSet, Passable
  <2>2. entries \in Seq([at : Sides, fn : Entries \cup {Own}, scope : Issued \cup {Unscoped},
                         actor : Actors \cup {NoActor}, live : BOOLEAN])
    BY <1>1 DEF WellTyped, EntrySet
  <2>3. \A w \in Workers : \A m \in ToSet(toWorker[w]) \cup ToSet(toHost[w]) :
          m \in MessageSet(Issued, Entries)
    BY <1>1, InPort
  <2> QED
    BY <1>1, <2>1, <2>2, <2>3 DEF TypeOK, WellTyped, MessageSet
<1> QED
  BY <1>1, InvHolds, PTL

\* No registry keeps what nobody may use: the entry of an argument lives only
\* while its call awaits the worker, whichever way it ends, and that of a result
\* only as long as its actor, unless the host gave up on a call of that actor
\* (Callbacks.KeptOnlyWhileNeeded).
THEOREM KeptOnlyWhileNeededHolds == Spec => []KeptOnlyWhileNeeded
<1>1. CallbacksInv => KeptOnlyWhileNeeded
  BY DEF CallbacksInv
<1> QED
  BY <1>1, InvHolds, PTL

-----------------------------------------------------------------------------
(* Invocations are served: an induction, and the strengthened invariant.   *)

\* a bounded set of numbers has a least element
LEMMA Least ==
  ASSUME NEW n \in Nat, NEW T \in SUBSET (0..n), T # {}
  PROVE  \E k \in T : \A i \in T : k <= i
<1> DEFINE U == {0..k : k \in T}
<1>1. U \in SUBSET FiniteSubsetsOf(0..n)
  <2>1. IsFiniteSet(0..n)
    BY FS_Interval
  <2>2. \A k \in T : 0..k \in SUBSET (0..n)
    OBVIOUS
  <2> QED
    BY <2>1, <2>2, FS_Subset DEF FiniteSubsetsOf
<1>2. IsWellFoundedOn(StrictSubsetOrdering(0..n), FiniteSubsetsOf(0..n))
  BY FS_StrictSubsetOrderingWellFounded
<1>3. U # {}
  OBVIOUS
<1> HIDE DEF U
<1>4. \E x \in U : \A y \in U : ~ (<<y, x>> \in StrictSubsetOrdering(0..n))
  BY <1>1, <1>2, <1>3, WFMin
<1>5. PICK k \in T : \A i \in T : ~ (<<0..i, 0..k>> \in StrictSubsetOrdering(0..n))
  BY <1>4 DEF U
<1>6. ASSUME NEW i \in T, i < k PROVE FALSE
  <2>1. 0..i \in SUBSET (0..n) /\ 0..k \in SUBSET (0..n) /\ 0..i \subseteq 0..k
    BY <1>6
  <2>2. k \in 0..k /\ k \notin 0..i
    BY <1>6
  <2> QED
    BY <1>5, <2>1, <2>2, Zenon DEF StrictSubsetOrdering
<1> QED
  BY <1>6

\* those to whom e is promised, where f says it of what e leads to
PromisedBy(f, e) ==
  {c \in Issued \cup {User} :
     \/ e = Own
     \/ LET x == entries[e] IN
        IF x.scope # Unscoped THEN x.scope = c /\ c \in running /\ calls[c].by \in f[x.fn]
        ELSE IF x.at = Host \/ x.actor # NoActor
        THEN (x.actor # NoActor => Kept(x.actor)) /\ User \in f[x.fn]
        ELSE c \in f[x.fn]}

\* The recursion ends: a stub is registered after the entry it stands for.
LEMMA PromisedIs ==
  ASSUME WellTyped, \A e \in Entries : entries[e].fn < e
  PROVE  \A e \in Entries \cup {Own} : Promised[e] = PromisedBy(Promised, e)
<1> DEFINE n == Len(entries)
           Solves(f, k) == \A e \in 0..k : f[e] = PromisedBy(f, e)
<1>1. /\ n \in Nat /\ 0..n = Entries \cup {Own}
      /\ \A e \in 1..n : entries[e].fn \in 0..n /\ entries[e].fn < e
  BY Numbers DEF EntrySet, Own
<1>2. Promised = CHOOSE f : f = [e \in 0..n |-> PromisedBy(f, e)]
  BY DEF Promised, PromisedBy
<1> HIDE DEF n
<1>3. ASSUME NEW f, NEW g, NEW k \in 0..n, \A e \in 0..n : e < k => g[e] = f[e], NEW e \in 0..k
      PROVE  PromisedBy(g, e) = PromisedBy(f, e)
  <2>1. e # 0 => entries[e].fn \in 0..n /\ entries[e].fn < k
    BY <1>1
  <2>2. e # 0 => g[entries[e].fn] = f[entries[e].fn]
    BY <1>3, <2>1
  <2> QED
    BY <2>2, Zenon DEF PromisedBy, Own
<1>4. ASSUME NEW k \in 0..n, NEW f, k # 0 => Solves(f, k - 1)
      PROVE  \E g : g = [e \in 0..n |-> g[e]] /\ Solves(g, k)
  <2> DEFINE g == [e \in 0..n |-> IF e = k THEN PromisedBy(f, e) ELSE f[e]]
  <2>1. \A e \in 0..n : g[e] = IF e = k THEN PromisedBy(f, e) ELSE f[e]
    OBVIOUS
  <2>2. g = [e \in 0..n |-> g[e]]
    OBVIOUS
  <2> HIDE DEF g
  <2>3. \A e \in 0..k : PromisedBy(g, e) = PromisedBy(f, e)
    BY <1>1, <1>3, <2>1
  <2>4. \A e \in 0..k : e # k => k # 0 /\ e \in 0..k - 1
    BY <1>1
  <2>5. Solves(g, k)
    BY <1>1, <1>4, <2>1, <2>3, <2>4
  <2> QED
    BY <2>2, <2>5
<1>5. \E f : f = [e \in 0..n |-> f[e]] /\ Solves(f, n)
  <2> DEFINE T == {k \in 0..n : ~ \E f : f = [e \in 0..n |-> f[e]] /\ Solves(f, k)}
  <2>1. ASSUME NEW k \in T, \A i \in T : k <= i PROVE FALSE
    <3>1. CASE k = 0
      BY <1>4, <2>1, <3>1
    <3>2. CASE k # 0
      <4>1. k - 1 \in 0..n /\ k - 1 \notin T
        BY <1>1, <2>1, <3>2
      <4> QED
        BY <1>4, <2>1, <4>1
    <3> QED
      BY <3>1, <3>2
  <2>2. T = {}
    BY <1>1, <2>1, Least
  <2> QED
    BY <1>1, <2>2
<1>6. PICK f : f = [e \in 0..n |-> f[e]] /\ Solves(f, n)
  BY <1>5
<1>7. f = [e \in 0..n |-> PromisedBy(f, e)]
  BY <1>6
<1>8. Promised = [e \in 0..n |-> PromisedBy(Promised, e)]
  BY <1>2, <1>7
<1> QED
  BY <1>1, <1>8

At(s) == {e \in Entries : entries[e].at = s}
Returned == {e \in Entries : entries[e].actor # NoActor}

\* what the method of p passed
Passing(p) == {e \in At(Side(p)) : entries[e].actor = NoActor}

\* What an entry stands for was there before it: on the host it is an argument
\* of its call, or, of no call, something that an actor returned; on a worker it
\* is a function of the worker or a stub of an entry of the host.
EntryOK(e) ==
  LET x == entries[e] IN
  /\ x.fn < e
  /\ x.at = Host =>
       /\ x.actor = NoActor
       /\ IF x.scope = Unscoped THEN x.fn \in Returned ELSE x.fn \in calls[x.scope].fns
  /\ x.at # Host =>
       /\ x.scope = Unscoped
       /\ x.fn \in At(Host) \cup {Own}
       /\ x.actor # NoActor => x.at = Home[x.actor]

CallOK(c) ==
  LET p == calls[c].by IN
  IF p = User THEN calls[c].fns \subseteq Returned \cup {Own}
  ELSE calls[p].kind = "call" /\ calls[c].fns \subseteq Passing(p)

HostMsgOK(m) ==
  /\ m.kind = "answer" => m.refs \subseteq Returned
  /\ m.kind = "invoke" => m.entry \in At(Host)

WorkerMsgOK(w, m) ==
  /\ m.kind \in {"call", "result"} => m.refs \subseteq At(Host)
  /\ m.kind = "result" => calls[m.call].by # User /\ Caller(m.call) = w
  /\ m.kind = "invoke" => m.entry \in At(w)

LinksOK ==
  /\ \A e \in Entries : EntryOK(e)
  /\ \A c \in Issued : CallOK(c)
  /\ held[Host] \subseteq Returned
  /\ \A w \in Workers : /\ held[w] \subseteq At(Host)
                        /\ \A m \in ToSet(toHost[w]) : HostMsgOK(m)
                        /\ \A m \in ToSet(toWorker[w]) : WorkerMsgOK(w, m)

\* what is gone was an argument of a call that ended, or its actor's destroy began
DeadOK ==
  \A e \in Entries :
    LET x == entries[e] IN
    ~x.live => IF x.scope # Unscoped THEN St(x.scope) \in Ended
               ELSE x.actor # NoActor /\ ~Kept(x.actor)

\* a method whose calls are not settled runs, or did not wait for them
AwaitedOK ==
  \A d \in Issued : calls[d].by # User /\ St(d) # "settled" => calls[d].by \in running \cup hasty

\* Closed under what an invocation of an entry by (or on behalf of) call c leads
\* to, as Promised follows it: whatever was alive when it was begun.
Closed(W) ==
  \A e \in Entries, c \in Issued \cup {User} : <<e, c>> \in W =>
    LET x == entries[e] IN
    IF x.scope # Unscoped THEN x.scope = c /\ <<x.fn, calls[c].by>> \in W
    ELSE IF x.at = Host \/ x.actor # NoActor THEN <<x.fn, User>> \in W
    ELSE <<x.fn, c>> \in W

Leads(e, c) ==
  \E W \in SUBSET ((Entries \cup {Own}) \X (Issued \cup {User})) : Closed(W) /\ <<e, c>> \in W

\* the messages of port p before its i-th, and whether one of ms is about c
Before(p, i) == {p[j] : j \in 1..i - 1}
Among(ms, kind, c) == \E m \in ms : m.kind = kind /\ m.call = c

\* An invocation of an argument of call c reaches the host before the answer of c.
DueToHost(w, e, ms) ==
  LET c == entries[e].scope IN
  /\ \E d \in Issued \cup {User} : Leads(e, d)
  /\ c # Unscoped => \/ c \in gaveUp \cup hasty
                     \/ Side(c) = w /\ St(c) = "sent" /\ ~Among(ms, "answer", c)

\* An invocation of what an actor returned reaches the worker before a destroy of
\* the actor; one of what a method passed on reaches it before the result of a
\* call which that method awaits.
DueToWorker(w, e, ms) ==
  LET x == entries[e]  c == entries[x.fn].scope IN
  /\ \E d \in Issued \cup {User} : Leads(e, d)
  /\ x.actor # NoActor =>
       /\ x.live
       /\ \A d \in OfKind("destroy") :
            calls[d].actor = x.actor => d \notin running /\ ~Among(ms, "call", d)
  /\ x.actor = NoActor /\ x.fn # Own /\ c # Unscoped =>
       /\ Side(c) = w
       /\ \E d \in Issued : calls[d].by = c /\ St(d) # "settled" /\ ~Among(ms, "result", d)

DueAtHost(w, i) ==
  LET m == toHost[w][i] IN
  m.kind = "invoke" /\ m.due => DueToHost(w, m.entry, Before(toHost[w], i))

DueAtWorker(w, i) ==
  LET m == toWorker[w][i] IN
  m.kind = "invoke" /\ m.due => DueToWorker(w, m.entry, Before(toWorker[w], i))

DueOK ==
  \A w \in Workers : /\ \A i \in DOMAIN toHost[w] : DueAtHost(w, i)
                     /\ \A i \in DOMAIN toWorker[w] : DueAtWorker(w, i)

ServedInv == LinksOK /\ DeadOK /\ AwaitedOK /\ DueOK

-----------------------------------------------------------------------------
(* What stays as it is.                                                    *)

EntriesStay ==
  /\ Entries \subseteq Entries'
  /\ \A e \in Entries :
       /\ entries'[e].at = entries[e].at /\ entries'[e].fn = entries[e].fn
       /\ entries'[e].scope = entries[e].scope /\ entries'[e].actor = entries[e].actor

CallsStay ==
  /\ CallsKept
  /\ \A c \in Issued :
       /\ calls'[c].fns = calls[c].fns
       /\ St(c) \notin {"asked", "queued"} => calls'[c].st \notin {"asked", "queued"}
       /\ St(c) = "settled" => calls'[c].st = "settled"

\* the types of an entry and of a call
LEMMA EntryIs ==
  ASSUME WellTyped, NEW e \in Entries
  PROVE  /\ entries[e].at \in Workers \cup {Host} /\ entries[e].fn \in Entries \cup {Own}
         /\ entries[e].scope \in Issued \cup {Unscoped} /\ entries[e].actor \in Actors \cup {NoActor}
         /\ entries[e].live \in BOOLEAN
BY Numbers DEF EntrySet, Sides

LEMMA CallIs ==
  ASSUME WellTyped, NEW c \in Issued
  PROVE  /\ calls[c].by \in Issued \cup {User} /\ calls[c].fns \subseteq Entries \cup {Own}
         /\ calls[c].kind \in {"call", "destroy"} /\ calls[c].actor \in Actors /\ c # User
BY Numbers DEF CallSet, Passable

\* the sets of entries only grow
LEMMA EntriesGrow ==
  ASSUME EntriesStay
  PROVE  /\ \A s : At(s) \subseteq At(s)'
         /\ Returned \subseteq Returned'
         /\ \A e \in Entries : e \in Returned' => e \in Returned
BY DEF EntriesStay, At, Returned

LEMMA PassingGrows ==
  ASSUME WellTyped, EntriesStay, CallsStay, NEW p \in Issued
  PROVE  Passing(p) \subseteq Passing(p)'
<1>1. Side(p)' = Side(p)
  BY SidesKept DEF CallsStay
<1> QED
  BY <1>1 DEF Passing, At, EntriesStay

LEMMA EntryStays ==
  ASSUME WellTyped, EntriesStay, CallsStay, NEW e \in Entries, EntryOK(e)
  PROVE  EntryOK(e)'
<1>1. /\ entries[e].at = entries'[e].at /\ entries[e].fn = entries'[e].fn
      /\ entries[e].scope = entries'[e].scope /\ entries[e].actor = entries'[e].actor
  BY DEF EntriesStay
<1>2. /\ entries[e].scope # Unscoped => calls'[entries[e].scope].fns = calls[entries[e].scope].fns
      /\ At(Host) \subseteq At(Host)' /\ Returned \subseteq Returned'
  BY EntryIs, EntriesGrow DEF CallsStay
<1> QED
  BY <1>1, <1>2 DEF EntryOK

LEMMA CallStays ==
  ASSUME WellTyped, EntriesStay, CallsStay, NEW c \in Issued, CallOK(c)
  PROVE  CallOK(c)'
<1>1. calls'[c].by = calls[c].by /\ calls'[c].fns = calls[c].fns
  BY DEF CallsStay, CallsKept
<1>2. calls[c].by # User =>
        /\ calls'[calls[c].by].kind = calls[calls[c].by].kind
        /\ Passing(calls[c].by) \subseteq Passing(calls[c].by)'
  BY CallIs, PassingGrows DEF CallsStay, CallsKept
<1>3. Returned \subseteq Returned'
  BY EntriesGrow
<1> QED
  BY <1>1, <1>2, <1>3 DEF CallOK

LEMMA MessageStays ==
  ASSUME WellTyped, EntriesStay, CallsStay, NEW m \in MessageSet(Issued, Entries), NEW w
  PROVE  /\ HostMsgOK(m) => HostMsgOK(m)'
         /\ WorkerMsgOK(w, m) => WorkerMsgOK(w, m)'
<1>1. At(w) \subseteq At(w)' /\ At(Host) \subseteq At(Host)' /\ Returned \subseteq Returned'
  BY EntriesGrow
<1>2. m.kind # "invoke" => m.call \in Issued
  BY MessageIs
<1>3. m.kind = "result" => calls'[m.call].by = calls[m.call].by /\ Caller(m.call)' = Caller(m.call)
  BY <1>2, SidesKept DEF CallsStay, CallsKept
<1> QED
  BY <1>1, <1>3 DEF HostMsgOK, WorkerMsgOK

LEMMA LeadsStays ==
  ASSUME WellTyped, WellTyped', EntriesStay, CallsStay, NEW e, NEW c, Leads(e, c)
  PROVE  Leads(e, c)'
<1>1. PICK W \in SUBSET ((Entries \cup {Own}) \X (Issued \cup {User})) : Closed(W) /\ <<e, c>> \in W
  BY DEF Leads
<1>2. W \in SUBSET ((Entries' \cup {Own}) \X (Issued' \cup {User}))
  BY DEF EntriesStay, CallsStay, CallsKept
<1>3. ASSUME NEW f \in Entries', NEW d \in Issued' \cup {User}, <<f, d>> \in W
      PROVE  LET x == entries'[f] IN
             IF x.scope # Unscoped THEN x.scope = d /\ <<x.fn, calls'[d].by>> \in W
             ELSE IF x.at = Host \/ x.actor # NoActor THEN <<x.fn, User>> \in W
             ELSE <<x.fn, d>> \in W
  <2>1. f \in Entries \cup {Own} /\ d \in Issued \cup {User}
    BY <1>1, <1>3
  <2>2. CASE f \in Entries
    <3>1. /\ entries[f].at = entries'[f].at /\ entries[f].fn = entries'[f].fn
          /\ entries[f].scope = entries'[f].scope /\ entries[f].actor = entries'[f].actor
      BY <2>2 DEF EntriesStay
    <3>2. entries[f].scope # Unscoped /\ entries[f].scope = d => calls'[d].by = calls[d].by
      BY <2>1 DEF CallsStay, CallsKept, User, Unscoped
    <3> QED
      BY <1>1, <1>3, <2>1, <2>2, <3>1, <3>2 DEF Closed
  <2>3. CASE f \notin Entries
    <3>1. f = Own
      BY <2>1, <2>3
    <3>2. Own \notin Entries'
      BY DEF WellTyped, Entries, Own
    <3> QED
      BY <1>3, <3>1, <3>2
  <2> QED
    BY <2>2, <2>3
<1> QED
  BY <1>1, <1>2, <1>3 DEF Leads, Closed

\* the i-th message of q was in p already, behind no fewer messages
Shifted(p, q, i) == \E j \in DOMAIN p : q[i] = p[j] /\ Before(q, i) \subseteq Before(p, j)

LEMMA PortMoves ==
  ASSUME NEW S, NEW p \in Seq(S), NEW q
  PROVE  /\ q = p => \A i \in DOMAIN q : Shifted(p, q, i)
         /\ p # <<>> /\ q = Tail(p) => \A i \in DOMAIN q : Shifted(p, q, i)
         /\ \A m \in S : q = Append(p, m) =>
              \A i \in DOMAIN q : Shifted(p, q, i) \/ (q[i] = m /\ Before(q, i) = ToSet(p))
<1>1. ASSUME q = p, NEW i \in DOMAIN q PROVE Shifted(p, q, i)
  BY <1>1 DEF Shifted
<1>2. ASSUME p # <<>>, q = Tail(p), NEW i \in DOMAIN q PROVE Shifted(p, q, i)
  <2>1. i \in Nat /\ i >= 1 /\ i + 1 \in DOMAIN p /\ \A j \in 1..i : q[j] = p[j + 1]
    BY <1>2
  <2>2. q[i] = p[i + 1]
    BY <2>1
  <2>3. \A j \in 1..i - 1 : q[j] = p[j + 1] /\ j + 1 \in 1..(i + 1) - 1
    <3>1. i \in Int /\ \A j \in 1..i - 1 : j \in 1..i /\ j + 1 \in 1..(i + 1) - 1
      BY <2>1
    <3> QED
      BY <2>1, <3>1
  <2>4. Before(q, i) \subseteq Before(p, i + 1)
    BY <2>3 DEF Before
  <2> QED
    BY <2>1, <2>2, <2>4 DEF Shifted
<1>3. ASSUME NEW m \in S, q = Append(p, m), NEW i \in DOMAIN q
      PROVE  Shifted(p, q, i) \/ (q[i] = m /\ Before(q, i) = ToSet(p))
  <2>1. /\ i \in Nat /\ DOMAIN p = 1..Len(p) /\ \A j \in DOMAIN p : q[j] = p[j]
        /\ i = Len(p) + 1 \/ i \in DOMAIN p
        /\ q[Len(p) + 1] = m /\ Len(p) \in Nat
    BY <1>3
  <2>2. CASE i = Len(p) + 1
    <3>1. Before(q, i) = {p[j] : j \in DOMAIN p}
      BY <2>1, <2>2 DEF Before
    <3> QED
      BY <2>1, <2>2, <3>1 DEF ToSet
  <2>3. CASE i \in DOMAIN p
    BY <2>1, <2>3 DEF Shifted, Before
  <2> QED
    BY <2>1, <2>2, <2>3
<1> QED
  BY <1>1, <1>2, <1>3

LEMMA ShiftedTwice ==
  ASSUME NEW p, NEW r, NEW q, NEW i, Shifted(r, q, i), \A j \in DOMAIN r : Shifted(p, r, j)
  PROVE  Shifted(p, q, i)
BY DEF Shifted

\* the head of a port is before all but itself
LEMMA HeadBefore ==
  ASSUME NEW S, NEW p \in Seq(S), NEW i \in DOMAIN p
  PROVE  p[i] = Head(p) \/ Head(p) \in Before(p, i)
<1>1. CASE i = 1
  BY <1>1
<1>2. CASE i # 1
  <2>1. 1 \in 1..i - 1 /\ Head(p) = p[1]
    BY <1>2
  <2> QED
    BY <2>1 DEF Before
<1> QED
  BY <1>1, <1>2

Heads(p, kind, c) == p # <<>> /\ Head(p).kind = kind /\ Head(p).call = c

-----------------------------------------------------------------------------
(* The conjuncts of ServedInv, for a step that adds to what there is.      *)

LEMMA LeadsOn ==
  ASSUME WellTyped, NEW e \in Entries, NEW c \in Issued \cup {User}, Leads(e, c)
  PROVE  LET x == entries[e] IN
         IF x.scope # Unscoped THEN x.scope = c /\ Leads(x.fn, calls[c].by)
         ELSE IF x.at = Host \/ x.actor # NoActor THEN Leads(x.fn, User)
         ELSE Leads(x.fn, c)
BY Zenon DEF Leads, Closed

\* what is promised leads on to nothing but what is promised
LEMMA PromisedLeads ==
  ASSUME WellTyped, \A e \in Entries : EntryOK(e), NEW e \in Entries,
         NEW c \in Issued \cup {User}, c \in Promised[e]
  PROVE  /\ Leads(e, c)
         /\ entries[e].scope # Unscoped => entries[e].scope = c /\ c \in running
         /\ entries[e].scope = Unscoped /\ entries[e].actor # NoActor => Kept(entries[e].actor)
<1>1. \A f \in Entries : Promised[f] = PromisedBy(Promised, f) /\ f # Own
  <2>1. \A f \in Entries : entries[f].fn < f
    BY DEF EntryOK
  <2> QED
    BY <2>1, PromisedIs, Numbers
<1> DEFINE W == {p \in (Entries \cup {Own}) \X (Issued \cup {User}) : p[2] \in Promised[p[1]]}
<1>2. ASSUME NEW f \in Entries, NEW d \in Issued \cup {User}, d \in Promised[f]
      PROVE  LET x == entries[f] IN
             IF x.scope # Unscoped THEN x.scope = d /\ d \in running /\ calls[d].by \in Promised[x.fn]
             ELSE IF x.at = Host \/ x.actor # NoActor
             THEN (x.actor # NoActor => Kept(x.actor)) /\ User \in Promised[x.fn]
             ELSE d \in Promised[x.fn]
  BY <1>1, <1>2, Zenon DEF PromisedBy
<1>3. Closed(W)
  <2> SUFFICES ASSUME NEW f \in Entries, NEW d \in Issued \cup {User}, <<f, d>> \in W
               PROVE  LET x == entries[f] IN
                      IF x.scope # Unscoped THEN x.scope = d /\ <<x.fn, calls[d].by>> \in W
                      ELSE IF x.at = Host \/ x.actor # NoActor THEN <<x.fn, User>> \in W
                      ELSE <<x.fn, d>> \in W
    BY DEF Closed
  <2>1. d \in Promised[f]
    OBVIOUS
  <2>2. entries[f].fn \in Entries \cup {Own} /\ entries[f].scope \in Issued \cup {Unscoped}
    BY EntryIs
  <2>3. d \in Issued => calls[d].by \in Issued \cup {User}
    BY CallIs
  <2> QED
    BY <1>2, <2>1, <2>2, <2>3
<1>4. <<e, c>> \in W /\ W \in SUBSET ((Entries \cup {Own}) \X (Issued \cup {User}))
  OBVIOUS
<1>5. Leads(e, c)
  BY <1>3, <1>4 DEF Leads
<1> QED
  BY <1>2, <1>5

LEMMA LinksStep ==
  ASSUME WellTyped, LinksOK, EntriesStay, CallsStay,
         \A e \in Entries' \ Entries : EntryOK(e)',
         \A c \in Issued' \ Issued : CallOK(c)',
         \A e \in held'[Host] : e \in held[Host] \/ e \in Returned',
         \A w \in Workers :
           /\ \A e \in held'[w] : e \in held[w] \/ e \in At(Host)'
           /\ \A m \in ToSet(toHost'[w]) : m \in ToSet(toHost[w]) \/ HostMsgOK(m)'
           /\ \A m \in ToSet(toWorker'[w]) : m \in ToSet(toWorker[w]) \/ WorkerMsgOK(w, m)'
  PROVE  LinksOK'
<1>1. \A e \in Entries' : EntryOK(e)'
  BY EntryStays DEF LinksOK
<1>2. \A c \in Issued' : CallOK(c)'
  BY CallStays DEF LinksOK
<1>3. held'[Host] \subseteq Returned' /\ \A w \in Workers : held'[w] \subseteq At(Host)'
  BY EntriesGrow DEF LinksOK
<1>4. ASSUME NEW w \in Workers
      PROVE  /\ \A m \in ToSet(toHost'[w]) : HostMsgOK(m)'
             /\ \A m \in ToSet(toWorker'[w]) : WorkerMsgOK(w, m)'
  <2>1. \A m \in ToSet(toHost[w]) : HostMsgOK(m)'
    BY InPort, MessageStays DEF LinksOK
  <2>2. \A m \in ToSet(toWorker[w]) : WorkerMsgOK(w, m)'
    BY InPort, MessageStays DEF LinksOK
  <2> QED
    BY <2>1, <2>2
<1> QED
  BY <1>1, <1>2, <1>3, <1>4 DEF LinksOK

LEMMA DeadStep ==
  ASSUME WellTyped, DeadOK, EntriesStay, CallsStay,
         \A e \in Entries' \ Entries : entries'[e].live,
         \A e \in Entries : entries[e].live /\ ~entries'[e].live =>
           IF entries[e].scope # Unscoped THEN calls'[entries[e].scope].st \in Ended
           ELSE entries[e].actor # NoActor /\ ~Kept(entries[e].actor)
  PROVE  DeadOK'
<1>1. ASSUME NEW a, ~Kept(a) PROVE ~Kept(a)'
  <2>1. PICK d \in OfKind("destroy") : calls[d].actor = a /\ St(d) \notin {"asked", "queued"}
    BY <1>1 DEF Kept, St
  <2>2. d \in OfKind("destroy")' /\ calls'[d].actor = a /\ calls'[d].st \notin {"asked", "queued"}
    BY <2>1 DEF OfKind, CallsStay, CallsKept
  <2> QED
    BY <2>2 DEF Kept
<1>2. ASSUME NEW e \in Entries', ~entries'[e].live, NEW a, a = entries'[e].actor
      PROVE  IF entries'[e].scope # Unscoped THEN calls'[entries'[e].scope].st \in Ended
             ELSE a # NoActor /\ ~Kept(a)'
  <2>1. e \in Entries
    BY <1>2
  <2>2. entries'[e].scope = entries[e].scope /\ a = entries[e].actor
    BY <1>2, <2>1 DEF EntriesStay
  <2>3. entries[e].scope # Unscoped /\ St(entries[e].scope) \in Ended => calls'[entries[e].scope].st \in Ended
    BY <2>1, EntryIs DEF CallsStay, CallsKept
  <2>4. entries[e].scope # Unscoped => calls'[entries[e].scope].st \in Ended
    BY <1>2, <2>1, <2>3 DEF DeadOK
  <2>5. entries[e].scope = Unscoped => a # NoActor /\ ~Kept(a)
    BY <1>2, <2>1, <2>2 DEF DeadOK
  <2> QED
    BY <1>1, <2>2, <2>4, <2>5
<1> QED
  BY <1>2, Zenon DEF DeadOK, St

-----------------------------------------------------------------------------
(* When an invocation is due stays so.                                     *)

\* A call stops waiting for its answer by it or by its timer; a bridged one settles
\* by its result; a method or close begins by its request; an actor's entries are
\* released by a close.
DueCauses ==
  /\ gaveUp \subseteq gaveUp' /\ hasty \subseteq hasty'
  /\ \A c \in Issued :
       /\ St(c) = "sent" /\ calls'[c].st # "sent" =>
            c \in gaveUp' \/ Heads(toHost[Side(c)], "answer", c)
       /\ calls[c].by # User /\ St(c) # "settled" /\ calls'[c].st = "settled" =>
            Heads(toWorker[Caller(c)], "result", c)
  /\ \A c \in running' : c \in running \/ (c \in Issued /\ Heads(toWorker[Side(c)], "call", c))
  /\ \A e \in Entries : entries[e].live /\ ~entries'[e].live /\ entries[e].actor # NoActor =>
       \E c \in running : calls[c].kind = "destroy" /\ calls[c].actor = entries[e].actor

\* an invocation that is behind the head of a port has all that it needs
LEMMA HeadAmong ==
  ASSUME NEW S, NEW p \in Seq(S), NEW i \in DOMAIN p, p[i].kind = "invoke",
         NEW kind, kind # "invoke", NEW c, Heads(p, kind, c)
  PROVE  Among(Before(p, i), kind, c)
BY HeadBefore DEF Heads, Among

LEMMA DueToHostStays ==
  ASSUME WellTyped, WellTyped', EntriesStay, CallsStay, DueCauses, NEW w \in Workers,
         NEW i \in DOMAIN toHost[w], toHost[w][i].kind = "invoke", toHost[w][i].due,
         DueAtHost(w, i), NEW ms \in SUBSET Before(toHost[w], i), NEW e, e = toHost[w][i].entry
  PROVE  DueToHost(w, e, ms)'
<1>1. DueToHost(w, e, Before(toHost[w], i))
  BY DEF DueAtHost
<1>2. e \in Entries
  <2>1. toHost[w][i] \in MessageSet(Issued, Entries)
    BY DEF WellTyped
  <2> QED
    BY <2>1, MessageIs
<1>3. PICK d \in Issued \cup {User} : Leads(e, d)
  BY <1>1 DEF DueToHost
<1>4. d \in Issued' \cup {User} /\ Leads(e, d)'
  BY <1>3, LeadsStays DEF CallsStay, CallsKept
<1>5. PICK c : c = entries[e].scope /\ c \in Issued \cup {Unscoped} /\ entries'[e].scope = c
  BY <1>2, EntryIs DEF EntriesStay
<1>6. ASSUME c # Unscoped, c \notin gaveUp', c \notin hasty'
      PROVE  Side(c)' = w /\ St(c)' = "sent" /\ ~Among(ms, "answer", c)'
  <2>1. c \in Issued /\ c \notin gaveUp /\ c \notin hasty
    BY <1>5, <1>6 DEF DueCauses
  <2>2. Side(c) = w /\ St(c) = "sent" /\ ~Among(Before(toHost[w], i), "answer", c)
    BY <1>1, <1>5, <1>6, <2>1 DEF DueToHost
  <2>3. Side(c)' = w
    BY <2>1, <2>2, SidesKept DEF CallsStay
  <2>4. toHost[w] \in Seq(MessageSet(Issued, Entries))
    BY DEF WellTyped
  <2>5. calls'[c].st = "sent"
    BY <1>6, <2>1, <2>2, <2>4, HeadAmong DEF DueCauses
  <2> QED
    BY <2>2, <2>3, <2>5 DEF St, Among
<1> QED
  BY <1>4, <1>5, <1>6 DEF DueToHost

LEMMA DueToWorkerStays ==
  ASSUME WellTyped, WellTyped', LinksOK, EntriesStay, CallsStay, DueCauses, NEW w \in Workers,
         NEW i \in DOMAIN toWorker[w], toWorker[w][i].kind = "invoke", toWorker[w][i].due,
         DueAtWorker(w, i), NEW ms \in SUBSET Before(toWorker[w], i), NEW e, e = toWorker[w][i].entry
  PROVE  DueToWorker(w, e, ms)'
<1>1. DueToWorker(w, e, Before(toWorker[w], i))
  BY DEF DueAtWorker
<1>2. toWorker[w] \in Seq(MessageSet(Issued, Entries)) /\ e \in Entries
  <2>1. toWorker[w][i] \in MessageSet(Issued, Entries) /\ toWorker[w] \in Seq(MessageSet(Issued, Entries))
    BY DEF WellTyped
  <2> QED
    BY <2>1, MessageIs
<1>3. PICK d \in Issued \cup {User} : Leads(e, d)
  BY <1>1 DEF DueToWorker
<1>4. d \in Issued' \cup {User} /\ Leads(e, d)'
  BY <1>3, LeadsStays DEF CallsStay, CallsKept
<1>5. /\ entries'[e].actor = entries[e].actor /\ entries'[e].fn = entries[e].fn
      /\ entries[e].fn \in Entries \cup {Own}
      /\ entries[e].fn # Own => entries'[entries[e].fn].scope = entries[entries[e].fn].scope
  BY <1>2, EntryIs DEF EntriesStay
<1>6. ASSUME entries[e].actor # NoActor PROVE entries'[e].live
  <2>1. entries[e].live /\ \A c \in running : ~ (calls[c].kind = "destroy" /\ calls[c].actor = entries[e].actor)
    BY <1>1, <1>6 DEF DueToWorker, OfKind, WellTyped
  <2> QED
    BY <1>2, <1>6, <2>1 DEF DueCauses
<1>7. ASSUME entries[e].actor # NoActor, NEW c \in OfKind("destroy")', calls'[c].actor = entries[e].actor
      PROVE  c \notin running' /\ ~Among(ms, "call", c)
  <2>1. CASE c \in Issued
    <3>1. c \in OfKind("destroy") /\ calls[c].actor = entries[e].actor
      BY <1>7, <2>1 DEF OfKind, CallsStay, CallsKept
    <3>2. c \notin running /\ ~Among(Before(toWorker[w], i), "call", c)
      BY <1>1, <1>7, <3>1 DEF DueToWorker
    <3>3. Side(c) = w
      <4>1. toWorker[w][i] \in ToSet(toWorker[w])
        BY DEF ToSet
      <4>2. entries[e].at = w
        BY <4>1 DEF LinksOK, WorkerMsgOK, At
      <4>3. w # Host
        BY CallbacksAssumption
      <4> QED
        BY <1>2, <1>7, <2>1, <3>1, <4>2, <4>3, SideIs DEF LinksOK, EntryOK
    <3>4. ~Heads(toWorker[Side(c)], "call", c)
      BY <1>2, <3>2, <3>3, HeadAmong
    <3> QED
      BY <3>2, <3>4 DEF DueCauses, Among
  <2>2. CASE c \notin Issued
    <3>1. \A m \in Before(toWorker[w], i) : m.kind = "call" => m.call \in Issued
      <4>1. \A j \in 1..i - 1 : toWorker[w][j] \in MessageSet(Issued, Entries)
        BY <1>2
      <4> QED
        BY <4>1, MessageIs DEF Before
    <3> QED
      BY <2>2, <3>1 DEF DueCauses, Among, WellTyped
  <2> QED
    BY <2>1, <2>2
<1>8. ASSUME entries[e].actor = NoActor, entries[e].fn # Own,
             NEW c, c = entries[entries[e].fn].scope, c # Unscoped
      PROVE  /\ Side(c)' = w
             /\ \E q \in Issued' : calls'[q].by = c /\ calls'[q].st # "settled" /\ ~Among(ms, "result", q)
  <2>1. PICK q \in Issued : calls[q].by = c /\ St(q) # "settled" /\ ~Among(Before(toWorker[w], i), "result", q)
    BY <1>1, <1>8 DEF DueToWorker
  <2>2. Side(c) = w /\ c \in Issued /\ c # User
    BY <1>1, <1>5, <1>8, EntryIs DEF DueToWorker, User, Unscoped
  <2>3. calls'[q].by = c /\ q \in Issued' /\ Side(c)' = w
    BY <2>1, <2>2, SidesKept DEF CallsStay, CallsKept
  <2>4. ~Heads(toWorker[Caller(q)], "result", q)
    BY <1>2, <2>1, <2>2, HeadAmong DEF Caller
  <2>5. calls'[q].st # "settled"
    BY <2>1, <2>2, <2>4 DEF DueCauses
  <2> QED
    BY <2>1, <2>3, <2>5 DEF Among
<1> QED
  <2>1. entries'[e].actor # NoActor =>
          /\ entries'[e].live
          /\ \A c \in OfKind("destroy")' :
               calls'[c].actor = entries'[e].actor => c \notin running' /\ ~Among(ms, "call", c)
    BY <1>5, <1>6, <1>7
  <2>2. ASSUME NEW c, c = entries'[entries'[e].fn].scope,
               entries'[e].actor = NoActor, entries'[e].fn # Own, c # Unscoped
        PROVE  /\ Side(c)' = w
               /\ \E q \in Issued' : calls'[q].by = c /\ calls'[q].st # "settled" /\ ~Among(ms, "result", q)
    BY <1>5, <1>8, <2>2
  <2> QED
    BY <1>4, <2>1, <2>2 DEF DueToWorker, St, Among

LEMMA DueStep ==
  ASSUME WellTyped, WellTyped', LinksOK, DueOK, EntriesStay, CallsStay, DueCauses,
         \A w \in Workers :
           /\ \A i \in DOMAIN toHost'[w] : Shifted(toHost[w], toHost'[w], i) \/ DueAtHost(w, i)'
           /\ \A i \in DOMAIN toWorker'[w] : Shifted(toWorker[w], toWorker'[w], i) \/ DueAtWorker(w, i)'
  PROVE  DueOK'
<1>1. ASSUME NEW w \in Workers, NEW i \in DOMAIN toHost'[w] PROVE DueAtHost(w, i)'
  <2>1. CASE Shifted(toHost[w], toHost'[w], i)
    <3>1. PICK j \in DOMAIN toHost[w] :
            toHost'[w][i] = toHost[w][j] /\ Before(toHost'[w], i) \subseteq Before(toHost[w], j)
      BY <2>1 DEF Shifted
    <3>2. SUFFICES ASSUME NEW e, e = toHost'[w][i].entry, NEW ms, ms = Before(toHost'[w], i),
                          toHost'[w][i].kind = "invoke", toHost'[w][i].due
                   PROVE  DueToHost(w, e, ms)'
      BY DEF DueAtHost, Before
    <3>3. DueAtHost(w, j)
      BY DEF DueOK
    <3> QED
      BY <3>1, <3>2, <3>3, DueToHostStays
  <2> QED
    BY <1>1, <2>1
<1>2. ASSUME NEW w \in Workers, NEW i \in DOMAIN toWorker'[w] PROVE DueAtWorker(w, i)'
  <2>1. CASE Shifted(toWorker[w], toWorker'[w], i)
    <3>1. PICK j \in DOMAIN toWorker[w] :
            toWorker'[w][i] = toWorker[w][j] /\ Before(toWorker'[w], i) \subseteq Before(toWorker[w], j)
      BY <2>1 DEF Shifted
    <3>2. SUFFICES ASSUME NEW e, e = toWorker'[w][i].entry, NEW ms, ms = Before(toWorker'[w], i),
                          toWorker'[w][i].kind = "invoke", toWorker'[w][i].due
                   PROVE  DueToWorker(w, e, ms)'
      BY DEF DueAtWorker, Before
    <3>3. DueAtWorker(w, j)
      BY DEF DueOK
    <3> QED
      BY <3>1, <3>2, <3>3, DueToWorkerStays
  <2> QED
    BY <1>2, <2>1
<1> QED
  BY <1>1, <1>2 DEF DueOK

\* ports from which at most a head was taken
LEMMA TakenShifted ==
  ASSUME NEW C, NEW E, NEW f, NEW g, Ports(f, C, E), g = f \/ \E w \in Workers : Taken(f, g, w)
  PROVE  \A v \in Workers : /\ \A i \in DOMAIN g[v] : Shifted(f[v], g[v], i)
                            /\ \A m \in ToSet(g[v]) : m \in ToSet(f[v])
<1> SUFFICES ASSUME NEW v \in Workers
             PROVE  /\ \A i \in DOMAIN g[v] : Shifted(f[v], g[v], i)
                    /\ \A m \in ToSet(g[v]) : m \in ToSet(f[v])
  OBVIOUS
<1>1. f[v] \in Seq(MessageSet(C, E))
  BY DEF Ports
<1>2. g[v] = f[v] \/ (f[v] # <<>> /\ g[v] = Tail(f[v]))
  BY DEF Ports, Taken
<1>3. f[v] # <<>> => ToSet(Tail(f[v])) \subseteq ToSet(f[v])
  BY <1>1, TailIs
<1>4. /\ g[v] = f[v] => \A i \in DOMAIN g[v] : Shifted(f[v], g[v], i)
      /\ f[v] # <<>> /\ g[v] = Tail(f[v]) => \A i \in DOMAIN g[v] : Shifted(f[v], g[v], i)
  BY <1>1, PortMoves
<1> QED
  BY <1>2, <1>3, <1>4

\* a port to which at most m was posted
LEMMA AddShifted ==
  ASSUME NEW S, NEW p \in Seq(S), NEW m \in S, NEW q, q = p \/ Appended(p, q, m)
  PROVE  /\ \A i \in DOMAIN q : Shifted(p, q, i) \/ (q[i] = m /\ Before(q, i) = ToSet(p))
         /\ \A x \in ToSet(q) : x \in ToSet(p) \/ x = m
<1>1. CASE q = p
  BY <1>1, PortMoves
<1>2. CASE Appended(p, q, m)
  <2>1. \A x : x \in ToSet(q) <=> x \in ToSet(p) \/ x = m
    BY <1>2, AddIs
  <2>2. \A i \in DOMAIN q : Shifted(p, q, i) \/ (q[i] = m /\ Before(q, i) = ToSet(p))
    BY <1>2, PortMoves DEF Appended
  <2> QED
    BY <2>1, <2>2
<1> QED
  BY <1>1, <1>2

\* m is posted to port w of f
Adds(f, g, w, m) ==
  \A v \in Workers :
    /\ \A i \in DOMAIN g[v] : \/ Shifted(f[v], g[v], i)
                              \/ v = w /\ g[v][i] = m /\ Before(g[v], i) = ToSet(f[v])
    /\ \A x \in ToSet(g[v]) : x \in ToSet(f[v]) \/ (v = w /\ x = m)

LEMMA PostedShifted ==
  ASSUME NEW C, NEW E, NEW f, NEW g, Ports(f, C, E), NEW w, NEW m \in MessageSet(C, E), Posted(f, g, w, m)
  PROVE  Adds(f, g, w, m)
<1> SUFFICES ASSUME NEW v \in Workers
             PROVE  /\ \A i \in DOMAIN g[v] : \/ Shifted(f[v], g[v], i)
                                              \/ v = w /\ g[v][i] = m /\ Before(g[v], i) = ToSet(f[v])
                    /\ \A x \in ToSet(g[v]) : x \in ToSet(f[v]) \/ (v = w /\ x = m)
  BY DEF Adds
<1>1. f[v] \in Seq(MessageSet(C, E)) /\ g[v] = IF v = w THEN Append(f[v], m) ELSE f[v]
  BY DEF Ports, Posted
<1>2. CASE v = w
  <2>1. PICK p, q : p = f[v] /\ q = g[v]
    OBVIOUS
  <2>2. p \in Seq(MessageSet(C, E)) /\ Appended(p, q, m)
    BY <1>1, <1>2, <2>1 DEF Appended
  <2>3. /\ \A i \in DOMAIN q : Shifted(p, q, i) \/ (q[i] = m /\ Before(q, i) = ToSet(p))
        /\ \A x \in ToSet(q) : x \in ToSet(p) \/ x = m
    BY <2>2, AddShifted
  <2> QED
    BY <1>2, <2>1, <2>3
<1>3. CASE v # w
  BY <1>1, <1>3 DEF Shifted
<1> QED
  BY <1>2, <1>3

\* a step that makes no call and registers nothing
LEMMA AllStay ==
  ASSUME WellTyped, UNCHANGED <<calls, entries>>
  PROVE  EntriesStay /\ CallsStay /\ Issued' = Issued /\ Entries' = Entries
<1>1. calls' = calls /\ entries' = entries /\ Issued' = Issued /\ Entries' = Entries /\ User \notin Issued
  BY Numbers DEF Issued, Entries
<1> QED
  BY <1>1 DEF EntriesStay, CallsStay, CallsKept, St

\* an entry is newer than all that was there
LEMMA Newer ==
  ASSUME WellTyped, WellTyped', Entries \subseteq Entries', NEW e \in Entries' \ Entries,
         NEW f \in Entries \cup {Own}
  PROVE  f < e
<1>1. Entries = 1..Len(entries) /\ Len(entries) \in Nat
  BY Numbers
<1>2. Entries' = 1..Len(entries') /\ Len(entries') \in Nat
  BY DEF WellTyped, Entries
<1> QED
  BY <1>1, <1>2 DEF Own

LEMMA EnqueueServed ==
  ASSUME WellTyped, WellTyped', ServedInv, NEW c, NEW call, EnqueuesNew(c, call),
         call.fns \subseteq Entries \cup {Own},
         c \notin Issued => call.by = User /\ call.fns \subseteq Returned \cup {Own},
         toHost' = toHost \/ \E w \in Workers : Taken(toHost, toHost', w),
         UNCHANGED <<running, held, gaveUp, hasty>>
  PROVE  ServedInv'
<1>0. CallsKept
  BY EnqueueKeeps
<1>1. /\ Issued' = Issued \cup {c} /\ Entries \subseteq Entries'
      /\ \A d \in Issued \ {c} : calls'[d] = calls[d]
      /\ c \in Issued => St(c) = "asked" /\ call = calls[c]
      /\ calls'[c].by = call.by /\ calls'[c].fns = call.fns /\ calls'[c].st \in {"sent", "queued"}
      /\ \A e \in Entries : entries'[e] = entries[e]
      /\ \A e \in Entries' \ Entries : New(entries'[e], Host, call.fns, c, NoActor)
  BY DEF EnqueuesNew, Enqueued
<1>2. EntriesStay /\ CallsStay
  <2>1. \A d \in Issued : d # c => calls'[d] = calls[d]
    BY <1>1
  <2>2. c \in Issued => calls'[c].fns = calls[c].fns /\ St(c) = "asked"
    BY <1>1
  <2>3. \A d \in Issued : /\ calls'[d].fns = calls[d].fns
                         /\ St(d) # "asked" => calls'[d].st = St(d)
    BY <2>1, <2>2 DEF St
  <2> QED
    BY <1>0, <1>1, <2>3 DEF EntriesStay, CallsStay
<1>3. PICK m \in MessageSet(Issued', Entries') :
        /\ m.kind = "call" /\ m.refs \subseteq Entries' \ Entries
        /\ \A w \in Workers : toWorker'[w] = toWorker[w] \/ toWorker'[w] = Append(toWorker[w], m)
  BY DEF EnqueuesNew, Enqueued
<1>4. ASSUME NEW w \in Workers
      PROVE  /\ \A i \in DOMAIN toHost'[w] : Shifted(toHost[w], toHost'[w], i)
             /\ \A x \in ToSet(toHost'[w]) : x \in ToSet(toHost[w])
             /\ \A i \in DOMAIN toWorker'[w] : Shifted(toWorker[w], toWorker'[w], i) \/ toWorker'[w][i] = m
             /\ \A x \in ToSet(toWorker'[w]) : x \in ToSet(toWorker[w]) \/ x = m
  <2>1. Ports(toHost, Issued', Entries') /\ Ports(toWorker, Issued', Entries')
    BY <1>0, <1>1, RestTyped DEF CallsKept
  <2>2. toWorker[w] \in Seq(MessageSet(Issued', Entries'))
    BY <2>1 DEF Ports
  <2>3. /\ \A i \in DOMAIN toWorker'[w] : Shifted(toWorker[w], toWorker'[w], i) \/ toWorker'[w][i] = m
        /\ \A x \in ToSet(toWorker'[w]) : x \in ToSet(toWorker[w]) \/ x = m
    BY <1>3, <2>2, AddShifted DEF Appended
  <2>5. /\ \A i \in DOMAIN toHost'[w] : Shifted(toHost[w], toHost'[w], i)
        /\ \A x \in ToSet(toHost'[w]) : x \in ToSet(toHost[w])
    BY <2>1, TakenShifted
  <2> QED
    BY <2>3, <2>5
<1>5. LinksOK'
  <2>1. ASSUME NEW e \in Entries' \ Entries PROVE EntryOK(e)'
    <3>1. New(entries'[e], Host, call.fns, c, NoActor) /\ c # Unscoped
      BY <1>1 DEF EnqueuesNew, Unscoped
    <3>2. entries'[e].fn < e
      BY <1>1, <3>1, Newer DEF New
    <3> QED
      BY <1>1, <3>1, <3>2 DEF EntryOK, New
  <2>2. ASSUME NEW d \in Issued' \ Issued PROVE CallOK(d)'
    BY <1>1, <1>2, <2>2, EntriesGrow DEF CallOK
  <2>3. \A w \in Workers : WorkerMsgOK(w, m)'
    BY <1>1, <1>3 DEF WorkerMsgOK, At, New
  <2> QED
    BY <1>2, <1>4, <2>1, <2>2, <2>3, LinksStep DEF ServedInv
<1>6. DeadOK'
  BY <1>1, <1>2, DeadStep DEF ServedInv, New
<1>7. AwaitedOK'
  <2>1. \A d \in Issued : calls'[d].by = calls[d].by /\ (calls'[d].st # "settled" => St(d) # "settled")
    BY <1>2 DEF CallsStay, CallsKept
  <2> QED
    BY <1>1, <2>1 DEF ServedInv, AwaitedOK, St
<1>8. DueOK'
  <2>1. DueCauses
    BY <1>1 DEF DueCauses, St
  <2>2. \A w \in Workers : \A i \in DOMAIN toWorker'[w] : toWorker'[w][i] = m => DueAtWorker(w, i)'
    BY <1>3 DEF DueAtWorker
  <2> QED
    BY <1>2, <1>4, <2>1, <2>2, DueStep DEF ServedInv
<1> QED
  BY <1>5, <1>6, <1>7, <1>8 DEF ServedInv

LEMMA SettleServed ==
  ASSUME WellTyped, WellTyped', CallbacksInv, ServedInv, NEW c \in Issued, NEW fs \in SUBSET Returned,
         St(c) = "sent", Settled(c, fs),
         toHost' = toHost \/ \E w \in Workers : Taken(toHost, toHost', w),
         gaveUp \subseteq gaveUp', c \in gaveUp' \/ Heads(toHost[Side(c)], "answer", c),
         UNCHANGED <<running, hasty>>
  PROVE  ServedInv'
<1>1. CallsKept
  BY SettleKeeps
<1>2. /\ Issued' = Issued /\ Entries \subseteq Entries'
      /\ \A d \in Issued :
           /\ calls'[d].by = calls[d].by /\ calls'[d].fns = calls[d].fns
           /\ d # c => calls'[d].st = IF d \in Following(c) THEN "sent" ELSE St(d)
      /\ calls'[c].st = IF calls[c].by # User THEN "answered" ELSE "settled"
      /\ held' = IF calls[c].by # User THEN held ELSE [held EXCEPT ![Host] = held[Host] \cup fs]
      /\ \A e \in Entries :
           /\ entries'[e].at = entries[e].at /\ entries'[e].fn = entries[e].fn
           /\ entries'[e].scope = entries[e].scope /\ entries'[e].actor = entries[e].actor
           /\ entries'[e].live <=> entries[e].live /\ entries[e].scope # c
  BY DEF Settled
<1>3. \A d \in Following(c) : d \in Issued /\ St(d) = "queued"
  BY DEF Following
<1>4. EntriesStay /\ CallsStay
  <2>1. EntriesStay
    BY <1>2 DEF EntriesStay
  <2> QED
    BY <1>1, <1>2, <1>3, <2>1 DEF CallsStay, St
<1>5. \A e \in Entries' \ Entries :
        /\ entries'[e].at = Host /\ entries'[e].actor = NoActor /\ entries'[e].live
        /\ \/ entries'[e].scope = Unscoped /\ entries'[e].fn \in fs
           \/ entries'[e].scope \in Issued /\ entries'[e].fn \in calls[entries'[e].scope].fns
  BY <1>3 DEF Settled, New
<1>6. ASSUME NEW w \in Workers
      PROVE  /\ \A i \in DOMAIN toHost'[w] : Shifted(toHost[w], toHost'[w], i)
             /\ \A x \in ToSet(toHost'[w]) : x \in ToSet(toHost[w])
             /\ \A i \in DOMAIN toWorker'[w] :
                  Shifted(toWorker[w], toWorker'[w], i) \/ toWorker'[w][i].kind # "invoke"
             /\ \A x \in ToSet(toWorker'[w]) : x \in ToSet(toWorker[w]) \/ WorkerMsgOK(w, x)'
  <2>1. Ports(toHost, Issued', Entries') /\ Ports(toWorker, Issued', Entries')
    BY <1>2, RestTyped
  <2>2. toWorker[w] \in Seq(MessageSet(Issued', Entries'))
    BY <2>1 DEF Ports
  <2>3. PICK r \in Seq(MessageSet(Issued', Entries')) :
          /\ \/ r = toWorker[w]
             \/ \E m \in MessageSet(Issued', Entries') :
                  /\ m.kind = "result" /\ m.call = c /\ m.refs \subseteq Entries' \ Entries
                  /\ calls[c].by # User /\ Caller(c) = w
                  /\ Appended(toWorker[w], r, m)
          /\ \/ toWorker'[w] = r
             \/ \E m \in MessageSet(Issued', Entries') :
                  /\ m.kind = "call" /\ m.refs \subseteq Entries' \ Entries
                  /\ Appended(r, toWorker'[w], m)
    BY DEF Settled, PostsOf, Appended
  <2>4. Entries' \ Entries \subseteq At(Host)'
    BY <1>5 DEF At
  <2>5. /\ \A i \in DOMAIN r : Shifted(toWorker[w], r, i) \/ r[i].kind # "invoke"
        /\ \A x \in ToSet(r) : x \in ToSet(toWorker[w]) \/ WorkerMsgOK(w, x)'
    <3>1. CASE r = toWorker[w]
      BY <3>1 DEF Shifted
    <3>2. ASSUME NEW m \in MessageSet(Issued', Entries'), m.kind = "result", m.call = c,
                 m.refs \subseteq Entries' \ Entries, calls[c].by # User, Caller(c) = w,
                 Appended(toWorker[w], r, m)
          PROVE  /\ \A i \in DOMAIN r : Shifted(toWorker[w], r, i) \/ r[i].kind # "invoke"
                 /\ \A x \in ToSet(r) : x \in ToSet(toWorker[w]) \/ WorkerMsgOK(w, x)'
      <4>1. Caller(m.call)' = w /\ calls'[m.call].by # User
        BY <1>1, <1>2, <3>2, SidesKept
      <4>2. WorkerMsgOK(w, m)'
        BY <2>4, <3>2, <4>1 DEF WorkerMsgOK
      <4> QED
        BY <2>2, <3>2, <4>2, AddShifted
    <3> QED
      BY <2>3, <3>1, <3>2
  <2>6. /\ \A i \in DOMAIN toWorker'[w] : Shifted(r, toWorker'[w], i) \/ toWorker'[w][i].kind # "invoke"
        /\ \A x \in ToSet(toWorker'[w]) : x \in ToSet(r) \/ WorkerMsgOK(w, x)'
    <3>1. CASE toWorker'[w] = r
      BY <3>1 DEF Shifted
    <3>2. ASSUME NEW m \in MessageSet(Issued', Entries'), m.kind = "call",
                 m.refs \subseteq Entries' \ Entries, Appended(r, toWorker'[w], m)
          PROVE  /\ \A i \in DOMAIN toWorker'[w] : Shifted(r, toWorker'[w], i) \/ toWorker'[w][i].kind # "invoke"
                 /\ \A x \in ToSet(toWorker'[w]) : x \in ToSet(r) \/ WorkerMsgOK(w, x)'
      <4>1. WorkerMsgOK(w, m)'
        BY <2>4, <3>2 DEF WorkerMsgOK
      <4> QED
        BY <3>2, <4>1, AddShifted
    <3> QED
      BY <2>3, <3>1, <3>2
  <2>7. \A i \in DOMAIN toWorker'[w] :
          Shifted(toWorker[w], toWorker'[w], i) \/ toWorker'[w][i].kind # "invoke"
    BY <2>5, <2>6 DEF Shifted
  <2>8. /\ \A i \in DOMAIN toHost'[w] : Shifted(toHost[w], toHost'[w], i)
        /\ \A x \in ToSet(toHost'[w]) : x \in ToSet(toHost[w])
    BY <2>1, TakenShifted
  <2> QED
    BY <2>5, <2>6, <2>7, <2>8
<1>7. LinksOK'
  <2>1. ASSUME NEW e \in Entries' \ Entries PROVE EntryOK(e)'
    <3>1. entries'[e].fn \in Entries \cup {Own}
      BY <1>5, <2>1, CallIs DEF Returned
    <3>2. entries'[e].fn < e
      BY <1>2, <3>1, Newer
    <3>3. entries'[e].scope = Unscoped => entries'[e].fn \in Returned'
      <4>1. Unscoped \notin Issued
        BY CallIs DEF User, Unscoped
      <4> QED
        BY <1>4, <1>5, <4>1, EntriesGrow
    <3>4. entries'[e].scope # Unscoped => entries'[e].fn \in calls'[entries'[e].scope].fns
      BY <1>2, <1>5
    <3> QED
      BY <1>5, <3>2, <3>3, <3>4 DEF EntryOK
  <2>2. \A e \in held'[Host] : e \in held[Host] \/ e \in Returned'
    BY <1>2, <1>4, EntriesGrow DEF WellTyped, Sides
  <2>3. \A w \in Workers : held'[w] = held[w]
    BY <1>2, CallbacksAssumption DEF WellTyped, Sides
  <2> QED
    BY <1>2, <1>4, <1>6, <2>1, <2>2, <2>3, LinksStep DEF ServedInv
<1>8. DeadOK'
  <2>1. calls'[c].st \in Ended /\ c # Unscoped
    BY <1>2, CallIs DEF Ended, User, Unscoped
  <2> QED
    BY <1>2, <1>4, <1>5, <2>1, DeadStep DEF ServedInv
<1>9. AwaitedOK'
  <2>1. \A d \in Issued : calls'[d].by = calls[d].by /\ (calls'[d].st # "settled" => St(d) # "settled")
    BY <1>4 DEF CallsStay, CallsKept
  <2> QED
    BY <1>2, <2>1 DEF ServedInv, AwaitedOK, St
<1>10. DueOK'
  <2>1. DueCauses
    <3>1. \A e \in Entries : entries[e].live /\ ~entries'[e].live => entries[e].actor = NoActor
      <4>1. c # Unscoped
        BY CallIs DEF User, Unscoped
      <4> QED
        BY <1>2, <4>1 DEF ServedInv, LinksOK, EntryOK
    <3> QED
      BY <1>2, <1>3, <3>1 DEF DueCauses, St
  <2> QED
    BY <1>4, <1>6, <2>1, DueStep DEF ServedInv, DueAtWorker
<1> QED
  BY <1>7, <1>8, <1>9, <1>10 DEF ServedInv

-----------------------------------------------------------------------------
(* Steps other than invocations keep ServedInv.                            *)

\* what the method of c can pass
LEMMA PassedByMethod ==
  ASSUME WellTyped, LinksOK, NEW c \in running, NEW fs \in Passed(Side(c))
  PROVE  fs \subseteq At(Host) \cup {Own} /\ c \in Issued /\ Side(c) \in Workers
<1>1. c \in Issued /\ Side(c) \in Workers
  BY SideIs DEF WellTyped
<1>2. held[Side(c)] \subseteq At(Host)
  BY <1>1 DEF LinksOK
<1> QED
  BY <1>1, <1>2 DEF Passed

\* what a method registers
LEMMA NewAtWorker ==
  ASSUME WellTyped, WellTyped', EntriesStay, NEW e \in Entries' \ Entries, NEW w \in Workers,
         NEW fs \in SUBSET (At(Host) \cup {Own}), NEW actor,
         New(entries'[e], w, fs, Unscoped, actor), actor # NoActor => w = Home[actor]
  PROVE  EntryOK(e)'
<1>1. entries'[e].fn \in Entries \cup {Own} /\ Entries \subseteq Entries'
  BY DEF New, At, EntriesStay
<1>2. entries'[e].fn < e
  BY <1>1, Newer
<1>3. w # Host
  BY CallbacksAssumption
<1> QED
  BY <1>2, <1>3, EntriesGrow DEF EntryOK, New

LEMMA StubCallsServed ==
  ASSUME WellTyped, WellTyped', ServedInv, NEW p \in running, NEW a \in Actors, NEW fs \in Passed(Side(p)),
         StubCalls(p, a, fs), StubCalled(p, a, fs)
  PROVE  ServedInv'
<1> DEFINE c == Len(calls) + 1
<1>1. fs \subseteq At(Host) \cup {Own} /\ p \in Issued /\ Side(p) \in Workers
  BY PassedByMethod DEF ServedInv
<1>2. /\ c \notin Issued /\ Issued' = Issued \cup {c} /\ c # 0
      /\ \A d \in Issued : calls'[d] = calls[d]
      /\ calls'[c].by = p /\ calls'[c].fns = Entries' \ Entries
      /\ Entries \subseteq Entries' /\ \A e \in Entries : entries'[e] = entries[e]
      /\ \A e \in Entries' \ Entries : New(entries'[e], Side(p), fs, Unscoped, NoActor)
  <2>1. c # 0
    BY Numbers
  <2> QED
    BY <2>1 DEF StubCalled
<1>3. PICK m \in MessageSet(Issued', Entries') : m.kind = "call" /\ Posted(toHost, toHost', Side(p), m)
  BY DEF StubCalled
<1>4. /\ calls[p].kind = "call" /\ p # User
      /\ UNCHANGED <<running, held, toWorker, gaveUp, hasty>>
  BY <1>1, CallIs DEF StubCalls
<1> HIDE DEF c
<1>5. EntriesStay /\ CallsStay
  <2>1. User \notin Issued'
    BY <1>2, Numbers DEF User
  <2> QED
    BY <1>2, <2>1 DEF EntriesStay, CallsStay, CallsKept, St
<1>6. \A v \in Workers :
        /\ \A i \in DOMAIN toHost'[v] : Shifted(toHost[v], toHost'[v], i) \/ toHost'[v][i] = m
        /\ \A x \in ToSet(toHost'[v]) : x \in ToSet(toHost[v]) \/ x = m
  <2>1. Ports(toHost, Issued', Entries')
    BY <1>2, RestTyped
  <2> QED
    BY <1>3, <2>1, PostedShifted DEF Adds
<1>7. LinksOK'
  <2>1. \A e \in Entries' \ Entries : EntryOK(e)'
    BY <1>1, <1>2, <1>5, NewAtWorker
  <2>2. ASSUME NEW d \in Issued' \ Issued PROVE CallOK(d)'
    <3>1. d = c /\ calls'[d].by = p /\ calls'[p].kind = "call" /\ p # User
      BY <1>1, <1>2, <1>4, <2>2
    <3>2. Entries' \ Entries \subseteq Passing(p)'
      <4>1. Side(p)' = Side(p)
        BY <1>1, <1>5, SidesKept DEF CallsStay
      <4> QED
        BY <1>2, <4>1 DEF Passing, At, New
    <3> QED
      BY <1>2, <3>1, <3>2 DEF CallOK
  <2>3. HostMsgOK(m)'
    BY <1>3 DEF HostMsgOK
  <2> QED
    BY <1>4, <1>5, <1>6, <2>1, <2>2, <2>3, LinksStep DEF ServedInv
<1>8. DeadOK'
  BY <1>2, <1>5, DeadStep DEF ServedInv, New
<1>9. AwaitedOK'
  BY <1>2, <1>4 DEF ServedInv, AwaitedOK, St
<1>10. DueOK'
  <2>1. DueCauses
    BY <1>2, <1>4 DEF DueCauses, St
  <2>2. \A w \in Workers : \A i \in DOMAIN toHost'[w] : toHost'[w][i] = m => DueAtHost(w, i)'
    BY <1>3 DEF DueAtHost
  <2>3. \A w \in Workers : \A i \in DOMAIN toWorker'[w] : Shifted(toWorker[w], toWorker'[w], i)
    BY <1>4 DEF Shifted
  <2> QED
    BY <1>5, <1>6, <2>1, <2>2, <2>3, DueStep DEF ServedInv
<1> QED
  BY <1>7, <1>8, <1>9, <1>10 DEF ServedInv

\* Of steps that make no call: what is left to show of one that registers nothing,
\* and of one that posts nothing or answers.
LEMMA QuietServed ==
  ASSUME WellTyped, WellTyped', ServedInv, UNCHANGED <<calls, entries, gaveUp, hasty>>,
         running \subseteq running',
         \A c \in running' : c \in running \/ (c \in Issued /\ Heads(toWorker[Side(c)], "call", c)),
         held'[Host] = held[Host], \A w \in Workers : held'[w] \subseteq held[w] \cup At(Host),
         \A w \in Workers :
           /\ \A i \in DOMAIN toHost'[w] : Shifted(toHost[w], toHost'[w], i) \/ DueAtHost(w, i)'
           /\ \A m \in ToSet(toHost'[w]) : m \in ToSet(toHost[w]) \/ HostMsgOK(m)
           /\ \A i \in DOMAIN toWorker'[w] : Shifted(toWorker[w], toWorker'[w], i) \/ DueAtWorker(w, i)'
           /\ \A m \in ToSet(toWorker'[w]) : m \in ToSet(toWorker[w]) \/ WorkerMsgOK(w, m)
  PROVE  ServedInv'
<1>1. EntriesStay /\ CallsStay /\ Issued' = Issued /\ Entries' = Entries
  BY AllStay
<1>2. calls' = calls /\ entries' = entries /\ gaveUp' = gaveUp /\ hasty' = hasty
  OBVIOUS
<1>3. LinksOK'
  <2>1. \A m : HostMsgOK(m)' <=> HostMsgOK(m)
    BY <1>1, <1>2 DEF HostMsgOK, At, Returned
  <2>2. \A w, m : WorkerMsgOK(w, m)' <=> WorkerMsgOK(w, m)
    BY <1>1, <1>2 DEF WorkerMsgOK, At, Caller, Side
  <2>3. At(Host)' = At(Host)
    BY <1>1, <1>2 DEF At
  <2> QED
    BY <1>1, <2>1, <2>2, <2>3, LinksStep DEF ServedInv
<1>4. DeadOK'
  BY <1>1, <1>2, DeadStep DEF ServedInv
<1>5. AwaitedOK'
  BY <1>1, <1>2 DEF ServedInv, AwaitedOK, St
<1>6. DueOK'
  <2>1. DueCauses
    BY <1>1, <1>2 DEF DueCauses, St
  <2> QED
    BY <1>1, <2>1, DueStep DEF ServedInv
<1> QED
  BY <1>3, <1>4, <1>5, <1>6 DEF ServedInv

\* a worker gets stubs of entries of the host
LEMMA HeldGrows ==
  ASSUME WellTyped, NEW w \in Workers, NEW refs \in SUBSET At(Host),
         held' = held \/ held' = [held EXCEPT ![w] = held[w] \cup refs]
  PROVE  held'[Host] = held[Host] /\ \A v \in Workers : held'[v] \subseteq held[v] \cup At(Host)
<1>1. /\ Host \in DOMAIN held /\ Host # w
      /\ \A v \in Workers : v \in DOMAIN held
  BY CallbacksAssumption DEF WellTyped, Sides
<1>2. CASE held' = held
  BY <1>2
<1>3. CASE held' = [held EXCEPT ![w] = held[w] \cup refs]
  <2>1. \A v \in Workers \cup {Host} : held'[v] = IF v = w THEN held[w] \cup refs ELSE held[v]
    BY <1>1, <1>3
  <2> QED
    BY <1>1, <2>1
<1> QED
  BY <1>2, <1>3

LEMMA HandleCallServed ==
  ASSUME WellTyped, WellTyped', CallbacksInv, ServedInv, NEW w \in Workers, HandleCall(w)
  PROVE  ServedInv'
<1>0. PICK c, m : m = Head(toWorker[w]) /\ c = m.call
  OBVIOUS
<1>1. /\ UNCHANGED <<calls, entries, gaveUp, hasty>>
      /\ held' = held \/ held' = [held EXCEPT ![w] = held[w] \cup m.refs]
      /\ running' = running \/ running' = running \cup {c}
  BY <1>0 DEF HandleCall
<1>2. /\ Taken(toWorker, toWorker', w) /\ c \in Issued /\ m.kind = "call"
      /\ \/ UNCHANGED toHost
         \/ \E x \in MessageSet(Issued, Entries) :
              x.kind = "answer" /\ x.refs = {} /\ Posted(toHost, toHost', w, x)
  BY <1>0, HandleCallIs
<1>3. m \in ToSet(toWorker[w]) /\ toWorker[w] # <<>>
  BY <1>0, <1>2, HeadIs DEF Taken
<1>4. Heads(toWorker[w], "call", c) /\ Side(c) = w
  BY <1>0, <1>2, <1>3 DEF Heads, CallbacksInv, PortsOK, ToWorkerOf
<1>5. m.refs \subseteq At(Host)
  BY <1>2, <1>3 DEF ServedInv, LinksOK, WorkerMsgOK
<1>6. Ports(toHost, Issued, Entries) /\ Ports(toWorker, Issued, Entries)
  BY DEF WellTyped, Ports
<1>7. ASSUME NEW v \in Workers
      PROVE  /\ \A i \in DOMAIN toHost'[v] : Shifted(toHost[v], toHost'[v], i) \/ DueAtHost(v, i)'
             /\ \A x \in ToSet(toHost'[v]) : x \in ToSet(toHost[v]) \/ HostMsgOK(x)
  <2>1. CASE UNCHANGED toHost
    BY <2>1 DEF Shifted
  <2>2. ASSUME NEW x \in MessageSet(Issued, Entries), x.kind = "answer", x.refs = {},
               Posted(toHost, toHost', w, x)
        PROVE  /\ \A i \in DOMAIN toHost'[v] : Shifted(toHost[v], toHost'[v], i) \/ DueAtHost(v, i)'
               /\ \A y \in ToSet(toHost'[v]) : y \in ToSet(toHost[v]) \/ HostMsgOK(y)
    <3>1. /\ \A i \in DOMAIN toHost'[v] : Shifted(toHost[v], toHost'[v], i) \/ toHost'[v][i] = x
          /\ \A y \in ToSet(toHost'[v]) : y \in ToSet(toHost[v]) \/ y = x
      BY <1>6, <2>2, PostedShifted DEF Adds
    <3>2. HostMsgOK(x)
      BY <2>2 DEF HostMsgOK
    <3> QED
      BY <2>2, <3>1, <3>2 DEF DueAtHost
  <2> QED
    BY <1>2, <2>1, <2>2
<1>8. \A v \in Workers :
        /\ \A i \in DOMAIN toWorker'[v] : Shifted(toWorker[v], toWorker'[v], i)
        /\ \A x \in ToSet(toWorker'[v]) : x \in ToSet(toWorker[v])
  BY <1>2, <1>6, TakenShifted
<1>9. held'[Host] = held[Host] /\ \A v \in Workers : held'[v] \subseteq held[v] \cup At(Host)
  BY <1>1, <1>5, HeldGrows
<1>10. \A d \in running' : d \in running \/ (d \in Issued /\ Heads(toWorker[Side(d)], "call", d))
  <2>1. c \in Issued /\ Heads(toWorker[Side(c)], "call", c)
    BY <1>2, <1>4
  <2> QED
    BY <1>1, <2>1
<1>11. UNCHANGED <<calls, entries, gaveUp, hasty>> /\ running \subseteq running'
  BY <1>1
<1> QED
  BY <1>11, <1>7, <1>8, <1>9, <1>10, QuietServed

LEMMA HandleResultServed ==
  ASSUME WellTyped, WellTyped', CallbacksInv, ServedInv, NEW w \in Workers, HandleResult(w)
  PROVE  ServedInv'
<1>0. PICK c, m : m = Head(toWorker[w]) /\ c = m.call
  OBVIOUS
<1>1. /\ UNCHANGED <<running, entries, toHost, gaveUp, hasty>>
      /\ held' = [held EXCEPT ![w] = held[w] \cup m.refs]
  BY <1>0 DEF HandleResult
<1>2. /\ Taken(toWorker, toWorker', w) /\ c \in Issued /\ m.kind = "result" /\ Issued' = Issued
      /\ \A d \in Issued :
           /\ calls'[d].kind = calls[d].kind /\ calls'[d].by = calls[d].by
           /\ calls'[d].actor = calls[d].actor /\ calls'[d].fns = calls[d].fns
           /\ calls'[d].st = IF d = c THEN "settled" ELSE St(d)
  BY <1>0, HandleResultIs
<1>3. m \in ToSet(toWorker[w]) /\ toWorker[w] # <<>>
  BY <1>0, <1>2, HeadIs DEF Taken
<1>4. St(c) \in Ended
  BY <1>0, <1>2, <1>3 DEF CallbacksInv, PortsOK, ToWorkerOf
<1>5. m.refs \subseteq At(Host) /\ Caller(c) = w /\ Heads(toWorker[w], "result", c)
  BY <1>0, <1>2, <1>3 DEF ServedInv, LinksOK, WorkerMsgOK, Heads
<1>6. EntriesStay /\ CallsStay
  <2>1. EntriesStay
    BY <1>1 DEF EntriesStay, Entries
  <2>2. User \notin Issued'
    BY <1>2, CallIs
  <2> QED
    BY <1>2, <1>4, <2>1, <2>2 DEF CallsStay, CallsKept, St, Ended
<1>7. \A v \in Workers :
        /\ \A i \in DOMAIN toWorker'[v] : Shifted(toWorker[v], toWorker'[v], i)
        /\ \A x \in ToSet(toWorker'[v]) : x \in ToSet(toWorker[v])
  <2>1. Ports(toWorker, Issued, Entries)
    BY DEF WellTyped, Ports
  <2> QED
    BY <1>2, <2>1, TakenShifted
<1>8. toHost' = toHost /\ Entries' = Entries /\ entries' = entries
  BY <1>1 DEF Entries
<1>9. LinksOK'
  <2>1. held'[Host] = held[Host] /\ \A v \in Workers : held'[v] \subseteq held[v] \cup At(Host)
    BY <1>1, <1>5, HeldGrows
  <2> QED
    BY <1>2, <1>6, <1>7, <1>8, <2>1, EntriesGrow, LinksStep DEF ServedInv
<1>10. DeadOK'
  BY <1>6, <1>8, DeadStep DEF ServedInv
<1>11. AwaitedOK'
  BY <1>1, <1>2 DEF ServedInv, AwaitedOK, St
<1>12. DueOK'
  <2>1. DueCauses
    BY <1>1, <1>2, <1>4, <1>5 DEF DueCauses, Ended, St
  <2>2. \A v \in Workers : \A i \in DOMAIN toHost'[v] : Shifted(toHost[v], toHost'[v], i)
    BY <1>8 DEF Shifted
  <2> QED
    BY <1>6, <1>7, <2>1, <2>2, DueStep DEF ServedInv
<1> QED
  BY <1>9, <1>10, <1>11, <1>12 DEF ServedInv

\* a method, or a close, of c answers
LEMMA AnswersServed ==
  ASSUME WellTyped, WellTyped', ServedInv, EntriesStay, NEW c \in running, Answers(c),
         UNCHANGED <<calls, held, toWorker, gaveUp>>, running' = running \ {c}, hasty \subseteq hasty',
         Entries' \ Entries \subseteq Returned', \A e \in Entries' \ Entries : EntryOK(e)',
         \A e \in Entries' \ Entries : entries'[e].live,
         \A e \in Entries : entries[e].live /\ ~entries'[e].live =>
           /\ calls[c].kind = "destroy" /\ calls[c].actor = entries[e].actor
           /\ entries[e].actor # NoActor /\ ~Kept(entries[e].actor),
         \A d \in Issued : calls[d].by = c /\ St(d) # "settled" => c \in hasty'
  PROVE  ServedInv'
<1>1. calls' = calls /\ Issued' = Issued /\ held' = held /\ toWorker' = toWorker /\ gaveUp' = gaveUp
  BY DEF Issued
<1>2. CallsStay
  BY <1>1, CallIs DEF CallsStay, CallsKept, St
<1>3. PICK m \in MessageSet(Issued', Entries') :
        m.kind = "answer" /\ m.refs \subseteq Entries' \ Entries /\ Posted(toHost, toHost', Side(c), m)
  BY DEF Answers
<1>4. \A v \in Workers :
        /\ \A i \in DOMAIN toHost'[v] : Shifted(toHost[v], toHost'[v], i) \/ toHost'[v][i] = m
        /\ \A x \in ToSet(toHost'[v]) : x \in ToSet(toHost[v]) \/ x = m
  <2>1. Ports(toHost, Issued', Entries')
    BY <1>1, RestTyped DEF EntriesStay
  <2> QED
    BY <1>3, <2>1, PostedShifted DEF Adds
<1>5. LinksOK'
  <2>1. HostMsgOK(m)'
    BY <1>3 DEF HostMsgOK
  <2> QED
    BY <1>1, <1>2, <1>4, <2>1, LinksStep DEF ServedInv
<1>6. DeadOK'
  <2>1. \A e \in Entries : entries[e].actor # NoActor => entries[e].scope = Unscoped
    BY DEF ServedInv, LinksOK, EntryOK
  <2> QED
    BY <1>2, <2>1, DeadStep DEF ServedInv
<1>7. AwaitedOK'
  BY <1>1 DEF ServedInv, AwaitedOK, St
<1>8. DueOK'
  <2>1. DueCauses
    BY <1>1 DEF DueCauses, St
  <2>2. \A w \in Workers : \A i \in DOMAIN toHost'[w] : toHost'[w][i] = m => DueAtHost(w, i)'
    BY <1>3 DEF DueAtHost
  <2>3. \A w \in Workers : \A i \in DOMAIN toWorker'[w] : Shifted(toWorker[w], toWorker'[w], i)
    BY <1>1 DEF Shifted
  <2> QED
    BY <1>2, <1>4, <2>1, <2>2, <2>3, DueStep DEF ServedInv
<1> QED
  BY <1>5, <1>6, <1>7, <1>8 DEF ServedInv

LEMMA MethodReturnsServed ==
  ASSUME WellTyped, WellTyped', ServedInv, NEW c \in running, NEW fs \in Passed(Side(c)), MethodReturns(c, fs)
  PROVE  ServedInv'
<1>1. fs \subseteq At(Host) \cup {Own} /\ c \in Issued /\ Side(c) \in Workers
  BY PassedByMethod DEF ServedInv
<1>2. /\ Answers(c) /\ Entries \subseteq Entries' /\ \A e \in Entries : entries'[e] = entries[e]
      /\ \A e \in Entries' \ Entries : New(entries'[e], Side(c), fs, Unscoped, calls[c].actor)
  BY MethodReturnsIs
<1>3. /\ UNCHANGED <<calls, held, toWorker, gaveUp>> /\ running' = running \ {c}
      /\ hasty' = IF \E d \in Issued : calls[d].by = c /\ St(d) # "settled" THEN hasty \cup {c} ELSE hasty
  BY DEF MethodReturns, St
<1>4. EntriesStay
  BY <1>2 DEF EntriesStay
<1>5. Side(c) = Home[calls[c].actor] /\ calls[c].actor # NoActor
  BY <1>1, SideIs, CallbacksAssumption
<1>6. \A e \in Entries' \ Entries : EntryOK(e)'
  BY <1>1, <1>2, <1>4, <1>5, NewAtWorker
<1>7. Entries' \ Entries \subseteq Returned' /\ \A e \in Entries' \ Entries : entries'[e].live
  BY <1>2, <1>5 DEF Returned, New
<1>8. \A d \in Issued : calls[d].by = c /\ St(d) # "settled" => c \in hasty'
  BY <1>3
<1> QED
  BY <1>2, <1>3, <1>4, <1>6, <1>7, <1>8, AnswersServed

LEMMA CloseReturnsServed ==
  ASSUME WellTyped, WellTyped', CallbacksInv, ServedInv, NEW c \in running, CloseReturns(c)
  PROVE  ServedInv'
<1>1. c \in Issued /\ calls[c].actor # NoActor
  BY SideIs, CallbacksAssumption DEF WellTyped
<1>2. /\ Answers(c) /\ Entries' = Entries
      /\ \A e \in Entries :
           /\ entries'[e].at = entries[e].at /\ entries'[e].fn = entries[e].fn
           /\ entries'[e].scope = entries[e].scope /\ entries'[e].actor = entries[e].actor
           /\ entries'[e].live <=> entries[e].live /\ entries[e].actor # calls[c].actor
  BY CloseReturnsIs
<1>3. UNCHANGED <<calls, held, toWorker, gaveUp, hasty>> /\ running' = running \ {c} /\ calls[c].kind = "destroy"
  BY DEF CloseReturns
<1>4. EntriesStay
  BY <1>2 DEF EntriesStay
<1>5. ~Kept(calls[c].actor)
  <2>1. St(c) \in {"sent"} \cup Ended
    BY <1>1 DEF CallbacksInv, PlacesOK, PlaceOK
  <2> QED
    BY <1>1, <1>3, <2>1 DEF Kept, OfKind, St, Ended
<1>6. \A d \in Issued : calls[d].by # c
  BY <1>1, <1>3, CallIs DEF ServedInv, LinksOK, CallOK
<1> QED
  BY <1>1, <1>2, <1>3, <1>4, <1>5, <1>6, AnswersServed

-----------------------------------------------------------------------------
(* Invocations.                                                            *)

\* what a message needs does not depend on the ports
LEMMA DueSame ==
  ASSUME UNCHANGED <<calls, running, entries, gaveUp, hasty>>, NEW w, NEW e, NEW ms
  PROVE  /\ DueToHost(w, e, ms) => DueToHost(w, e, ms)'
         /\ DueToWorker(w, e, ms) => DueToWorker(w, e, ms)'
<1>1. calls' = calls /\ running' = running /\ entries' = entries /\ gaveUp' = gaveUp /\ hasty' = hasty
      /\ Issued' = Issued /\ Entries' = Entries
  BY DEF Issued, Entries
<1>2. \A d : Leads(e, d)' <=> Leads(e, d)
  BY <1>1 DEF Leads, Closed
<1>3. /\ \A d : Side(d)' = Side(d) /\ St(d)' = St(d)
      /\ OfKind("destroy")' = OfKind("destroy")
      /\ \A kind, d : Among(ms, kind, d)' <=> Among(ms, kind, d)
  BY <1>1 DEF Side, St, OfKind, Among
<1> QED
  BY <1>1, <1>2, <1>3 DEF DueToHost, DueToWorker

LEMMA ForwardServed ==
  ASSUME WellTyped, WellTyped', ServedInv, UNCHANGED <<calls, running, entries, held, gaveUp, hasty>>,
         NEW s \in Sides, NEW e \in Entries, NEW due \in BOOLEAN, NEW up, NEW down,
         Forward(s, e, due, up, down),
         up = toHost \/ \E w \in Workers : Taken(toHost, up, w),
         down = toWorker \/ \E w \in Workers : Taken(toWorker, down, w),
         IF s = Host
         THEN /\ down = toWorker /\ entries[e].at \in Workers
              /\ due => DueToWorker(entries[e].at, e, ToSet(toWorker[entries[e].at]))
         ELSE up = toHost /\ e \in At(Host) /\ (due => DueToHost(s, e, ToSet(toHost[s])))
  PROVE  ServedInv'
<1> DEFINE m == Invoke(e, due)
<1>1. m \in MessageSet(Issued, Entries) /\ m.kind = "invoke" /\ m.entry = e /\ m.due = due
  BY DEF Invoke, MessageSet
<1>2. IF s = Host THEN toHost' = up /\ Posted(toWorker, toWorker', entries[e].at, m)
      ELSE toWorker' = down /\ Posted(toHost, toHost', s, m)
  BY DEF Forward, Posted
<1> HIDE DEF m
<1>3. Ports(toHost, Issued, Entries) /\ Ports(toWorker, Issued, Entries)
  BY DEF WellTyped, Ports
<1>4. ASSUME NEW v \in Workers
      PROVE  /\ \A i \in DOMAIN toHost'[v] : Shifted(toHost[v], toHost'[v], i) \/ DueAtHost(v, i)'
             /\ \A x \in ToSet(toHost'[v]) : x \in ToSet(toHost[v]) \/ HostMsgOK(x)
  <2>1. CASE s = Host
    BY <1>2, <1>3, <2>1, TakenShifted
  <2>2. CASE s # Host
    <3>1. /\ \A i \in DOMAIN toHost'[v] :
               \/ Shifted(toHost[v], toHost'[v], i)
               \/ v = s /\ toHost'[v][i] = m /\ Before(toHost'[v], i) = ToSet(toHost[v])
          /\ \A x \in ToSet(toHost'[v]) : x \in ToSet(toHost[v]) \/ (v = s /\ x = m)
      <4>1. Posted(toHost, toHost', s, m)
        BY <1>2, <2>2
      <4>2. Adds(toHost, toHost', s, m)
        BY <1>1, <1>3, <4>1, PostedShifted
      <4> QED
        BY <4>2 DEF Adds
    <3>2. HostMsgOK(m)
      BY <1>1, <2>2 DEF HostMsgOK
    <3>3. due => DueToHost(s, e, ToSet(toHost[s]))
      BY <2>2
    <3>4. ASSUME NEW i \in DOMAIN toHost'[v], v = s, toHost'[v][i] = m,
                 NEW ms, ms = Before(toHost'[v], i), ms = ToSet(toHost[v])
          PROVE  DueAtHost(v, i)'
      <4>1. due => DueToHost(v, e, ms)'
        BY <3>3, <3>4, DueSame
      <4> QED
        BY <1>1, <3>4, <4>1 DEF DueAtHost, Before
    <3> QED
      BY <3>1, <3>2, <3>4
  <2> QED
    BY <2>1, <2>2
<1>5. ASSUME NEW v \in Workers
      PROVE  /\ \A i \in DOMAIN toWorker'[v] : Shifted(toWorker[v], toWorker'[v], i) \/ DueAtWorker(v, i)'
             /\ \A x \in ToSet(toWorker'[v]) : x \in ToSet(toWorker[v]) \/ WorkerMsgOK(v, x)
  <2>1. CASE s # Host
    BY <1>2, <1>3, <2>1, TakenShifted
  <2>2. CASE s = Host
    <3>1. /\ \A i \in DOMAIN toWorker'[v] :
               \/ Shifted(toWorker[v], toWorker'[v], i)
               \/ v = entries[e].at /\ toWorker'[v][i] = m /\ Before(toWorker'[v], i) = ToSet(toWorker[v])
          /\ \A x \in ToSet(toWorker'[v]) : x \in ToSet(toWorker[v]) \/ (v = entries[e].at /\ x = m)
      <4>1. Posted(toWorker, toWorker', entries[e].at, m)
        BY <1>2, <2>2
      <4> QED
        BY <1>1, <1>3, <4>1, PostedShifted DEF Adds
    <3>2. WorkerMsgOK(entries[e].at, m)
      BY <1>1 DEF WorkerMsgOK, At
    <3>3. due => DueToWorker(entries[e].at, e, ToSet(toWorker[entries[e].at]))
      BY <2>2
    <3>4. ASSUME NEW i \in DOMAIN toWorker'[v], v = entries[e].at, toWorker'[v][i] = m,
                 NEW ms, ms = Before(toWorker'[v], i), ms = ToSet(toWorker[v])
          PROVE  DueAtWorker(v, i)'
      <4>1. due => DueToWorker(v, e, ms)'
        BY <3>3, <3>4, DueSame
      <4> QED
        BY <1>1, <3>4, <4>1 DEF DueAtWorker, Before
    <3> QED
      BY <3>1, <3>2, <3>4
  <2> QED
    BY <2>1, <2>2
<1>6. /\ UNCHANGED <<calls, entries, gaveUp, hasty>> /\ running \subseteq running'
      /\ \A c \in running' : c \in running
      /\ held'[Host] = held[Host] /\ \A w \in Workers : held'[w] \subseteq held[w] \cup At(Host)
  OBVIOUS
<1> QED
  BY <1>4, <1>5, <1>6, QuietServed

\* What an invocation needs where it is posted, given why it was promised or what
\* it was needed for before.
LEMMA PostsToWorker ==
  ASSUME WellTyped, CallbacksInv, ServedInv, NEW e \in Entries, NEW w \in Workers, entries[e].at = w,
         NEW d \in Issued \cup {User}, Leads(e, d),
         entries[e].actor # NoActor => Kept(entries[e].actor),
         entries[e].actor = NoActor /\ entries[e].fn # Own /\ entries[entries[e].fn].scope # Unscoped =>
           LET c == entries[entries[e].fn].scope IN
           Side(c) = w /\ \E q \in Issued : calls[q].by = c /\ St(q) = "sent"
  PROVE  DueToWorker(w, e, ToSet(toWorker[w]))
<1>1. \A m \in ToSet(toWorker[w]) : ToWorkerOf(w, m)
  BY DEF CallbacksInv, PortsOK
<1>2. \A q \in Issued : St(q) = "sent" => ~Among(ToSet(toWorker[w]), "result", q)
  BY <1>1 DEF Among, ToWorkerOf, Ended
<1>3. ASSUME entries[e].actor # NoActor
      PROVE  /\ entries[e].live
             /\ \A q \in OfKind("destroy") :
                  calls[q].actor = entries[e].actor => q \notin running /\ ~Among(ToSet(toWorker[w]), "call", q)
  <2>1. entries[e].live
    <3>1. w # Host
      BY CallbacksAssumption
    <3> QED
      BY <1>3, <3>1 DEF ServedInv, DeadOK, LinksOK, EntryOK
  <2>2. ASSUME NEW q \in OfKind("destroy"), calls[q].actor = entries[e].actor
        PROVE  q \notin running /\ ~Among(ToSet(toWorker[w]), "call", q)
    <3>1. St(q) \in {"asked", "queued"} /\ q \in Issued
      BY <1>3, <2>2 DEF Kept, St, OfKind
    <3>2. ~Requested(q) /\ q \notin running
      BY <3>1 DEF CallbacksInv, PlacesOK, PlaceOK, Ended
    <3>3. Among(ToSet(toWorker[w]), "call", q) => Requested(q)
      BY <1>1 DEF Among, ToWorkerOf, Requested, Has
    <3> QED
      BY <3>2, <3>3
  <2> QED
    BY <2>1, <2>2
<1>4. Leads(e, d)
  OBVIOUS
<1> QED
  BY <1>2, <1>3, <1>4 DEF DueToWorker

LEMMA PostsToHost ==
  ASSUME WellTyped, CallbacksInv, ServedInv, NEW e \in Entries, NEW w \in Workers,
         NEW d \in Issued \cup {User}, Leads(e, d),
         entries[e].scope # Unscoped => /\ Side(entries[e].scope) = w
                                        /\ entries[e].scope \in running \cup hasty
  PROVE  DueToHost(w, e, ToSet(toHost[w]))
<1>1. ASSUME entries[e].scope \in running, Side(entries[e].scope) = w, entries[e].scope \notin gaveUp
      PROVE  St(entries[e].scope) = "sent" /\ ~Among(ToSet(toHost[w]), "answer", entries[e].scope)
  <2>1. PlaceOK(entries[e].scope)
    BY <1>1 DEF CallbacksInv, PlacesOK, WellTyped
  <2>2. St(entries[e].scope) = "sent" /\ ~Answered(entries[e].scope)
    BY <1>1, <2>1 DEF PlaceOK
  <2> QED
    BY <1>1, <2>2 DEF Answered, Has, Among
<1> QED
  BY <1>1 DEF DueToHost

LEMMA InvokesServedStep ==
  ASSUME WellTyped, WellTyped', CallbacksInv, ServedInv, NEW c \in running \cup {User}, NEW e \in held[Side(c)],
         Invokes(c, e)
  PROVE  ServedInv'
<1>1. PICK due \in BOOLEAN : (due <=> c \in Promised[e]) /\ Forward(Side(c), e, due, toHost, toWorker)
  <2>1. Forward(Side(c), e, c \in Promised[e], toHost, toWorker) /\ (c \in Promised[e]) \in BOOLEAN
    BY DEF Invokes
  <2> QED
    BY <2>1, Zenon
<1>2. UNCHANGED <<calls, running, entries, held, gaveUp, hasty>>
  BY DEF Invokes
<1>3. /\ c \in Issued \cup {User} /\ Side(c) \in Sides /\ (c = User => Side(c) = Host)
      /\ c # User => c \in Issued /\ Side(c) \in Workers /\ Side(c) # Host
  <2>1. c = User => Side(c) = Host
    BY DEF Side
  <2> QED
    BY <2>1, SideIs, CallbacksAssumption DEF WellTyped, Sides
<1>4. e \in Entries
  BY <1>3 DEF WellTyped
<1>5. \A f \in Entries : EntryOK(f)
  BY DEF ServedInv, LinksOK
<1>6. due => /\ Leads(e, c)
             /\ entries[e].scope # Unscoped => entries[e].scope = c /\ c \in running
             /\ entries[e].scope = Unscoped /\ entries[e].actor # NoActor => Kept(entries[e].actor)
  BY <1>1, <1>3, <1>4, <1>5, PromisedLeads
<1>7. CASE c = User
  <2>1. entries[e].actor # NoActor /\ entries[e].at \in Workers /\ entries[e].scope = Unscoped
    BY <1>3, <1>4, <1>5, <1>7, EntryIs DEF ServedInv, LinksOK, Returned, EntryOK
  <2>2. due => DueToWorker(entries[e].at, e, ToSet(toWorker[entries[e].at]))
    BY <1>3, <1>4, <1>6, <2>1, PostsToWorker
  <2> QED
    BY <1>1, <1>2, <1>3, <1>4, <1>7, <2>1, <2>2, ForwardServed
<1>8. CASE c # User
  <2>1. e \in At(Host)
    BY <1>3, <1>8 DEF ServedInv, LinksOK
  <2>2. due => DueToHost(Side(c), e, ToSet(toHost[Side(c)]))
    BY <1>3, <1>4, <1>6, <1>8, PostsToHost
  <2> QED
    BY <1>1, <1>2, <1>3, <1>4, <1>8, <2>1, <2>2, ForwardServed
<1> QED
  BY <1>7, <1>8

\* where an entry of the host leads
LEMMA FromHost ==
  ASSUME WellTyped, LinksOK, NEW e \in At(Host), NEW f \in Entries, f = entries[e].fn
  PROVE  /\ entries[f].at \in Workers /\ entries[f].scope = Unscoped
         /\ entries[f].actor = NoActor =>
              LET c == entries[e].scope IN
              c \in Issued /\ calls[c].by \in Issued /\ entries[f].at = Side(calls[c].by)
<1>1. e \in Entries /\ EntryOK(e) /\ EntryOK(f) /\ f # Own
  BY Numbers DEF LinksOK, At
<1>2. CASE f \in Returned
  <2>1. entries[f].actor # NoActor
    BY <1>2 DEF Returned
  <2> QED
    BY <1>1, <2>1, EntryIs DEF EntryOK
<1>3. CASE f \notin Returned
  <2>1. PICK c \in Issued : c = entries[e].scope /\ f \in calls[c].fns
    BY <1>1, <1>3, EntryIs DEF EntryOK, At
  <2>2. calls[c].by \in Issued /\ f \in Passing(calls[c].by)
    BY <1>1, <1>3, <2>1, CallIs DEF LinksOK, CallOK
  <2>3. entries[f].at = Side(calls[c].by) /\ Side(calls[c].by) \in Workers
    BY <2>2, SideIs DEF Passing, At
  <2>4. entries[f].at # Host
    BY <2>3, CallbacksAssumption
  <2> QED
    BY <1>1, <2>1, <2>2, <2>3, <2>4 DEF EntryOK
<1> QED
  BY <1>2, <1>3

LEMMA BridgeInvokeServed ==
  ASSUME WellTyped, WellTyped', CallbacksInv, ServedInv, NEW w \in Workers, HandleBridgeCallbackInvoke(w)
  PROVE  ServedInv'
<1>0. PICK m, up, e, f : /\ m = Head(toHost[w]) /\ up = [toHost EXCEPT ![w] = Tail(toHost[w])]
                         /\ e = m.entry /\ f = entries[e].fn
  OBVIOUS
<1>1. /\ Taken(toHost, up, w) /\ m.kind = "invoke" /\ toHost[w] # <<>>
      /\ IF entries[e].live /\ f # Own
         THEN Forward(Host, f, m.due /\ (entries[f].actor # NoActor => Kept(entries[f].actor)), up, toWorker)
         ELSE toHost' = up /\ toWorker' = toWorker
      /\ UNCHANGED <<calls, mailboxes, running, objects, entries, held, invokes, gaveUp, hasty>>
  BY <1>0 DEF HandleBridgeCallbackInvoke, HandleInvoke, Taken
<1>2. m \in MessageSet(Issued, Entries) /\ m \in ToSet(toHost[w])
  BY <1>0, <1>1, HeadIs
<1>3. e \in At(Host) /\ e \in Entries /\ m.due \in BOOLEAN /\ f \in Entries \cup {Own}
  BY <1>0, <1>1, <1>2, MessageIs, EntryIs DEF ServedInv, LinksOK, HostMsgOK
<1>4. m.due => \E d \in Issued \cup {User} : Leads(e, d)
  <2>1. 1 \in DOMAIN toHost[w] /\ toHost[w][1] = m
    BY <1>0, <1>1 DEF WellTyped
  <2>2. DueAtHost(w, 1)
    BY <2>1 DEF ServedInv, DueOK
  <2> QED
    BY <1>0, <1>1, <2>1, <2>2 DEF DueAtHost, DueToHost
<1>5. CASE ~(entries[e].live /\ f # Own)
  <2>1. Ports(toHost, Issued, Entries)
    BY DEF WellTyped, Ports
  <2>2. toHost' = up /\ toWorker' = toWorker
    BY <1>1, <1>5
  <2>3. \A v \in Workers : /\ \A i \in DOMAIN toHost'[v] : Shifted(toHost[v], toHost'[v], i)
                           /\ \A x \in ToSet(toHost'[v]) : x \in ToSet(toHost[v])
    BY <1>1, <2>1, <2>2, TakenShifted
  <2>4. \A v \in Workers : \A i \in DOMAIN toWorker'[v] : Shifted(toWorker[v], toWorker'[v], i)
    BY <2>2 DEF Shifted
  <2> QED
    BY <1>1, <2>2, <2>3, <2>4, QuietServed
<1>6. CASE entries[e].live /\ f # Own
  <2>1. PICK due \in BOOLEAN : /\ Forward(Host, f, due, up, toWorker)
                               /\ due => m.due /\ (entries[f].actor # NoActor => Kept(entries[f].actor))
    BY <1>1, <1>6, Zenon
  <2>2. /\ f \in Entries /\ entries[f].at \in Workers /\ entries[f].scope = Unscoped
        /\ entries[f].actor = NoActor =>
             LET c == entries[e].scope IN
             c \in Issued /\ calls[c].by \in Issued /\ entries[f].at = Side(calls[c].by)
    BY <1>0, <1>3, <1>6, FromHost DEF ServedInv
  <2>3. ASSUME due PROVE DueToWorker(entries[f].at, f, ToSet(toWorker[entries[f].at]))
    <3>1. PICK d \in Issued \cup {User} : Leads(e, d)
      BY <1>4, <2>1, <2>3
    <3>2. PICK p \in Issued \cup {User} :
            Leads(f, p) /\ (entries[e].scope # Unscoped => entries[e].scope = d /\ p = calls[d].by)
      <4>1. CASE entries[e].scope # Unscoped
        <5>1. entries[e].scope = d /\ Leads(f, calls[d].by) /\ d \in Issued
          BY <1>0, <1>3, <3>1, <4>1, LeadsOn, EntryIs DEF User, Unscoped
        <5> QED
          BY <5>1, CallIs
      <4>2. CASE entries[e].scope = Unscoped
        <5>1. Leads(f, User)
          BY <1>0, <1>3, <3>1, <4>2, LeadsOn DEF At
        <5> QED
          BY <4>2, <5>1
      <4> QED
        BY <4>1, <4>2
    <3>3. ASSUME entries[f].actor = NoActor, NEW g \in Entries, g = entries[f].fn, entries[g].scope # Unscoped
          PROVE  /\ Side(entries[g].scope) = entries[f].at
                 /\ \E q \in Issued : calls[q].by = entries[g].scope /\ St(q) = "sent"
      <4>1. /\ d \in Issued /\ d = entries[e].scope /\ p = calls[d].by /\ p # User /\ d # Unscoped
            /\ entries[f].at = Side(p)
        BY <2>2, <3>2, <3>3, CallIs DEF User, Unscoped
      <4>2. entries[f].at # Host
        BY <2>2, CallbacksAssumption
      <4>3. Leads(g, p)
        BY <2>2, <3>2, <3>3, <4>2, LeadsOn
      <4>4. entries[g].scope = p
        BY <3>2, <3>3, <4>3, LeadsOn
      <4>5. St(d) = "sent"
        BY <1>3, <1>6, <4>1 DEF CallbacksInv, KeptOnlyWhileNeeded, St
      <4> QED
        BY <4>1, <4>4, <4>5
    <3>4. entries[f].fn # Own => entries[f].fn \in Entries
      BY <2>2, EntryIs
    <3> QED
      BY <2>1, <2>2, <2>3, <3>2, <3>3, <3>4, PostsToWorker
  <2>4. Host \in Sides
    BY DEF Sides
  <2> QED
    BY <1>1, <2>1, <2>2, <2>3, <2>4, ForwardServed
<1> QED
  BY <1>5, <1>6

LEMMA CallbackInvokeServed ==
  ASSUME WellTyped, WellTyped', CallbacksInv, ServedInv, NEW w \in Workers, HandleCallbackInvoke(w)
  PROVE  ServedInv'
<1>0. PICK m, down, e, f : /\ m = Head(toWorker[w]) /\ down = [toWorker EXCEPT ![w] = Tail(toWorker[w])]
                           /\ e = m.entry /\ f = entries[e].fn
  OBVIOUS
<1>1. /\ Taken(toWorker, down, w) /\ m.kind = "invoke" /\ toWorker[w] # <<>>
      /\ IF entries[e].live /\ f # Own
         THEN Forward(w, f, m.due /\ (entries[f].actor # NoActor => Kept(entries[f].actor)), toHost, down)
         ELSE toHost' = toHost /\ toWorker' = down
      /\ UNCHANGED <<calls, mailboxes, running, objects, entries, held, invokes, gaveUp, hasty>>
  BY <1>0 DEF HandleCallbackInvoke, HandleInvoke, Taken
<1>2. m \in MessageSet(Issued, Entries) /\ m \in ToSet(toWorker[w])
  BY <1>0, <1>1, HeadIs
<1>3. /\ e \in At(w) /\ e \in Entries /\ m.due \in BOOLEAN /\ w # Host
      /\ entries[e].at = w /\ entries[e].scope = Unscoped /\ f \in At(Host) \cup {Own}
  <2>1. e \in At(w) /\ m.due \in BOOLEAN
    BY <1>0, <1>1, <1>2, MessageIs DEF ServedInv, LinksOK, WorkerMsgOK
  <2>2. e \in Entries /\ w # Host /\ entries[e].at = w
    BY <2>1, CallbacksAssumption DEF At
  <2> QED
    BY <1>0, <2>1, <2>2 DEF ServedInv, LinksOK, EntryOK
<1>4. m.due => \E ms : DueToWorker(w, e, ms)
  <2>1. 1 \in DOMAIN toWorker[w] /\ toWorker[w][1] = m
    BY <1>0, <1>1 DEF WellTyped
  <2>2. DueAtWorker(w, 1)
    BY <2>1 DEF ServedInv, DueOK
  <2> QED
    BY <1>0, <1>1, <2>1, <2>2 DEF DueAtWorker
<1>5. CASE ~(entries[e].live /\ f # Own)
  <2>1. Ports(toWorker, Issued, Entries)
    BY DEF WellTyped, Ports
  <2>2. toHost' = toHost /\ toWorker' = down
    BY <1>1, <1>5
  <2>3. \A v \in Workers : /\ \A i \in DOMAIN toWorker'[v] : Shifted(toWorker[v], toWorker'[v], i)
                           /\ \A x \in ToSet(toWorker'[v]) : x \in ToSet(toWorker[v])
    BY <1>1, <2>1, <2>2, TakenShifted
  <2>4. \A v \in Workers : \A i \in DOMAIN toHost'[v] : Shifted(toHost[v], toHost'[v], i)
    BY <2>2 DEF Shifted
  <2> QED
    BY <1>1, <2>2, <2>3, <2>4, QuietServed
<1>6. CASE entries[e].live /\ f # Own
  <2>1. PICK due \in BOOLEAN : Forward(w, f, due, toHost, down) /\ (due => m.due)
    BY <1>1, <1>6, Zenon
  <2>2. f \in At(Host) /\ f \in Entries
    BY <1>3, <1>6 DEF At
  <2>3. ASSUME due PROVE DueToHost(w, f, ToSet(toHost[w]))
    <3>1. PICK ms : DueToWorker(w, e, ms)
      BY <1>4, <2>1, <2>3
    <3>2. PICK d \in Issued \cup {User} : Leads(e, d)
      BY <3>1 DEF DueToWorker
    <3>3. IF entries[e].actor # NoActor THEN Leads(f, User) ELSE Leads(f, d)
      BY <1>0, <1>3, <3>2, LeadsOn
    <3>4. PICK p \in Issued \cup {User} : Leads(f, p) /\ (entries[e].actor # NoActor => p = User)
      BY <3>3
    <3>5. ASSUME entries[f].scope # Unscoped
          PROVE  Side(entries[f].scope) = w /\ entries[f].scope \in running \cup hasty
      <4>1. entries[f].scope = p /\ p # User /\ p \in Issued
        BY <2>2, <3>4, <3>5, LeadsOn DEF User, Unscoped
      <4>2. entries[e].actor = NoActor
        BY <3>4, <4>1
      <4>3. Side(p) = w /\ \E q \in Issued : calls[q].by = p /\ St(q) # "settled"
        BY <1>0, <1>6, <3>1, <3>5, <4>1, <4>2 DEF DueToWorker
      <4> QED
        BY <4>1, <4>3 DEF ServedInv, AwaitedOK
    <3> QED
      BY <2>2, <3>4, <3>5, PostsToHost
  <2>4. w \in Sides
    BY DEF Sides
  <2> QED
    BY <1>1, <1>3, <2>1, <2>2, <2>3, <2>4, ForwardServed
<1> QED
  BY <1>5, <1>6

-----------------------------------------------------------------------------
(* The steps keep ServedInv.                                               *)

LEMMA HostCallsServed ==
  ASSUME WellTyped, ServedInv, NEW kind \in {"call", "destroy"}, NEW a \in Actors,
         NEW fs \in SUBSET (Returned \cup {Own}), Enqueue(Len(calls) + 1, NewCall(kind, User, a, fs)),
         UNCHANGED <<running, objects, held, toHost, invokes, gaveUp, hasty>>
  PROVE  ServedInv'
<1>1. fs \in Passable(Entries)
  BY DEF Passable, Returned
<1>2. PICK c, call : c = Len(calls) + 1 /\ call = NewCall(kind, User, a, fs)
  OBVIOUS
<1>3. WellTyped' /\ Enqueued(c, call)
  BY <1>1, <1>2, HostCallsTyped
<1>4. c \notin Issued /\ c # 0
  BY <1>2, Numbers
<1>5. call.actor \in Actors /\ call.by = User /\ call.fns = fs
  BY <1>2 DEF NewCall
<1>6. EnqueuesNew(c, call)
  BY <1>3, <1>4, <1>5 DEF EnqueuesNew
<1>7. fs \subseteq Entries \cup {Own}
  BY <1>1 DEF Passable
<1>8. toHost' = toHost /\ UNCHANGED <<running, held, gaveUp, hasty>>
  OBVIOUS
<1> QED
  BY <1>3, <1>5, <1>6, <1>7, <1>8, EnqueueServed

LEMMA HandleBridgeCallServed ==
  ASSUME WellTyped, CallbacksInv, ServedInv, NEW w \in Workers, HandleBridgeCall(w)
  PROVE  ServedInv'
<1>1. PICK c, call : c = Head(toHost[w]).call /\ call = calls[c]
  OBVIOUS
<1>2. /\ c \in Issued /\ Head(toHost[w]).kind = "call"
      /\ WellTyped' /\ Enqueued(c, call) /\ Taken(toHost, toHost', w)
  BY <1>1, HandleBridgeCallIs
<1>3. St(c) = "asked"
  <2>1. Head(toHost[w]) \in ToSet(toHost[w])
    BY <1>2, HeadIs DEF Taken
  <2> QED
    BY <1>1, <1>2, <2>1 DEF CallbacksInv, PortsOK, FromWorker
<1>4. EnqueuesNew(c, call) /\ call.fns \subseteq Entries \cup {Own}
  BY <1>1, <1>2, <1>3, CallIs DEF EnqueuesNew, User
<1>5. UNCHANGED <<running, held, gaveUp, hasty>>
  BY DEF HandleBridgeCall
<1> QED
  BY <1>2, <1>4, <1>5, EnqueueServed

LEMMA OnAnswerServed ==
  ASSUME WellTyped, CallbacksInv, ServedInv, NEW w \in Workers, OnAnswer(w)
  PROVE  ServedInv'
<1>1. PICK c, m : m = Head(toHost[w]) /\ c = m.call
  OBVIOUS
<1>2. /\ WellTyped' /\ Taken(toHost, toHost', w) /\ c \in Issued /\ m.kind = "answer"
      /\ St(c) = "sent" => Settled(c, m.refs)
      /\ St(c) # "sent" => UNCHANGED <<calls, mailboxes, entries, held, toWorker>>
  BY <1>1, OnAnswerIs
<1>3. UNCHANGED <<running, gaveUp, hasty>>
  BY DEF OnAnswer
<1>4. m \in ToSet(toHost[w]) /\ toHost[w] # <<>>
  BY <1>1, <1>2, HeadIs DEF Taken
<1>5. m.refs \subseteq Returned
  BY <1>2, <1>4 DEF ServedInv, LinksOK, HostMsgOK
<1>6. Heads(toHost[Side(c)], "answer", c)
  BY <1>1, <1>2, <1>4 DEF Heads, CallbacksInv, PortsOK, FromWorker
<1>7. CASE St(c) = "sent"
  BY <1>2, <1>3, <1>5, <1>6, <1>7, SettleServed
<1>8. CASE St(c) # "sent"
  <2>1. Ports(toHost, Issued, Entries)
    BY DEF WellTyped, Ports
  <2>2. \A v \in Workers : /\ \A i \in DOMAIN toHost'[v] : Shifted(toHost[v], toHost'[v], i)
                           /\ \A x \in ToSet(toHost'[v]) : x \in ToSet(toHost[v])
    BY <1>2, <2>1, TakenShifted
  <2>3. UNCHANGED <<calls, entries, held, toWorker>>
    BY <1>2, <1>8
  <2>4. \A v \in Workers : \A i \in DOMAIN toWorker'[v] : Shifted(toWorker[v], toWorker'[v], i)
    BY <2>3 DEF Shifted
  <2> QED
    BY <1>2, <1>3, <2>2, <2>3, <2>4, QuietServed
<1> QED
  BY <1>7, <1>8

LEMMA TimerFiresServed ==
  ASSUME WellTyped, CallbacksInv, ServedInv, NEW c \in Issued, TimerFires(c)
  PROVE  ServedInv'
<1>1. WellTyped' /\ Settled(c, {}) /\ St(c) = "sent" /\ gaveUp' = gaveUp \cup {c}
  BY TimerFiresIs
<1>2. UNCHANGED <<running, toHost, hasty>>
  BY DEF TimerFires
<1>3. toHost' = toHost /\ {} \subseteq Returned /\ gaveUp \subseteq gaveUp' /\ c \in gaveUp'
  BY <1>1, <1>2
<1> QED
  BY <1>1, <1>2, <1>3, SettleServed

LEMMA InitServed == Init => ServedInv
<1> SUFFICES ASSUME Init PROVE ServedInv
  OBVIOUS
<1>1. /\ Issued = {} /\ Entries = {}
      /\ held[Host] = {} /\ \A w \in Workers : held[w] = {} /\ toHost[w] = <<>> /\ toWorker[w] = <<>>
  BY DEF Init, Issued, Entries, Sides
<1>2. ToSet(<<>>) = {}
  BY DEF ToSet
<1>3. LinksOK
  BY <1>1, <1>2 DEF LinksOK
<1>4. DeadOK /\ AwaitedOK /\ DueOK
  BY <1>1 DEF DeadOK, AwaitedOK, DueOK
<1> QED
  BY <1>3, <1>4 DEF ServedInv

LEMMA NextServed == WellTyped /\ CallbacksInv /\ ServedInv /\ [Next]_vars => ServedInv'
<1> SUFFICES ASSUME WellTyped, CallbacksInv, ServedInv, [Next]_vars PROVE ServedInv'
  OBVIOUS
<1>0. WellTyped'
  BY NextInv
<1>1. \A fs \in Passed(Host) : fs \subseteq Returned \cup {Own}
  BY DEF Passed, ServedInv, LinksOK
<1>2. ASSUME NEW a \in Actors, NEW fs \in Passed(Host), HostCalls(a, fs) PROVE ServedInv'
  <2>1. /\ Enqueue(Len(calls) + 1, NewCall("call", User, a, fs))
        /\ UNCHANGED <<running, objects, held, toHost, invokes, gaveUp, hasty>>
    BY <1>2 DEF HostCalls
  <2> QED
    BY <1>1, <2>1, HostCallsServed
<1>3. ASSUME NEW a \in Actors, HostDestroys(a) PROVE ServedInv'
  <2>1. /\ Enqueue(Len(calls) + 1, NewCall("destroy", User, a, {}))
        /\ UNCHANGED <<running, objects, held, toHost, invokes, gaveUp, hasty>>
    BY <1>3 DEF HostDestroys
  <2>2. {} \subseteq Returned \cup {Own}
    OBVIOUS
  <2> QED
    BY <2>1, <2>2, HostCallsServed
<1>4. ASSUME NEW a \in Actors, NEW p \in running, NEW fs \in Passed(Side(p)), StubCalls(p, a, fs)
      PROVE  ServedInv'
  BY <1>0, <1>4, StubCallsIs, StubCallsServed
<1>5. ASSUME NEW w \in Workers, HandleBridgeCall(w) \/ OnAnswer(w) PROVE ServedInv'
  BY <1>5, HandleBridgeCallServed, OnAnswerServed
<1>6. ASSUME NEW w \in Workers, HandleBridgeCallbackInvoke(w) \/ HandleCallbackInvoke(w) PROVE ServedInv'
  BY <1>0, <1>6, BridgeInvokeServed, CallbackInvokeServed
<1>7. ASSUME NEW w \in Workers, HandleCall(w) \/ HandleResult(w) PROVE ServedInv'
  BY <1>0, <1>7, HandleCallServed, HandleResultServed
<1>8. ASSUME NEW c \in Issued, TimerFires(c) PROVE ServedInv'
  BY <1>8, TimerFiresServed
<1>9. ASSUME NEW c \in running, NEW fs \in Passed(Side(c)), MethodReturns(c, fs) PROVE ServedInv'
  BY <1>0, <1>9, MethodReturnsServed
<1>10. ASSUME NEW c \in running, CloseReturns(c) PROVE ServedInv'
  BY <1>0, <1>10, CloseReturnsServed
<1>11. ASSUME NEW c \in running \cup {User}, NEW e \in held[Side(c)], Invokes(c, e) PROVE ServedInv'
  BY <1>0, <1>11, InvokesServedStep
<1>12. CASE UNCHANGED vars
  <2>1. UNCHANGED <<calls, entries, gaveUp, hasty, running, held, toHost, toWorker>>
    BY <1>12 DEF vars
  <2>2. \A w \in Workers : /\ \A i \in DOMAIN toHost'[w] : Shifted(toHost[w], toHost'[w], i)
                           /\ \A i \in DOMAIN toWorker'[w] : Shifted(toWorker[w], toWorker'[w], i)
    BY <2>1 DEF Shifted
  <2> QED
    BY <1>0, <2>1, <2>2, QuietServed
<1>13. CASE Next
  BY <1>2, <1>3, <1>4, <1>5, <1>6, <1>7, <1>8, <1>9, <1>10, <1>11, <1>13 DEF Next
<1> QED
  BY <1>12, <1>13

LEMMA ServedIsServed ==
  ASSUME WellTyped, ServedInv
  PROVE  InvokesServed
<1> SUFFICES ASSUME NEW w \in Workers, NEW m \in ToSet(toWorker[w]) \cup ToSet(toHost[w]),
                    m.kind = "invoke", m.due, ~entries[m.entry].live
             PROVE  entries[m.entry].scope \in gaveUp \cup hasty
  BY DEF InvokesServed
<1>1. m.entry \in Entries
  BY InPort, MessageIs
<1>2. IF entries[m.entry].scope # Unscoped THEN St(entries[m.entry].scope) \in Ended
      ELSE entries[m.entry].actor # NoActor
  BY <1>1 DEF ServedInv, DeadOK
<1>3. CASE m \in ToSet(toHost[w])
  <2>1. PICK i \in DOMAIN toHost[w] : toHost[w][i] = m
    BY <1>3 DEF ToSet
  <2>2. DueToHost(w, m.entry, Before(toHost[w], i))
    BY <2>1 DEF ServedInv, DueOK, DueAtHost
  <2>3. entries[m.entry].at = Host
    BY <1>3 DEF ServedInv, LinksOK, HostMsgOK, At
  <2>4. entries[m.entry].scope # Unscoped
    BY <1>1, <1>2, <2>3 DEF ServedInv, LinksOK, EntryOK
  <2> QED
    BY <1>2, <2>2, <2>4 DEF DueToHost, Ended
<1>4. CASE m \in ToSet(toWorker[w])
  <2>1. PICK i \in DOMAIN toWorker[w] : toWorker[w][i] = m
    BY <1>4 DEF ToSet
  <2>2. DueToWorker(w, m.entry, Before(toWorker[w], i))
    BY <2>1 DEF ServedInv, DueOK, DueAtWorker
  <2>3. entries[m.entry].at # Host
    BY <1>4, CallbacksAssumption DEF ServedInv, LinksOK, WorkerMsgOK, At
  <2>4. entries[m.entry].actor # NoActor
    BY <1>1, <1>2, <2>3 DEF ServedInv, LinksOK, EntryOK
  <2> QED
    BY <2>2, <2>4 DEF DueToWorker
<1> QED
  BY <1>3, <1>4

\* An invocation on its way, through however many sides, never finds that the
\* answer of the call, or the destroy of the actor, was there first: what was
\* promised when it was begun is served, unless the host gave up on a call that
\* passed the function, or its method did not wait for the calls it made
\* (Callbacks.InvokesServed).
THEOREM InvokesServedHolds == Spec => []InvokesServed
<1>1. WellTyped /\ ServedInv => InvokesServed
  BY ServedIsServed
<1> QED
  BY <1>1, InitServed, NextServed, InvHolds, PTL DEF Spec
=============================================================================
