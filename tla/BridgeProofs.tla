---------------------------- MODULE BridgeProofs ----------------------------
(***************************************************************************)
(* Proofs about Bridge for any set of workers, actors and callbacks, with   *)
(* any bound on calls and crashes.                                         *)
(*                                                                         *)
(* The argument: messages only travel the way their call goes (RoutesOK),   *)
(* and the first task of a mailbox is the one whose request is pending      *)
(* (TasksOK), so two methods of an actor never have pending requests at     *)
(* once.  While every thread lives, each call is in exactly one place       *)
(* (OnePlace) and so is its request at the worker (OneRequest): each step   *)
(* moves one call on.                                                      *)
(***************************************************************************)
EXTENDS Bridge, SequenceTheorems, FiniteSetTheorems, TLAPS

Requests == {"call", "invoke"}

\* TypeOK, but for what could not be cloned: nothing else depends on that
Typed ==
  /\ callTimeout \in BOOLEAN
  /\ calls \in Seq(Call) /\ Len(calls) <= MaxCalls
  /\ mailbox \in [Actors -> Seq(Issued)]
  /\ pending \in [Workers -> SUBSET Issued]
  /\ phase \in [Workers -> {"open", "draining", "stopped"}]
  /\ toWorker \in [Workers -> Seq([kind : {"call", "invoke", "result"}, call : Issued])]
  /\ toHost \in [Workers -> Seq([kind : {"call", "invoke", "answer"}, call : Issued])]
  /\ running \subseteq Issued
  /\ crashed \subseteq Workers /\ notices \subseteq crashed

LeftTyped ==
  /\ leftover \in [Workers -> SUBSET Kinds]
  /\ unclonable \subseteq [by : {User} \cup Issued, after : Issued]

\* all variables but those
callsVars == <<callTimeout, calls, mailbox, pending, phase, toWorker, toHost,
               running, crashed, notices>>

\* who made a call is known, and the host does not invoke its own callbacks
CallsOK ==
  \A c \in Issued : calls[c].by \in {User} \cup Issued /\ (Side(c) = Host => Caller(c) # Host)

\* message m from worker w to the host: a request of w, or the answer to one
FromWorker(w, m) ==
  /\ ~Direct(m.call)
  /\ m.kind = "call" => IsMethod(m.call) /\ Caller(m.call) = w
  /\ m.kind = "invoke" => ~IsMethod(m.call) /\ Caller(m.call) = w
  /\ m.kind = "answer" => Side(m.call) = w

\* message m to worker w: a request to w, or the result of one of its own
ToWorkerOf(w, m) ==
  /\ ~Direct(m.call)
  /\ m.kind \in Requests => Side(m.call) = w
  /\ m.kind = "result" => Caller(m.call) = w

RoutesOK ==
  \A w \in Workers :
    /\ \A m \in Range(toHost[w]) : FromWorker(w, m)
    /\ \A m \in Range(toWorker[w]) : ToWorkerOf(w, m)

\* of the tasks of a mailbox, the first has its request pending, and no other
TasksOK ==
  /\ \A a \in Actors :
       /\ \A c \in Range(mailbox[a]) : Target(c) = a /\ ~Direct(c)
       /\ mailbox[a] # <<>> => Head(mailbox[a]) \in pending[Home[a]]
  /\ \A w \in Workers : \A c \in pending[w] :
       /\ Side(c) = w /\ ~Direct(c)
       /\ IsMethod(c) => mailbox[Target(c)] # <<>> /\ Head(mailbox[Target(c)]) = c

BridgeInv ==
  /\ CallsOK
  /\ RoutesOK
  /\ TasksOK
  /\ IsFiniteSet(crashed)

-----------------------------------------------------------------------------
AllAlive == \A w \in Workers : Alive(w)

\* a request of c, or the answer or result of c, is in a port
HasRequest(port, c) == \E i \in DOMAIN port : port[i].kind \in Requests /\ port[i].call = c
HasReply(port, c) == \E i \in DOMAIN port : port[i].kind \notin Requests /\ port[i].call = c

OutAt(w, c) == HasRequest(toHost[w], c)
AnswerAt(w, c) == HasReply(toHost[w], c)
AskedAt(w, c) == HasRequest(toWorker[w], c)
ResultAt(w, c) == HasReply(toWorker[w], c)

\* the places of Whereabouts, one by one, each at any worker or actor
Out(c) == \E w \in Workers : OutAt(w, c)
InQueue(c) == \E a \in Actors : c \in Range(mailbox[a]) /\ Head(mailbox[a]) # c
IsPending(c) == \E w \in Workers : c \in pending[w]
Local(c) == c \in running /\ (Direct(c) \/ Side(c) = Host)
Back(c) == \E w \in Workers : ResultAt(w, c)

\* and those of AtWorker
Asked(c) == \E w \in Workers : AskedAt(w, c)
Answered(c) == \E w \in Workers : AnswerAt(w, c)

\* a call is in one place, or it has settled
OnePlace(c) ==
  /\ Out(c) \/ InQueue(c) \/ IsPending(c) \/ Local(c) \/ Back(c) \/ calls[c].settled
  /\ Out(c) => ~InQueue(c) /\ ~IsPending(c) /\ ~Local(c) /\ ~Back(c) /\ ~calls[c].settled
  /\ InQueue(c) => ~IsPending(c) /\ ~Local(c) /\ ~Back(c) /\ ~calls[c].settled
  /\ IsPending(c) => ~Local(c) /\ ~Back(c) /\ ~calls[c].settled
  /\ Local(c) => ~Back(c) /\ ~calls[c].settled
  /\ Back(c) => ~calls[c].settled

\* so is its request at the worker once it was sent; one that is not pending any
\* more may still be there
OneRequest(c) ==
  /\ Asked(c) => c \notin running /\ ~Answered(c)
  /\ c \in running => ~Answered(c)
  /\ Out(c) \/ InQueue(c) => ~Asked(c) /\ c \notin running /\ ~Answered(c)
  /\ IsPending(c) => Asked(c) \/ c \in running \/ Answered(c)

\* no port holds two requests, or two answers, of one call
OneEach(port) ==
  \A i, j \in DOMAIN port :
    port[i].call = port[j].call /\ (port[i].kind \in Requests <=> port[j].kind \in Requests)
    => i = j

NoTwice(s) == \A i, j \in DOMAIN s : s[i] = s[j] => i = j

AliveInv ==
  AllAlive =>
    /\ \A w \in Workers : OneEach(toHost[w]) /\ OneEach(toWorker[w])
    /\ \A a \in Actors : NoTwice(mailbox[a])
    /\ \A c \in Issued : OnePlace(c)
    /\ \A c \in Issued : Side(c) # Host /\ ~Direct(c) => OneRequest(c)

-----------------------------------------------------------------------------
(* Sequences.                                                              *)

LEMMA SetToSeqIsOnce ==
  ASSUME NEW S, IsFiniteSet(S)
  PROVE  SetToSeq(S) \in Seq(S) /\ Range(SetToSeq(S)) = S /\ NoTwice(SetToSeq(S))
<1> DEFINE n == Cardinality(S)
           s == SetToSeq(S)
<1>1. n \in Nat /\ \E f \in [1..n -> S] : IsInjective(f)
  BY FS_CardinalityType DEF ExistsBijection, Bijection, Injection
<1>2. s \in [1..n -> S] /\ IsInjective(s)
  BY <1>1 DEF SetToSeq
<1> HIDE DEF s
<1>3. Range(s) = S
  <2>1. s \in Bijection(1..n, Range(s))
    BY <1>2 DEF Bijection, Injection, Surjection, Range, IsInjective
  <2>2. Cardinality(Range(s)) = n
    BY <1>1, <2>1, FS_CountingElements DEF ExistsBijection
  <2>3. Range(s) \in SUBSET S
    BY <1>2 DEF Range
  <2> QED
    BY <2>2, <2>3, FS_Subset
<1>4. s \in Seq(S) /\ NoTwice(s)
  BY <1>1, <1>2 DEF NoTwice, IsInjective
<1> QED
  BY <1>3, <1>4 DEF s

LEMMA AppendIs ==
  ASSUME NEW S, NEW s \in Seq(S), NEW e \in S
  PROVE  /\ Append(s, e) \in Seq(S) /\ Append(s, e) # <<>>
         /\ Range(Append(s, e)) = Range(s) \cup {e}
         /\ Head(Append(s, e)) = IF s = <<>> THEN e ELSE Head(s)
<1>1. /\ DOMAIN Append(s, e) = 1..(Len(s) + 1) /\ DOMAIN s = 1..Len(s) /\ Len(s) \in Nat
      /\ \A i \in 1..Len(s) : Append(s, e)[i] = s[i]
      /\ Append(s, e)[Len(s) + 1] = e /\ Append(s, e) \in Seq(S)
  BY AppendProperties, LenProperties
<1>2. Range(Append(s, e)) = Range(s) \cup {e}
  BY <1>1 DEF Range
<1>3. Append(s, e) # <<>> /\ Head(Append(s, e)) = Append(s, e)[1] /\ Head(s) = s[1]
  BY <1>1, EmptySeq
<1>4. Head(Append(s, e)) = IF s = <<>> THEN e ELSE Head(s)
  <2>1. CASE s = <<>>
    BY <2>1, <1>1, <1>3
  <2>2. CASE s # <<>>
    BY <2>2, <1>1, <1>3, EmptySeq
  <2> QED
    BY <2>1, <2>2
<1> QED
  BY <1>1, <1>2, <1>3, <1>4

LEMMA TailIs ==
  ASSUME NEW S, NEW s \in Seq(S), s # <<>>
  PROVE  /\ Tail(s) \in Seq(S) /\ Head(s) \in Range(s) /\ Head(s) \in S
         /\ Range(Tail(s)) \subseteq Range(s)
         /\ Range(s) = Range(Tail(s)) \cup {Head(s)}
         /\ Tail(s) # <<>> <=> Len(s) > 1
         /\ Tail(s) # <<>> => Head(Tail(s)) = s[2] /\ s[2] \in Range(s)
<1>1. /\ Len(s) \in Nat \ {0} /\ DOMAIN s = 1..Len(s)
      /\ DOMAIN Tail(s) = 1..(Len(s) - 1) /\ Head(s) = s[1] /\ Tail(s) \in Seq(S)
      /\ Len(Tail(s)) = Len(s) - 1 /\ Head(s) \in S
      /\ \A i \in 1..(Len(s) - 1) : Tail(s)[i] = s[i + 1]
  BY HeadTailProperties, LenProperties, EmptySeq
<1>2. Head(s) \in Range(s) /\ Range(Tail(s)) \subseteq Range(s)
  BY <1>1 DEF Range
<1>3. ASSUME NEW m \in Range(s), m # Head(s)
      PROVE  m \in Range(Tail(s))
  <2>1. PICK i \in 1..Len(s) : m = s[i]
    BY <1>1 DEF Range
  <2>2. i - 1 \in 1..(Len(s) - 1) /\ Tail(s)[i - 1] = m
    BY <2>1, <1>1, <1>3
  <2> QED
    BY <2>2, <1>1 DEF Range
<1>4. Tail(s) # <<>> <=> Len(s) > 1
  <2> DEFINE t == Tail(s)
  <2>1. t \in Seq(S) /\ Len(t) = Len(s) - 1 /\ Len(s) \in Nat \ {0}
    BY <1>1
  <2> HIDE DEF t
  <2>2. t # <<>> <=> Len(t) # 0
    BY <2>1, EmptySeq
  <2>3. t # <<>> <=> Len(s) > 1
    BY <2>1, <2>2
  <2> QED
    BY <2>3 DEF t
<1>5. Tail(s) # <<>> => Head(Tail(s)) = s[2] /\ s[2] \in Range(s)
  BY <1>1, <1>4 DEF Range
<1> QED
  BY <1>1, <1>2, <1>3, <1>4, <1>5

-----------------------------------------------------------------------------
(* Calls, ports and promises.                                              *)

\* The calls made so far stay what they are.
Extends ==
  /\ Issued \subseteq Issued'
  /\ \A c \in Issued :
       /\ Target(c)' = Target(c) /\ Side(c)' = Side(c) /\ Caller(c)' = Caller(c)
       /\ (IsMethod(c)' <=> IsMethod(c)) /\ (Direct(c)' <=> Direct(c))

LEMMA IssuedIs ==
  ASSUME Typed
  PROVE  /\ Len(calls) \in Nat /\ Issued = 1..Len(calls) /\ User \notin Issued
         /\ IsFiniteSet(Issued)
         /\ \A c \in Issued : calls[c] \in Call /\ Target(c) \in Actors \cup Functions
<1>1. Len(calls) \in Nat /\ Issued = 1..Len(calls) /\ \A c \in Issued : calls[c] \in Call
  BY LenProperties DEF Typed, Issued
<1>2. IsFiniteSet(Issued)
  BY <1>1, FS_Interval
<1> QED
  BY <1>1, <1>2 DEF User, Call, Target

LEMMA SidesAre ==
  ASSUME Typed, CallsOK, NEW c \in Issued
  PROVE  /\ Side(c) = Home[Target(c)] /\ Side(c) \in Sides /\ Caller(c) \in Sides
         /\ IsMethod(c) => Side(c) \in Workers
         /\ Side(User) = Host /\ Host \notin Workers
<1>1. Target(c) \in Actors \cup Functions /\ c # User
  BY IssuedIs
<1>2. Side(c) = Home[Target(c)] /\ Side(User) = Host /\ Host \notin Workers
  BY <1>1, BridgeAssumption DEF Side
<1>3. Caller(c) \in Sides
  <2>1. calls[c].by = User \/ calls[c].by \in Issued
    BY DEF CallsOK
  <2>2. ASSUME NEW d \in Issued
        PROVE  Side(d) \in Sides
    BY IssuedIs, BridgeAssumption DEF Side
  <2> QED
    BY <1>2, <2>1, <2>2 DEF Caller, Sides
<1>4. Side(c) \in Sides /\ (IsMethod(c) => Side(c) \in Workers)
  BY <1>1, <1>2, BridgeAssumption DEF Sides, IsMethod
<1> QED
  BY <1>2, <1>3, <1>4

\* a call is made: nothing is known of the others that was not
LEMMA CallMade ==
  ASSUME Typed, CallsOK, IsFiniteSet(crashed),
         NEW p \in {User} \cup Issued, NEW t \in Actors \cup Functions, NEW s \in BOOLEAN,
         NEW n, n = New, Begins(p, t, s), Side(p) = Host => Home[t] # Host
  PROVE  /\ calls' \in Seq(Call) /\ Len(calls') <= MaxCalls
         /\ Issued' = Issued \cup {n} /\ n \notin Issued
         /\ Extends /\ CallsOK'
         /\ Target(n)' = t /\ Side(n)' = Home[t] /\ Caller(n)' = Side(p)
         /\ calls'[n].settled = s /\ \A c \in Issued : calls'[c] = calls[c]
<1> DEFINE r == [by |-> p, target |-> t, settled |-> s]
<1>1. /\ Len(calls) \in Nat /\ Issued = 1..Len(calls) /\ User \notin Issued /\ calls \in Seq(Call)
      /\ n = Len(calls) + 1
  BY IssuedIs DEF Typed, New
<1>2. r \in Call
  BY <1>1 DEF Call, User
<1>3. calls' = Append(calls, r) /\ Len(calls) < MaxCalls
  BY DEF Begins, Within
<1>4. r.by = p /\ r.target = t /\ r.settled = s
  OBVIOUS
<1> HIDE DEF r
<1>5. /\ calls' \in Seq(Call) /\ Issued' = Issued \cup {n} /\ n \notin Issued /\ Len(calls') = n
      /\ calls'[n] = r /\ \A c \in Issued : calls'[c] = calls[c]
  BY <1>1, <1>2, <1>3, AppendProperties, LenProperties DEF Issued
<1>6. Len(calls') <= MaxCalls
  BY <1>1, <1>3, <1>5, BridgeAssumption
<1>7. /\ \A c \in Issued : Target(c)' = Target(c) /\ (IsMethod(c)' <=> IsMethod(c))
      /\ \A c \in {User} \cup Issued : Side(c)' = Side(c)
      /\ Target(n)' = t /\ Side(n)' = Home[t]
  BY <1>1, <1>4, <1>5 DEF Target, Side, IsMethod, User
<1>8. Caller(n)' = Side(p) /\ \A c \in Issued : Caller(c)' = Caller(c)
  BY <1>4, <1>5, <1>7 DEF Caller, CallsOK
<1>9. \A c \in Issued : Direct(c)' <=> Direct(c)
  BY <1>7, <1>8 DEF Direct
<1>10. CallsOK'
  BY <1>4, <1>5, <1>7, <1>8 DEF CallsOK
<1> QED
  BY <1>4, <1>5, <1>6, <1>7, <1>8, <1>9, <1>10 DEF Extends

LEMMA SameCalls ==
  ASSUME CallsOK, UNCHANGED calls
  PROVE  Extends /\ CallsOK' /\ Issued' = Issued
BY DEF Extends, CallsOK, Issued, Target, Side, Caller, IsMethod, Direct

\* promises settle
LEMMA CallsSettled ==
  ASSUME Typed, CallsOK, NEW cs, calls' = Settled(cs)
  PROVE  /\ calls' \in Seq(Call) /\ Len(calls') = Len(calls) /\ Issued' = Issued
         /\ Extends /\ CallsOK'
         /\ \A c \in Issued : calls'[c].settled <=> c \in cs \/ calls[c].settled
<1>1. /\ Len(calls) \in Nat /\ Issued = 1..Len(calls) /\ User \notin Issued
      /\ \A c \in Issued : calls[c] \in Call
  BY IssuedIs
<1>2. \A c \in Issued : /\ calls'[c] \in Call
                        /\ calls'[c].by = calls[c].by /\ calls'[c].target = calls[c].target
                        /\ calls'[c].settled <=> c \in cs \/ calls[c].settled
  BY <1>1 DEF Settled, Call
<1>3. calls' \in Seq(Call) /\ Len(calls') = Len(calls) /\ Issued' = Issued
  BY <1>1, <1>2 DEF Settled, Issued
<1>4. /\ \A c \in Issued : Target(c)' = Target(c) /\ (IsMethod(c)' <=> IsMethod(c))
      /\ \A c \in {User} \cup Issued : Side(c)' = Side(c)
  BY <1>1, <1>2 DEF Target, Side, IsMethod, User
<1>5. \A c \in Issued : Caller(c)' = Caller(c) /\ (Direct(c)' <=> Direct(c))
  BY <1>2, <1>4 DEF Caller, CallsOK, Direct
<1>6. CallsOK'
  BY <1>2, <1>3, <1>4, <1>5 DEF CallsOK
<1> QED
  BY <1>2, <1>3, <1>4, <1>5, <1>6 DEF Extends

Inbound(I) == [kind : {"call", "invoke", "result"}, call : I]
Outbound(I) == [kind : {"call", "invoke", "answer"}, call : I]

LEMMA MessagesAreIssued ==
  ASSUME Typed, NEW w \in Workers
  PROVE  /\ Range(toHost[w]) \subseteq Outbound(Issued) /\ toHost[w] \in Seq(Outbound(Issued))
         /\ Range(toWorker[w]) \subseteq Inbound(Issued) /\ toWorker[w] \in Seq(Inbound(Issued))
<1>1. toHost[w] \in Seq(Outbound(Issued)) /\ toWorker[w] \in Seq(Inbound(Issued))
  BY DEF Typed, Inbound, Outbound
<1> QED
  BY <1>1, RangeOfSeq

\* what is posted arrives behind what is there, or is lost
LEMMA Delivered ==
  ASSUME Typed, Issued \subseteq Issued', NEW nodes, NEW posted, DeliverIn(nodes, posted),
         \A v \in Workers : posted[v] \in Seq(Inbound(Issued'))
  PROVE  /\ toWorker' \in [Workers -> Seq(Inbound(Issued'))]
         /\ \A v \in Workers : Range(toWorker'[v]) \subseteq Range(toWorker[v]) \cup Range(posted[v])
<1>1. ASSUME NEW v \in Workers
      PROVE  /\ toWorker'[v] \in Seq(Inbound(Issued'))
             /\ Range(toWorker'[v]) \subseteq Range(toWorker[v]) \cup Range(posted[v])
  <2>1. toWorker'[v] = <<>> \/ toWorker'[v] = toWorker[v] \o posted[v]
    BY DEF DeliverIn
  <2>2. toWorker[v] \in Seq(Inbound(Issued'))
    <3>1. Inbound(Issued) \subseteq Inbound(Issued')
      BY DEF Inbound
    <3> QED
      BY <3>1, MessagesAreIssued, SeqMonotonic
  <2>3. /\ toWorker[v] \o posted[v] \in Seq(Inbound(Issued'))
        /\ Range(toWorker[v] \o posted[v]) = Range(toWorker[v]) \cup Range(posted[v])
    BY <2>2, ConcatProperties, RangeConcatenation
  <2>4. <<>> \in Seq(Inbound(Issued')) /\ Range(<<>>) = {}
    BY EmptySeq DEF Range
  <2> QED
    BY <2>1, <2>3, <2>4
<1> QED
  BY <1>1 DEF DeliverIn

\* of the calls made so far, nothing is lost from the types
LEMMA StillTyped ==
  ASSUME Typed, Issued \subseteq Issued'
  PROVE  /\ mailbox \in [Actors -> Seq(Issued')]
         /\ pending \in [Workers -> SUBSET Issued']
         /\ toWorker \in [Workers -> Seq(Inbound(Issued'))]
         /\ toHost \in [Workers -> Seq(Outbound(Issued'))]
         /\ running \subseteq Issued'
<1>1. Inbound(Issued) \subseteq Inbound(Issued') /\ Outbound(Issued) \subseteq Outbound(Issued')
  BY DEF Inbound, Outbound
<1>2. \A a \in Actors : mailbox[a] \in Seq(Issued')
  BY SeqMonotonic DEF Typed
<1>3. \A w \in Workers : toWorker[w] \in Seq(Inbound(Issued')) /\ toHost[w] \in Seq(Outbound(Issued'))
  BY <1>1, MessagesAreIssued, SeqMonotonic
<1>4. /\ pending \in [Workers -> SUBSET Issued'] /\ running \subseteq Issued'
  BY DEF Typed
<1> QED
  BY <1>2, <1>3, <1>4 DEF Typed

\* routes stay right if what is new in a port is
LEMMA RoutesKept ==
  ASSUME Typed, RoutesOK, Extends,
         \A w \in Workers : \A m \in Range(toHost'[w]) : m \in Range(toHost[w]) \/ FromWorker(w, m)',
         \A w \in Workers : \A m \in Range(toWorker'[w]) : m \in Range(toWorker[w]) \/ ToWorkerOf(w, m)'
  PROVE  RoutesOK'
<1>1. ASSUME NEW w \in Workers, NEW m \in Range(toHost[w])
      PROVE  FromWorker(w, m)'
  <2>1. m.call \in Issued /\ FromWorker(w, m)
    BY MessagesAreIssued DEF Outbound, RoutesOK
  <2> QED
    BY <2>1 DEF FromWorker, Extends
<1>2. ASSUME NEW w \in Workers, NEW m \in Range(toWorker[w])
      PROVE  ToWorkerOf(w, m)'
  <2>1. m.call \in Issued /\ ToWorkerOf(w, m)
    BY MessagesAreIssued DEF Inbound, RoutesOK
  <2> QED
    BY <2>1 DEF ToWorkerOf, Extends
<1> QED
  BY <1>1, <1>2 DEF RoutesOK

-----------------------------------------------------------------------------
(* What mailboxes and posts do.                                            *)

LEMMA PostOne ==
  ASSUME Typed, Issued \subseteq Issued', NEW w \in Workers, NEW m \in Inbound(Issued'),
         Deliver(Only(w, <<m>>))
  PROVE  /\ toWorker' \in [Workers -> Seq(Inbound(Issued'))]
         /\ \A v \in Workers : \A x \in Range(toWorker'[v]) :
              x \in Range(toWorker[v]) \/ (v = w /\ x = m)
<1> DEFINE posted == Only(w, <<m>>)
<1>1. /\ <<m>> \in Seq(Inbound(Issued')) /\ <<>> \in Seq(Inbound(Issued'))
      /\ Range(<<m>>) = {m} /\ Range(<<>>) = {}
  BY DEF Range
<1>2. \A v \in Workers : posted[v] = IF v = w THEN <<m>> ELSE <<>>
  BY DEF Only
<1>3. DeliverIn(phase, posted)
  BY DEF Deliver
<1> HIDE DEF posted
<1>4. \A v \in Workers : posted[v] \in Seq(Inbound(Issued'))
  BY <1>1, <1>2
<1>5. /\ toWorker' \in [Workers -> Seq(Inbound(Issued'))]
      /\ \A v \in Workers : Range(toWorker'[v]) \subseteq Range(toWorker[v]) \cup Range(posted[v])
  BY <1>3, <1>4, Delivered
<1> QED
  BY <1>1, <1>2, <1>5

LEMMA MailboxIs ==
  ASSUME Typed, TasksOK, NEW a \in Actors
  PROVE  /\ mailbox[a] \in Seq(Issued) /\ Range(mailbox[a]) \subseteq Issued
         /\ Home[a] \in Workers
         /\ mailbox[a] # <<>> =>
              /\ Head(mailbox[a]) \in Range(mailbox[a]) /\ Head(mailbox[a]) \in pending[Home[a]]
              /\ Tail(mailbox[a]) \in Seq(Issued) /\ Range(Tail(mailbox[a])) \subseteq Range(mailbox[a])
              /\ Range(mailbox[a]) = Range(Tail(mailbox[a])) \cup {Head(mailbox[a])}
              /\ Tail(mailbox[a]) # <<>> <=> Len(mailbox[a]) > 1
              /\ Tail(mailbox[a]) # <<>> => /\ Head(Tail(mailbox[a])) = mailbox[a][2]
                                           /\ mailbox[a][2] \in Range(mailbox[a])
<1>1. mailbox[a] \in Seq(Issued) /\ Range(mailbox[a]) \subseteq Issued
  BY RangeOfSeq DEF Typed
<1>2. Home[a] \in Workers
  BY BridgeAssumption DEF Sides
<1>3. mailbox[a] # <<>> => Head(mailbox[a]) \in pending[Home[a]]
  BY DEF TasksOK
<1> DEFINE s == mailbox[a]
<1> HIDE DEF s
<1>4. s \in Seq(Issued)
  BY <1>1 DEF s
<1>5. s # <<>> =>
        /\ Tail(s) \in Seq(Issued) /\ Head(s) \in Range(s)
        /\ Range(Tail(s)) \subseteq Range(s)
        /\ Range(s) = Range(Tail(s)) \cup {Head(s)}
        /\ Tail(s) # <<>> <=> Len(s) > 1
        /\ Tail(s) # <<>> => Head(Tail(s)) = s[2] /\ s[2] \in Range(s)
  BY <1>4, TailIs
<1> QED
  BY <1>1, <1>2, <1>3, <1>5 DEF s

LEMMA TaskAdded ==
  ASSUME Typed, TasksOK, Extends, NEW n \in Issued', NEW a \in Actors,
         Target(n)' = a, Side(n)' = Home[a], ~Direct(n)', Enqueue(n, a)
  PROVE  /\ mailbox' \in [Actors -> Seq(Issued')]
         /\ pending' \in [Workers -> SUBSET Issued']
         /\ toWorker' \in [Workers -> Seq(Inbound(Issued'))]
         /\ \A v \in Workers : \A m \in Range(toWorker'[v]) : m \in Range(toWorker[v]) \/ ToWorkerOf(v, m)'
         /\ TasksOK'
<1>1. /\ mailbox \in [Actors -> Seq(Issued')] /\ pending \in [Workers -> SUBSET Issued']
      /\ toWorker \in [Workers -> Seq(Inbound(Issued'))] /\ Issued \subseteq Issued'
  BY StillTyped DEF Extends
<1>2. /\ mailbox' = [mailbox EXCEPT ![a] = Append(@, n)]
      /\ Append(mailbox[a], n) \in Seq(Issued') /\ Append(mailbox[a], n) # <<>>
      /\ Range(Append(mailbox[a], n)) = Range(mailbox[a]) \cup {n}
      /\ Head(Append(mailbox[a], n)) = IF mailbox[a] = <<>> THEN n ELSE Head(mailbox[a])
  BY <1>1, AppendIs DEF Enqueue
<1>3. /\ mailbox' \in [Actors -> Seq(Issued')] /\ mailbox'[a] = Append(mailbox[a], n)
      /\ \A b \in Actors \ {a} : mailbox'[b] = mailbox[b]
  BY <1>1, <1>2
<1>4. Home[a] \in Workers
  BY MailboxIs
<1>5. \A b \in Actors : \A c \in Range(mailbox'[b]) : Target(c)' = b /\ ~Direct(c)'
  <2>1. ASSUME NEW b \in Actors, NEW c \in Range(mailbox[b])
        PROVE  Target(c)' = b /\ ~Direct(c)'
    <3>1. c \in Issued /\ Target(c) = b /\ ~Direct(c)
      BY MailboxIs DEF TasksOK
    <3> QED
      BY <3>1 DEF Extends
  <2> QED
    BY <1>2, <1>3, <2>1
<1>6. \A w \in Workers : \A c \in pending[w] :
        /\ c \in Issued /\ Side(c)' = w /\ ~Direct(c)' /\ (IsMethod(c)' <=> IsMethod(c))
        /\ Target(c)' = Target(c)
        /\ IsMethod(c) => mailbox[Target(c)] # <<>> /\ Head(mailbox[Target(c)]) = c
  BY DEF TasksOK, Extends, Typed
<1>7. CASE mailbox[a] = <<>>
  <2>1. /\ pending' = [pending EXCEPT ![Home[a]] = @ \cup {n}]
        /\ Deliver(Only(Home[a], <<Msg("call", n)>>))
    BY <1>7 DEF Enqueue
  <2>2. Msg("call", n) \in Inbound(Issued')
    BY DEF Msg, Inbound
  <2>3. /\ toWorker' \in [Workers -> Seq(Inbound(Issued'))]
        /\ \A v \in Workers : \A x \in Range(toWorker'[v]) :
             x \in Range(toWorker[v]) \/ (v = Home[a] /\ x = Msg("call", n))
    BY <1>1, <1>4, <2>1, <2>2, PostOne
  <2>4. ToWorkerOf(Home[a], Msg("call", n))'
    BY DEF ToWorkerOf, Msg, Requests
  <2>5. /\ pending' \in [Workers -> SUBSET Issued'] /\ n \in pending'[Home[a]]
        /\ \A w \in Workers : pending[w] \subseteq pending'[w]
        /\ \A w \in Workers : \A c \in pending'[w] : c \in pending[w] \/ (w = Home[a] /\ c = n)
    BY <1>1, <1>4, <2>1
  <2>6. \A b \in Actors : mailbox'[b] # <<>> => Head(mailbox'[b]) \in pending'[Home[b]]
    BY <1>2, <1>3, <1>7, <2>5, MailboxIs
  <2>7. \A w \in Workers : \A c \in pending'[w] :
          /\ Side(c)' = w /\ ~Direct(c)'
          /\ IsMethod(c)' => mailbox'[Target(c)'] # <<>> /\ Head(mailbox'[Target(c)']) = c
    BY <1>2, <1>3, <1>6, <1>7, <2>5 DEF IsMethod
  <2> QED
    BY <1>3, <1>5, <2>3, <2>4, <2>5, <2>6, <2>7 DEF TasksOK
<1>8. CASE mailbox[a] # <<>>
  <2>1. UNCHANGED <<pending, toWorker>>
    BY <1>8 DEF Enqueue
  <2>2. \A b \in Actors : mailbox'[b] # <<>> => Head(mailbox'[b]) \in pending'[Home[b]]
    BY <1>2, <1>3, <1>8, <2>1, MailboxIs
  <2>3. \A w \in Workers : \A c \in pending'[w] :
          /\ Side(c)' = w /\ ~Direct(c)'
          /\ IsMethod(c)' => mailbox'[Target(c)'] # <<>> /\ Head(mailbox'[Target(c)']) = c
    BY <1>2, <1>3, <1>6, <1>8, <2>1 DEF IsMethod
  <2> QED
    BY <1>1, <1>3, <1>5, <2>1, <2>2, <2>3 DEF TasksOK
<1> QED
  BY <1>7, <1>8

LEMMA CallbackAsked ==
  ASSUME Typed, TasksOK, Extends, NEW n \in Issued', NEW f \in Functions,
         Target(n)' = f, Side(n)' = Home[f], Home[f] \in Workers, InvokeWorkerCallback(n, f)
  PROVE  /\ pending' \in [Workers -> SUBSET Issued']
         /\ toWorker' \in [Workers -> Seq(Inbound(Issued'))]
         /\ \A v \in Workers : \A m \in Range(toWorker'[v]) : m \in Range(toWorker[v]) \/ ToWorkerOf(v, m)'
         /\ UNCHANGED mailbox => TasksOK'
<1>1. ~IsMethod(n)' /\ ~Direct(n)'
  BY BridgeAssumption DEF IsMethod, Direct
<1>2. pending \in [Workers -> SUBSET Issued'] /\ Issued \subseteq Issued'
  BY StillTyped DEF Extends
<1>3. Msg("invoke", n) \in Inbound(Issued')
  BY DEF Msg, Inbound
<1>4. /\ toWorker' \in [Workers -> Seq(Inbound(Issued'))]
      /\ \A v \in Workers : \A x \in Range(toWorker'[v]) :
           x \in Range(toWorker[v]) \/ (v = Home[f] /\ x = Msg("invoke", n))
  BY <1>2, <1>3, PostOne DEF InvokeWorkerCallback
<1>5. ToWorkerOf(Home[f], Msg("invoke", n))'
  BY <1>1 DEF ToWorkerOf, Msg, Requests
<1>6. /\ pending' \in [Workers -> SUBSET Issued']
      /\ \A w \in Workers : pending[w] \subseteq pending'[w]
      /\ \A w \in Workers : \A c \in pending'[w] : c \in pending[w] \/ (w = Home[f] /\ c = n)
  BY <1>2 DEF InvokeWorkerCallback
<1>7. ASSUME UNCHANGED mailbox
      PROVE  TasksOK'
  <2>1. \A a \in Actors : \A c \in Range(mailbox[a]) : Target(c)' = a /\ ~Direct(c)'
    <3>1. \A a \in Actors : Range(mailbox[a]) \subseteq Issued
      BY MailboxIs
    <3> QED
      BY <3>1 DEF TasksOK, Extends
  <2>2. \A w \in Workers : \A c \in pending[w] :
          /\ Side(c)' = w /\ ~Direct(c)' /\ (IsMethod(c)' <=> IsMethod(c)) /\ Target(c)' = Target(c)
          /\ IsMethod(c) => mailbox[Target(c)] # <<>> /\ Head(mailbox[Target(c)]) = c
    BY DEF TasksOK, Extends, Typed
  <2>3. \A a \in Actors : Home[a] \in Workers
    BY MailboxIs
  <2>4. \A a \in Actors : mailbox[a] # <<>> => Head(mailbox[a]) \in pending'[Home[a]]
    BY <1>6, <2>3 DEF TasksOK
  <2> QED
    BY <1>1, <1>6, <1>7, <2>1, <2>2, <2>4 DEF TasksOK
<1> QED
  BY <1>4, <1>5, <1>6, <1>7

\* mailboxes and requests stay in step when neither changes
LEMMA TasksKept ==
  ASSUME Typed, TasksOK, Extends, UNCHANGED <<mailbox, pending>>
  PROVE  TasksOK'
<1>1. \A a \in Actors : Range(mailbox[a]) \subseteq Issued
  BY MailboxIs
<1>2. \A w \in Workers : pending[w] \subseteq Issued
  BY DEF Typed
<1> QED
  BY <1>1, <1>2 DEF TasksOK, Extends

-----------------------------------------------------------------------------
(* Requests settle.                                                        *)

LEMMA OneEachConcat ==
  ASSUME NEW S, NEW s \in Seq(S), NEW t \in Seq(S), OneEach(s), OneEach(t),
         \A m \in Range(s), n \in Range(t) :
           m.call = n.call => ~(m.kind \in Requests <=> n.kind \in Requests)
  PROVE  OneEach(s \o t)
<1>1. /\ Len(s) \in Nat /\ DOMAIN s = 1..Len(s) /\ Len(t) \in Nat /\ DOMAIN t = 1..Len(t)
      /\ DOMAIN (s \o t) = 1..(Len(s) + Len(t))
      /\ \A i \in 1..(Len(s) + Len(t)) : (s \o t)[i] = IF i <= Len(s) THEN s[i] ELSE t[i - Len(s)]
  BY LenProperties, ConcatProperties
<1> DEFINE st == s \o t
           Alike(m, n) == m.call = n.call /\ (m.kind \in Requests <=> n.kind \in Requests)
<1> HIDE DEF st
<1>2. SUFFICES ASSUME NEW i \in DOMAIN st, NEW j \in DOMAIN st, Alike(st[i], st[j])
               PROVE  i = j
  BY DEF OneEach, st
<1>3. /\ i \in 1..(Len(s) + Len(t)) /\ j \in 1..(Len(s) + Len(t))
      /\ st[i] = IF i <= Len(s) THEN s[i] ELSE t[i - Len(s)]
      /\ st[j] = IF j <= Len(s) THEN s[j] ELSE t[j - Len(s)]
  BY <1>1 DEF st
<1>4. /\ \A k \in 1..Len(s), l \in 1..Len(t) : ~Alike(s[k], t[l]) /\ ~Alike(t[l], s[k])
      /\ \A k, l \in 1..Len(s) : Alike(s[k], s[l]) => k = l
      /\ \A k, l \in 1..Len(t) : Alike(t[k], t[l]) => k = l
  <2>1. \A k \in 1..Len(s) : s[k] \in Range(s)
    BY <1>1 DEF Range
  <2>2. \A l \in 1..Len(t) : t[l] \in Range(t)
    BY <1>1 DEF Range
  <2>3. /\ \A k, l \in 1..Len(s) : Alike(s[k], s[l]) => k = l
        /\ \A k, l \in 1..Len(t) : Alike(t[k], t[l]) => k = l
    BY <1>1 DEF OneEach
  <2> QED
    BY <2>1, <2>2, <2>3
<1> HIDE DEF Alike
<1>5. CASE i <= Len(s) /\ j <= Len(s)
  BY <1>1, <1>2, <1>3, <1>4, <1>5
<1>6. CASE i <= Len(s) /\ j > Len(s)
  BY <1>1, <1>2, <1>3, <1>4, <1>6
<1>7. CASE i > Len(s) /\ j <= Len(s)
  BY <1>1, <1>2, <1>3, <1>4, <1>7
<1>8. CASE i > Len(s) /\ j > Len(s)
  <2>1. i - Len(s) \in 1..Len(t) /\ j - Len(s) \in 1..Len(t)
    BY <1>1, <1>3, <1>8
  <2>2. Alike(t[i - Len(s)], t[j - Len(s)])
    BY <1>1, <1>2, <1>3, <1>8
  <2> QED
    BY <1>1, <1>3, <1>4, <2>1, <2>2
<1> QED
  BY <1>1, <1>3, <1>5, <1>6, <1>7, <1>8

\* one message for each call of a finite set
Posts(k, S) == [i \in DOMAIN SetToSeq(S) |-> Msg(k, SetToSeq(S)[i])]

LEMMA PostEach ==
  ASSUME NEW S, IsFiniteSet(S), NEW k, NEW port, port = Posts(k, S)
  PROVE  /\ port \in Seq([kind : {k}, call : S])
         /\ Range(port) = {Msg(k, c) : c \in S}
         /\ OneEach(port)
<1> DEFINE s == SetToSeq(S)
<1>0. port = [i \in DOMAIN s |-> Msg(k, s[i])]
  BY DEF Posts
<1>1. s \in Seq(S) /\ Range(s) = S /\ NoTwice(s)
  BY SetToSeqIsOnce
<1> HIDE DEF s
<1>2. Len(s) \in Nat /\ DOMAIN s = 1..Len(s)
  BY <1>1, LenProperties
<1>3. \A c : Msg(k, c).call = c /\ Msg(k, c).kind = k
  BY DEF Msg
<1>4. \A c \in S : Msg(k, c) \in [kind : {k}, call : S]
  BY DEF Msg
<1>5. \A i \in DOMAIN s : s[i] \in S
  BY <1>1 DEF Range
<1>6. port \in Seq([kind : {k}, call : S])
  BY <1>0, <1>2, <1>4, <1>5
<1>7. Range(port) = {Msg(k, c) : c \in S}
  BY <1>0, <1>1 DEF Range
<1>8. OneEach(port)
  BY <1>0, <1>1, <1>3 DEF OneEach, NoTwice
<1> QED
  BY <1>6, <1>7, <1>8

LEMMA NextTasksAre ==
  ASSUME Typed, TasksOK, NEW w \in Workers, NEW cs \in SUBSET pending[w]
  PROVE  /\ NextTasks(cs) \subseteq Issued
         /\ \A c \in NextTasks(cs) :
              /\ Target(c) \in Actors /\ Side(c) = w /\ ~Direct(c)
              /\ mailbox[Target(c)] # <<>> /\ Head(mailbox[Target(c)]) \in cs
              /\ Tail(mailbox[Target(c)]) # <<>> /\ c = Head(Tail(mailbox[Target(c)]))
         /\ \A a \in Actors :
              mailbox[a] # <<>> /\ Head(mailbox[a]) \in cs /\ Tail(mailbox[a]) # <<>>
              => Head(Tail(mailbox[a])) \in NextTasks(cs)
<1>1. ASSUME NEW a \in Actors, mailbox[a] # <<>>, Head(mailbox[a]) \in cs, NEW c \in Second(a)
      PROVE  /\ c \in Issued /\ Target(c) = a /\ Side(c) = w /\ ~Direct(c)
             /\ Tail(mailbox[a]) # <<>> /\ c = Head(Tail(mailbox[a]))
  <2>1. Len(mailbox[a]) > 1 /\ c = mailbox[a][2]
    BY <1>1 DEF Second
  <2>2. Tail(mailbox[a]) # <<>> /\ c = Head(Tail(mailbox[a])) /\ c \in Range(mailbox[a])
    BY <1>1, <2>1, MailboxIs
  <2>3. c \in Issued /\ Target(c) = a /\ ~Direct(c)
    BY <2>2, MailboxIs DEF TasksOK
  <2>4. Head(mailbox[a]) \in Issued /\ Target(Head(mailbox[a])) = a /\ Side(Head(mailbox[a])) = w
    BY <1>1, MailboxIs DEF TasksOK
  <2>5. Side(c) = w
    BY <2>3, <2>4, IssuedIs DEF Side
  <2> QED
    BY <2>2, <2>3, <2>5
<1>2. \A a \in Actors :
        mailbox[a] # <<>> /\ Tail(mailbox[a]) # <<>> => Second(a) = {Head(Tail(mailbox[a]))}
  BY MailboxIs DEF Second
<1>3. \A c : c \in NextTasks(cs) <=>
        \E a \in Actors : mailbox[a] # <<>> /\ Head(mailbox[a]) \in cs /\ c \in Second(a)
  BY DEF NextTasks
<1> QED
  BY <1>1, <1>2, <1>3

\* what is posted when requests settle: results to their callers, and the
\* requests of the tasks whose turn it is to the worker
PostedAt(w, cs, posted) ==
  \A v \in Workers :
    /\ posted[v] \in Seq(Inbound(Issued)) /\ OneEach(posted[v])
    /\ \A m \in Range(posted[v]) :
         \/ m.kind = "result" /\ m.call \in cs /\ Caller(m.call) = v
         \/ m.kind = "call" /\ m.call \in NextTasks(cs) /\ v = w
    /\ \A c \in cs : Caller(c) = v => Msg("result", c) \in Range(posted[v])
    /\ v = w => \A c \in NextTasks(cs) : Msg("call", c) \in Range(posted[v])

LEMMA SettlePosts ==
  ASSUME Typed, TasksOK, NEW w \in Workers, NEW cs \in SUBSET pending[w], NEW ph, Settle(w, cs, ph)
  PROVE  \E posted : DeliverIn(phase', posted) /\ PostedAt(w, cs, posted)
<1> DEFINE start == LET s == SetToSeq(NextTasks(cs)) IN [i \in DOMAIN s |-> Msg("call", s[i])]
           posted == [v \in Workers |-> Results(cs, v) \o (IF v # w THEN <<>> ELSE start)]
<1>1. DeliverIn(phase', posted)
  BY DEF Settle
<1>2. /\ IsFiniteSet(NextTasks(cs)) /\ NextTasks(cs) \subseteq Issued
      /\ \A v : IsFiniteSet({c \in cs : Caller(c) = v}) /\ cs \subseteq Issued
  <2>1. cs \in SUBSET Issued
    BY DEF Typed
  <2>2. NextTasks(cs) \in SUBSET Issued
    BY NextTasksAre
  <2>3. \A v : {c \in cs : Caller(c) = v} \in SUBSET Issued
    BY <2>1
  <2> QED
    BY <2>1, <2>2, <2>3, IssuedIs, FS_Subset
<1>3. /\ start \in Seq([kind : {"call"}, call : NextTasks(cs)]) /\ OneEach(start)
      /\ Range(start) = {Msg("call", c) : c \in NextTasks(cs)}
  <2> DEFINE T == NextTasks(cs)
  <2>1. start = Posts("call", T) /\ IsFiniteSet(T)
    BY <1>2 DEF Posts
  <2> HIDE DEF start, T
  <2>2. /\ start \in Seq([kind : {"call"}, call : T]) /\ OneEach(start)
        /\ Range(start) = {Msg("call", c) : c \in T}
    BY <2>1, PostEach
  <2> QED
    BY <2>2 DEF T
<1>4. ASSUME NEW v \in Workers
      PROVE  /\ Results(cs, v) \in Seq([kind : {"result"}, call : {c \in cs : Caller(c) = v}])
             /\ OneEach(Results(cs, v))
             /\ Range(Results(cs, v)) = {Msg("result", c) : c \in {d \in cs : Caller(d) = v}}
  <2> DEFINE T == {c \in cs : Caller(c) = v}
             r == Results(cs, v)
  <2>1. r = Posts("result", T) /\ IsFiniteSet(T)
    BY <1>2 DEF Results, Posts
  <2> HIDE DEF r, T
  <2>2. /\ r \in Seq([kind : {"result"}, call : T]) /\ OneEach(r)
        /\ Range(r) = {Msg("result", c) : c \in T}
    BY <2>1, PostEach
  <2> QED
    BY <2>2 DEF T, r
<1>5. \A k, c : Msg(k, c).kind = k /\ Msg(k, c).call = c
  BY DEF Msg
<1> HIDE DEF start
<1>6. ASSUME NEW v \in Workers
      PROVE  /\ posted[v] \in Seq(Inbound(Issued)) /\ OneEach(posted[v])
             /\ \A m \in Range(posted[v]) :
                  \/ m.kind = "result" /\ m.call \in cs /\ Caller(m.call) = v
                  \/ m.kind = "call" /\ m.call \in NextTasks(cs) /\ v = w
             /\ \A c \in cs : Caller(c) = v => Msg("result", c) \in Range(posted[v])
             /\ v = w => \A c \in NextTasks(cs) : Msg("call", c) \in Range(posted[v])
  <2> DEFINE r == Results(cs, v)
             t == IF v # w THEN <<>> ELSE start
  <2>1. posted[v] = r \o t
    OBVIOUS
  <2>2. r \in Seq(Inbound(Issued)) /\ t \in Seq(Inbound(Issued))
    <3>1. [kind : {"call"}, call : NextTasks(cs)] \subseteq Inbound(Issued)
      BY <1>2 DEF Inbound
    <3>2. [kind : {"result"}, call : {c \in cs : Caller(c) = v}] \subseteq Inbound(Issued)
      BY <1>2 DEF Inbound
    <3>3. start \in Seq(Inbound(Issued)) /\ <<>> \in Seq(Inbound(Issued))
      BY <1>3, <3>1, SeqMonotonic, EmptySeq
    <3>4. r \in Seq(Inbound(Issued))
      BY <1>4, <3>2, SeqMonotonic
    <3> QED
      BY <3>3, <3>4
  <2>3. OneEach(t) /\ (v # w => Range(t) = {}) /\ (v = w => Range(t) = Range(start))
    BY <1>3 DEF OneEach, Range
  <2>4. OneEach(r) /\ Range(r) = {Msg("result", c) : c \in {d \in cs : Caller(d) = v}}
    BY <1>4
  <2> HIDE DEF posted, r, t
  <2>5. /\ posted[v] \in Seq(Inbound(Issued))
        /\ Range(posted[v]) = Range(r) \cup Range(t)
    BY <2>1, <2>2, ConcatProperties, RangeConcatenation
  <2>6. \A m \in Range(r), n \in Range(t) :
          m.call = n.call => ~(m.kind \in Requests <=> n.kind \in Requests)
    BY <1>3, <1>5, <2>3, <2>4 DEF Requests
  <2>7. OneEach(posted[v])
    BY <2>1, <2>2, <2>3, <2>4, <2>6, OneEachConcat
  <2>8. \A m \in Range(posted[v]) :
          \/ m.kind = "result" /\ m.call \in cs /\ Caller(m.call) = v
          \/ m.kind = "call" /\ m.call \in NextTasks(cs) /\ v = w
    BY <1>3, <1>5, <2>3, <2>4, <2>5
  <2>9. /\ \A c \in cs : Caller(c) = v => Msg("result", c) \in Range(posted[v])
        /\ v = w => \A c \in NextTasks(cs) : Msg("call", c) \in Range(posted[v])
    BY <1>3, <2>3, <2>4, <2>5
  <2> QED
    BY <2>5, <2>7, <2>8, <2>9
<1> HIDE DEF posted
<1>7. PostedAt(w, cs, posted)
  BY <1>6 DEF PostedAt
<1> QED
  BY <1>1, <1>7

LEMMA SettleKeeps ==
  ASSUME Typed, CallsOK, TasksOK, NEW w \in Workers, NEW cs \in SUBSET pending[w],
         NEW ph \in {"open", "draining", "stopped"}, Settle(w, cs, ph)
  PROVE  /\ calls' \in Seq(Call) /\ Len(calls') = Len(calls) /\ Issued' = Issued
         /\ Extends /\ CallsOK'
         /\ phase' \in [Workers -> {"open", "draining", "stopped"}]
         /\ mailbox' \in [Actors -> Seq(Issued')]
         /\ pending' \in [Workers -> SUBSET Issued']
         /\ toWorker' \in [Workers -> Seq(Inbound(Issued'))]
         /\ running' \subseteq Issued'
         /\ \A v \in Workers : \A m \in Range(toWorker'[v]) : m \in Range(toWorker[v]) \/ ToWorkerOf(v, m)'
         /\ TasksOK'
<1>1. /\ calls' \in Seq(Call) /\ Len(calls') = Len(calls) /\ Issued' = Issued
      /\ Extends /\ CallsOK'
  BY CallsSettled DEF Settle
<1>2. phase' \in [Workers -> {"open", "draining", "stopped"}] /\ running' \subseteq Issued'
  BY <1>1 DEF Settle, Typed
<1>3. \A a \in Actors :
        /\ mailbox'[a] = IF mailbox[a] # <<>> /\ Head(mailbox[a]) \in cs
                         THEN Tail(mailbox[a]) ELSE mailbox[a]
        /\ mailbox'[a] \in Seq(Issued) /\ Range(mailbox'[a]) \subseteq Range(mailbox[a])
  BY MailboxIs DEF Settle
<1>4. mailbox' \in [Actors -> Seq(Issued')]
  BY <1>1, <1>3 DEF Settle
<1>5. cs \subseteq Issued /\ \A c \in cs : Side(c) = w /\ ~Direct(c)
  BY DEF Typed, TasksOK
<1>6. pending' = [pending EXCEPT ![w] = (@ \ cs) \cup NextTasks(cs)]
  BY DEF Settle
<1>7. pending' \in [Workers -> SUBSET Issued']
  <2>1. NextTasks(cs) \subseteq Issued
    BY NextTasksAre
  <2> QED
    BY <1>1, <1>6, <2>1 DEF Typed
<1>8. /\ \A c \in pending'[w] : c \in pending[w] \ cs \/ c \in NextTasks(cs)
      /\ \A c \in pending[w] \ cs : c \in pending'[w]
      /\ \A c \in NextTasks(cs) : c \in pending'[w]
      /\ \A v \in Workers \ {w} : pending'[v] = pending[v]
  BY <1>6 DEF Typed
<1>9. /\ toWorker' \in [Workers -> Seq(Inbound(Issued'))]
      /\ \A v \in Workers : \A m \in Range(toWorker'[v]) : m \in Range(toWorker[v]) \/ ToWorkerOf(v, m)'
  <2>1. PICK posted : DeliverIn(phase', posted) /\ PostedAt(w, cs, posted)
    BY SettlePosts
  <2>2. /\ toWorker' \in [Workers -> Seq(Inbound(Issued'))]
        /\ \A v \in Workers : Range(toWorker'[v]) \subseteq Range(toWorker[v]) \cup Range(posted[v])
    BY <1>1, <2>1, Delivered DEF PostedAt
  <2>3. \A c \in NextTasks(cs) : c \in Issued /\ Side(c) = w /\ ~Direct(c)
    BY NextTasksAre
  <2>4. ASSUME NEW v \in Workers, NEW m \in Range(posted[v])
        PROVE  ToWorkerOf(v, m)'
    BY <1>1, <1>5, <2>1, <2>3 DEF PostedAt, ToWorkerOf, Requests, Extends
  <2> QED
    BY <2>2, <2>4
<1>10. \A a \in Actors :
         /\ \A c \in Range(mailbox'[a]) : Target(c)' = a /\ ~Direct(c)'
         /\ mailbox'[a] # <<>> => Head(mailbox'[a]) \in pending'[Home[a]]
  <2> TAKE a \in Actors
  <2>1. \A c \in Range(mailbox'[a]) : Target(c)' = a /\ ~Direct(c)'
    <3>1. \A c \in Range(mailbox[a]) : c \in Issued /\ Target(c) = a /\ ~Direct(c)
      BY MailboxIs DEF TasksOK
    <3> QED
      BY <1>1, <1>3, <3>1 DEF Extends
  <2>2. mailbox[a] # <<>> =>
          /\ Head(mailbox[a]) \in pending[Home[a]] /\ Home[a] \in Workers
          /\ Side(Head(mailbox[a])) = Home[a]
    BY MailboxIs DEF TasksOK
  <2>3. CASE mailbox[a] # <<>> /\ Head(mailbox[a]) \in cs
    <3>1. Home[a] = w
      BY <1>5, <2>2, <2>3
    <3>2. mailbox'[a] = Tail(mailbox[a])
      BY <1>3, <2>3
    <3>3. Tail(mailbox[a]) # <<>> => Head(Tail(mailbox[a])) \in NextTasks(cs)
      BY <2>3, NextTasksAre
    <3> QED
      BY <1>8, <2>1, <3>1, <3>2, <3>3
  <2>4. CASE ~(mailbox[a] # <<>> /\ Head(mailbox[a]) \in cs)
    <3>1. mailbox'[a] = mailbox[a]
      BY <1>3, <2>4
    <3> QED
      BY <1>8, <2>1, <2>2, <2>4, <3>1
  <2> QED
    BY <2>3, <2>4
<1>11. \A v \in Workers : \A c \in pending'[v] :
         /\ Side(c)' = v /\ ~Direct(c)'
         /\ IsMethod(c)' => mailbox'[Target(c)'] # <<>> /\ Head(mailbox'[Target(c)']) = c
  <2> TAKE v \in Workers
  <2> TAKE c \in pending'[v]
  <2>1. CASE c \in pending[v] /\ c \notin cs
    <3>1. /\ c \in Issued /\ Side(c) = v /\ ~Direct(c)
          /\ IsMethod(c) => mailbox[Target(c)] # <<>> /\ Head(mailbox[Target(c)]) = c
      BY <2>1 DEF Typed, TasksOK
    <3>2. IsMethod(c) => mailbox'[Target(c)] = mailbox[Target(c)]
      BY <1>3, <2>1, <3>1 DEF IsMethod
    <3> QED
      BY <1>1, <3>1, <3>2 DEF Extends
  <2>2. CASE v = w /\ c \in NextTasks(cs)
    <3>1. /\ c \in Issued /\ Target(c) \in Actors /\ Side(c) = w /\ ~Direct(c)
          /\ mailbox[Target(c)] # <<>> /\ Head(mailbox[Target(c)]) \in cs
          /\ Tail(mailbox[Target(c)]) # <<>> /\ c = Head(Tail(mailbox[Target(c)]))
      BY <2>2, NextTasksAre
    <3>2. mailbox'[Target(c)] = Tail(mailbox[Target(c)])
      BY <1>3, <3>1
    <3> QED
      BY <1>1, <2>2, <3>1, <3>2 DEF Extends
  <2>3. v # w => c \notin cs
    BY <1>5, <1>8 DEF TasksOK
  <2> QED
    BY <1>8, <2>1, <2>2, <2>3
<1>12. TasksOK'
  BY <1>10, <1>11 DEF TasksOK
<1> QED
  BY <1>1, <1>2, <1>4, <1>7, <1>9, <1>12

-----------------------------------------------------------------------------
(* Each action keeps the invariant.                                         *)

LEMMA HeadOfHost ==
  ASSUME Typed, RoutesOK, NEW w \in Workers, toHost[w] # <<>>,
         toHost' = [toHost EXCEPT ![w] = Tail(@)]
  PROVE  /\ Head(toHost[w]) \in Outbound(Issued) /\ Head(toHost[w]) \in Range(toHost[w])
         /\ FromWorker(w, Head(toHost[w]))
         /\ toHost' \in [Workers -> Seq(Outbound(Issued))]
         /\ \A v \in Workers : Range(toHost'[v]) \subseteq Range(toHost[v])
<1>1. toHost[w] \in Seq(Outbound(Issued)) /\ toHost \in [Workers -> Seq(Outbound(Issued))]
  BY DEF Typed, Outbound
<1>2. /\ Tail(toHost[w]) \in Seq(Outbound(Issued)) /\ Head(toHost[w]) \in Outbound(Issued)
      /\ Head(toHost[w]) \in Range(toHost[w]) /\ Range(Tail(toHost[w])) \subseteq Range(toHost[w])
  BY <1>1, TailIs
<1>3. toHost'[w] = Tail(toHost[w]) /\ \A v \in Workers \ {w} : toHost'[v] = toHost[v]
  BY <1>1
<1> QED
  BY <1>1, <1>2, <1>3 DEF RoutesOK

LEMMA HeadOfWorker ==
  ASSUME Typed, RoutesOK, NEW w \in Workers, toWorker[w] # <<>>,
         toWorker' = [toWorker EXCEPT ![w] = Tail(@)]
  PROVE  /\ Head(toWorker[w]) \in Inbound(Issued) /\ Head(toWorker[w]) \in Range(toWorker[w])
         /\ ToWorkerOf(w, Head(toWorker[w]))
         /\ toWorker' \in [Workers -> Seq(Inbound(Issued))]
         /\ \A v \in Workers : Range(toWorker'[v]) \subseteq Range(toWorker[v])
<1>1. toWorker[w] \in Seq(Inbound(Issued)) /\ toWorker \in [Workers -> Seq(Inbound(Issued))]
  BY DEF Typed, Inbound
<1>2. /\ Tail(toWorker[w]) \in Seq(Inbound(Issued)) /\ Head(toWorker[w]) \in Inbound(Issued)
      /\ Head(toWorker[w]) \in Range(toWorker[w]) /\ Range(Tail(toWorker[w])) \subseteq Range(toWorker[w])
  BY <1>1, TailIs
<1>3. toWorker'[w] = Tail(toWorker[w]) /\ \A v \in Workers \ {w} : toWorker'[v] = toWorker[v]
  BY <1>1
<1> QED
  BY <1>1, <1>2, <1>3 DEF RoutesOK

LEMMA HostCallsKeeps ==
  ASSUME Typed, BridgeInv, NEW p \in {User} \cup running, NEW a \in Actors, HostCalls(p, a)
  PROVE  Typed' /\ BridgeInv'
<1>0. CallsOK /\ RoutesOK /\ TasksOK /\ IsFiniteSet(crashed) /\ p \in {User} \cup Issued
  BY DEF BridgeInv, Typed
<1>1. PICK s \in BOOLEAN : Begins(p, a, s)
  BY DEF HostCalls
<1>2. Side(p) = Host /\ Home[a] # Host /\ Host \notin Workers /\ Home[a] \in Workers
  BY BridgeAssumption DEF HostCalls, Sides
<1>3. Enqueue(New, a) \/ UNCHANGED <<mailbox, pending, toWorker>>
  BY DEF HostCalls
<1>4. PICK n : n = New
  OBVIOUS
<1>5. /\ calls' \in Seq(Call) /\ Len(calls') <= MaxCalls
      /\ Issued' = Issued \cup {n} /\ n \notin Issued /\ Extends /\ CallsOK'
      /\ Target(n)' = a /\ Side(n)' = Home[a] /\ Caller(n)' = Side(p)
  BY <1>0, <1>1, <1>2, <1>4, CallMade
<1>6. UNCHANGED <<callTimeout, phase, crashed, notices, toHost, running>>
  BY <1>1 DEF HostCalls, Begins
<1>7. /\ mailbox' \in [Actors -> Seq(Issued')]
      /\ pending' \in [Workers -> SUBSET Issued']
      /\ toWorker' \in [Workers -> Seq(Inbound(Issued'))]
      /\ \A v \in Workers : \A m \in Range(toWorker'[v]) : m \in Range(toWorker[v]) \/ ToWorkerOf(v, m)'
      /\ TasksOK'
  <2>1. CASE Enqueue(New, a)
    <3>1. ~Direct(n)'
      BY <1>2, <1>5 DEF Direct
    <3> QED
      BY <1>0, <1>4, <1>5, <2>1, <3>1, TaskAdded
  <2>2. CASE UNCHANGED <<mailbox, pending, toWorker>>
    BY <1>0, <1>5, <2>2, TasksKept, StillTyped DEF Extends
  <2> QED
    BY <1>3, <2>1, <2>2
<1>8. toHost' \in [Workers -> Seq(Outbound(Issued'))] /\ running' \subseteq Issued'
  BY <1>5, <1>6, StillTyped DEF Extends
<1>9. RoutesOK'
  BY <1>0, <1>5, <1>6, <1>7, RoutesKept
<1>10. Typed'
  BY <1>5, <1>6, <1>7, <1>8 DEF Typed, Inbound, Outbound
<1> QED
  BY <1>0, <1>5, <1>6, <1>7, <1>9, <1>10 DEF BridgeInv

LEMMA HostInvokesKeeps ==
  ASSUME Typed, BridgeInv, NEW p \in {User} \cup running, NEW f \in Functions, HostInvokes(p, f)
  PROVE  Typed' /\ BridgeInv'
<1>0. CallsOK /\ RoutesOK /\ TasksOK /\ IsFiniteSet(crashed) /\ p \in {User} \cup Issued
  BY DEF BridgeInv, Typed
<1>1. Begins(p, f, FALSE) /\ Home[f] # Host /\ Home[f] \in Workers
  BY BridgeAssumption DEF HostInvokes, Sides
<1>2. PICK n : n = New
  OBVIOUS
<1>3. /\ calls' \in Seq(Call) /\ Len(calls') <= MaxCalls
      /\ Issued' = Issued \cup {n} /\ n \notin Issued /\ Extends /\ CallsOK'
      /\ Target(n)' = f /\ Side(n)' = Home[f] /\ Caller(n)' = Side(p)
  BY <1>0, <1>1, <1>2, CallMade
<1>4. UNCHANGED <<callTimeout, phase, crashed, notices, toHost, running, mailbox>>
  BY <1>1 DEF HostInvokes, Begins
<1>5. InvokeWorkerCallback(n, f)
  BY <1>2 DEF HostInvokes
<1>6. /\ pending' \in [Workers -> SUBSET Issued']
      /\ toWorker' \in [Workers -> Seq(Inbound(Issued'))]
      /\ \A v \in Workers : \A m \in Range(toWorker'[v]) : m \in Range(toWorker[v]) \/ ToWorkerOf(v, m)'
      /\ TasksOK'
  BY <1>0, <1>1, <1>3, <1>4, <1>5, CallbackAsked
<1>7. /\ toHost' \in [Workers -> Seq(Outbound(Issued'))] /\ running' \subseteq Issued'
      /\ mailbox' \in [Actors -> Seq(Issued')]
  BY <1>3, <1>4, StillTyped DEF Extends
<1>8. RoutesOK'
  BY <1>0, <1>3, <1>4, <1>6, RoutesKept
<1>9. Typed'
  BY <1>3, <1>4, <1>6, <1>7 DEF Typed, Inbound, Outbound
<1> QED
  BY <1>0, <1>3, <1>4, <1>6, <1>8, <1>9 DEF BridgeInv

LEMMA StubCallsKeeps ==
  ASSUME Typed, BridgeInv, NEW p \in {User} \cup running, NEW t \in Actors \cup Functions,
         StubCalls(p, t)
  PROVE  Typed' /\ BridgeInv'
<1>0. CallsOK /\ RoutesOK /\ TasksOK /\ IsFiniteSet(crashed) /\ p \in {User} \cup Issued
  BY DEF BridgeInv, Typed
<1>1. Begins(p, t, FALSE) /\ Side(p) # Host /\ (t \in Actors => Home[t] # Side(p))
  BY DEF StubCalls
<1>2. PICK n : n = New
  OBVIOUS
<1>3. /\ calls' \in Seq(Call) /\ Len(calls') <= MaxCalls
      /\ Issued' = Issued \cup {n} /\ n \notin Issued /\ Extends /\ CallsOK'
      /\ Target(n)' = t /\ Side(n)' = Home[t] /\ Caller(n)' = Side(p)
  BY <1>0, <1>1, <1>2, CallMade
<1>4. UNCHANGED <<callTimeout, phase, crashed, notices, running, mailbox, pending, toWorker>>
  BY <1>1 DEF StubCalls, Begins
<1>5. PICK w \in Workers : w = Side(p)
  <2>1. p \in Issued /\ Side(p) \in Sides
    BY <1>0, <1>1, SidesAre DEF Side
  <2> QED
    BY <1>1, <2>1 DEF Sides
<1>6. PICK m : m = Msg(IF t \in Actors THEN "call" ELSE "invoke", n)
  OBVIOUS
<1>7. toHost' = [toHost EXCEPT ![w] = Append(@, m)]
  BY <1>2, <1>5, <1>6 DEF StubCalls, WorkerPosts
<1>8. m \in Outbound(Issued') /\ FromWorker(w, m)'
  <2>1. m.call = n /\ m.kind = IF t \in Actors THEN "call" ELSE "invoke"
    BY <1>6 DEF Msg
  <2>2. m \in Outbound(Issued')
    BY <1>3, <1>6 DEF Msg, Outbound
  <2>3. (IsMethod(n)' <=> t \in Actors) /\ ~Direct(n)'
    BY <1>1, <1>3 DEF IsMethod, Direct
  <2> QED
    BY <1>3, <1>5, <2>1, <2>2, <2>3 DEF FromWorker
<1>9. /\ toHost \in [Workers -> Seq(Outbound(Issued'))] /\ running' \subseteq Issued'
      /\ mailbox' \in [Actors -> Seq(Issued')] /\ pending' \in [Workers -> SUBSET Issued']
      /\ toWorker' \in [Workers -> Seq(Inbound(Issued'))]
  BY <1>3, <1>4, StillTyped DEF Extends
<1>10. /\ Append(toHost[w], m) \in Seq(Outbound(Issued'))
       /\ Range(Append(toHost[w], m)) = Range(toHost[w]) \cup {m}
  BY <1>8, <1>9, AppendIs
<1>11. /\ toHost' \in [Workers -> Seq(Outbound(Issued'))]
       /\ \A v \in Workers : \A x \in Range(toHost'[v]) : x \in Range(toHost[v]) \/ FromWorker(v, x)'
  BY <1>7, <1>8, <1>9, <1>10
<1>12. RoutesOK'
  BY <1>0, <1>3, <1>4, <1>11, RoutesKept
<1>13. Typed'
  BY <1>3, <1>4, <1>9, <1>11 DEF Typed, Inbound, Outbound
<1>14. TasksOK'
  BY <1>0, <1>3, <1>4, TasksKept
<1> QED
  BY <1>0, <1>3, <1>4, <1>12, <1>13, <1>14 DEF BridgeInv

LEMMA DirectCallsKeeps ==
  ASSUME Typed, BridgeInv, NEW p \in {User} \cup running, NEW a \in Actors, DirectCalls(p, a)
  PROVE  Typed' /\ BridgeInv'
<1>0. CallsOK /\ RoutesOK /\ TasksOK /\ IsFiniteSet(crashed) /\ p \in {User} \cup Issued
  BY DEF BridgeInv, Typed
<1>1. Begins(p, a, FALSE) /\ Home[a] # Host
  BY BridgeAssumption DEF DirectCalls
<1>2. PICK n : n = New
  OBVIOUS
<1>3. /\ calls' \in Seq(Call) /\ Len(calls') <= MaxCalls
      /\ Issued' = Issued \cup {n} /\ n \notin Issued /\ Extends /\ CallsOK'
  BY <1>0, <1>1, <1>2, CallMade
<1>4. UNCHANGED <<callTimeout, phase, crashed, notices, mailbox, pending, toWorker, toHost>>
  BY <1>1 DEF DirectCalls, Begins
<1>5. running' = running \cup {n}
  BY <1>2 DEF DirectCalls
<1>6. /\ toHost' \in [Workers -> Seq(Outbound(Issued'))] /\ running' \subseteq Issued'
      /\ mailbox' \in [Actors -> Seq(Issued')] /\ pending' \in [Workers -> SUBSET Issued']
      /\ toWorker' \in [Workers -> Seq(Inbound(Issued'))]
  BY <1>3, <1>4, <1>5, StillTyped DEF Extends
<1>7. RoutesOK' /\ TasksOK'
  BY <1>0, <1>3, <1>4, RoutesKept, TasksKept
<1>8. Typed'
  BY <1>3, <1>4, <1>6 DEF Typed, Inbound, Outbound
<1> QED
  BY <1>0, <1>3, <1>4, <1>7, <1>8 DEF BridgeInv

LEMMA HandleBridgeCallKeeps ==
  ASSUME Typed, BridgeInv, NEW w \in Workers, HandleBridgeCall(w)
  PROVE  Typed' /\ BridgeInv'
<1>0. CallsOK /\ RoutesOK /\ TasksOK /\ IsFiniteSet(crashed)
  BY DEF BridgeInv
<1>1. PICK c : c = Head(toHost[w]).call
  OBVIOUS
<1>2. /\ toHost[w] # <<>> /\ Head(toHost[w]).kind = "call"
      /\ toHost' = [toHost EXCEPT ![w] = Tail(@)]
      /\ UNCHANGED <<callTimeout, crashed, notices, calls, phase, running>>
      /\ \/ Enqueue(c, Target(c))
         \/ Deliver(Only(w, <<Msg("result", c)>>)) /\ UNCHANGED <<mailbox, pending>>
  BY <1>1 DEF HandleBridgeCall, Take
<1>3. /\ c \in Issued /\ IsMethod(c) /\ Caller(c) = w /\ ~Direct(c)
      /\ toHost' \in [Workers -> Seq(Outbound(Issued))]
      /\ \A v \in Workers : Range(toHost'[v]) \subseteq Range(toHost[v])
  BY <1>0, <1>1, <1>2, HeadOfHost DEF Outbound, FromWorker
<1>4. Extends /\ CallsOK' /\ Issued' = Issued
  BY <1>0, <1>2, SameCalls
<1>5. /\ mailbox' \in [Actors -> Seq(Issued')]
      /\ pending' \in [Workers -> SUBSET Issued']
      /\ toWorker' \in [Workers -> Seq(Inbound(Issued'))]
      /\ \A v \in Workers : \A m \in Range(toWorker'[v]) : m \in Range(toWorker[v]) \/ ToWorkerOf(v, m)'
      /\ TasksOK'
  <2>1. CASE Enqueue(c, Target(c))
    <3>1. PICK a \in Actors : a = Target(c)
      BY <1>3 DEF IsMethod
    <3>2. Target(c)' = a /\ Side(c)' = Home[a] /\ ~Direct(c)'
      BY <1>0, <1>3, <1>4, <3>1, SidesAre DEF Extends
    <3> QED
      BY <1>0, <1>3, <1>4, <2>1, <3>1, <3>2, TaskAdded
  <2>2. CASE Deliver(Only(w, <<Msg("result", c)>>)) /\ UNCHANGED <<mailbox, pending>>
    <3>1. PICK m : m = Msg("result", c)
      OBVIOUS
    <3>2. m \in Inbound(Issued') /\ ToWorkerOf(w, m)'
      BY <1>3, <1>4, <3>1 DEF Msg, Inbound, ToWorkerOf, Requests, Extends
    <3>3. /\ toWorker' \in [Workers -> Seq(Inbound(Issued'))]
          /\ \A v \in Workers : \A x \in Range(toWorker'[v]) :
               x \in Range(toWorker[v]) \/ (v = w /\ x = m)
      BY <1>4, <2>2, <3>1, <3>2, PostOne
    <3>4. mailbox' \in [Actors -> Seq(Issued')] /\ pending' \in [Workers -> SUBSET Issued']
      BY <1>4, <2>2, StillTyped
    <3> QED
      BY <1>0, <1>4, <2>2, <3>2, <3>3, <3>4, TasksKept
  <2> QED
    BY <1>2, <2>1, <2>2
<1>6. RoutesOK'
  BY <1>0, <1>3, <1>4, <1>5, RoutesKept
<1>7. Typed'
  BY <1>2, <1>3, <1>4, <1>5 DEF Typed, Inbound, Outbound
<1> QED
  BY <1>0, <1>2, <1>4, <1>5, <1>6, <1>7 DEF BridgeInv

LEMMA HandleBridgeCallbackInvokeKeeps ==
  ASSUME Typed, BridgeInv, NEW w \in Workers, HandleBridgeCallbackInvoke(w)
  PROVE  Typed' /\ BridgeInv'
<1>0. CallsOK /\ RoutesOK /\ TasksOK /\ IsFiniteSet(crashed)
  BY DEF BridgeInv
<1>1. PICK c : c = Head(toHost[w]).call
  OBVIOUS
<1>2. /\ toHost[w] # <<>> /\ Head(toHost[w]).kind = "invoke"
      /\ toHost' = [toHost EXCEPT ![w] = Tail(@)]
      /\ UNCHANGED <<callTimeout, crashed, notices, calls, mailbox, phase>>
      /\ \/ running' = running \cup {c} /\ UNCHANGED <<pending, toWorker>>
         \/ Side(c) # Host /\ InvokeWorkerCallback(c, Target(c)) /\ UNCHANGED running
  BY <1>1 DEF HandleBridgeCallbackInvoke, Take
<1>3. /\ c \in Issued /\ ~IsMethod(c) /\ Caller(c) = w
      /\ toHost' \in [Workers -> Seq(Outbound(Issued))]
      /\ \A v \in Workers : Range(toHost'[v]) \subseteq Range(toHost[v])
  BY <1>0, <1>1, <1>2, HeadOfHost DEF Outbound, FromWorker
<1>4. Extends /\ CallsOK' /\ Issued' = Issued
  BY <1>0, <1>2, SameCalls
<1>5. /\ pending' \in [Workers -> SUBSET Issued']
      /\ toWorker' \in [Workers -> Seq(Inbound(Issued'))]
      /\ \A v \in Workers : \A m \in Range(toWorker'[v]) : m \in Range(toWorker[v]) \/ ToWorkerOf(v, m)'
      /\ running' \subseteq Issued'
      /\ TasksOK'
  <2>1. CASE running' = running \cup {c} /\ UNCHANGED <<pending, toWorker>>
    <3>1. TasksOK'
      BY <1>0, <1>2, <1>4, <2>1, TasksKept
    <3> QED
      BY <1>3, <1>4, <2>1, <3>1, StillTyped
  <2>2. CASE Side(c) # Host /\ InvokeWorkerCallback(c, Target(c)) /\ UNCHANGED running
    <3>1. PICK f \in Functions : f = Target(c)
      BY <1>3, IssuedIs DEF IsMethod
    <3>2. Side(c) = Home[f] /\ Home[f] \in Workers
      BY <1>0, <1>3, <2>2, <3>1, SidesAre DEF Sides
    <3>3. Target(c)' = f /\ Side(c)' = Home[f]
      BY <1>3, <1>4, <3>1, <3>2 DEF Extends
    <3>4. running' \subseteq Issued'
      BY <1>4, <2>2 DEF Typed
    <3> QED
      BY <1>0, <1>2, <1>3, <1>4, <2>2, <3>1, <3>2, <3>3, <3>4, CallbackAsked
  <2> QED
    BY <1>2, <2>1, <2>2
<1>6. RoutesOK'
  BY <1>0, <1>3, <1>4, <1>5, RoutesKept
<1>7. Typed'
  BY <1>2, <1>3, <1>4, <1>5 DEF Typed, Inbound, Outbound
<1> QED
  BY <1>0, <1>2, <1>4, <1>5, <1>6, <1>7 DEF BridgeInv

\* a step that settles requests, and takes nothing or an answer from a port to
\* the host
LEMMA SettlingKeeps ==
  ASSUME Typed, BridgeInv, NEW w \in Workers, NEW cs \in SUBSET pending[w], NEW left,
         NEW stay, Settle(w, cs, PhaseAfter(w, left, stay)), UNCHANGED <<callTimeout, crashed>>, notices' \subseteq notices,
         toHost' \in [Workers -> Seq(Outbound(Issued))],
         \A v \in Workers : Range(toHost'[v]) \subseteq Range(toHost[v])
  PROVE  Typed' /\ BridgeInv'
<1>0. CallsOK /\ RoutesOK /\ TasksOK /\ IsFiniteSet(crashed)
  BY DEF BridgeInv
<1>1. PICK ph \in {"open", "draining", "stopped"} : Settle(w, cs, ph)
  BY DEF PhaseAfter, Typed
<1>2. /\ calls' \in Seq(Call) /\ Len(calls') = Len(calls) /\ Issued' = Issued
      /\ Extends /\ CallsOK'
      /\ phase' \in [Workers -> {"open", "draining", "stopped"}]
      /\ mailbox' \in [Actors -> Seq(Issued')]
      /\ pending' \in [Workers -> SUBSET Issued']
      /\ toWorker' \in [Workers -> Seq(Inbound(Issued'))]
      /\ running' \subseteq Issued'
      /\ \A v \in Workers : \A m \in Range(toWorker'[v]) : m \in Range(toWorker[v]) \/ ToWorkerOf(v, m)'
      /\ TasksOK'
  BY <1>0, <1>1, SettleKeeps
<1>3. RoutesOK'
  BY <1>0, <1>2, RoutesKept
<1>4. Typed'
  BY <1>2 DEF Typed, Inbound, Outbound
<1> QED
  BY <1>0, <1>2, <1>3, <1>4 DEF BridgeInv

LEMMA OnAnswerKeeps ==
  ASSUME Typed, BridgeInv, NEW w \in Workers, OnAnswer(w)
  PROVE  Typed' /\ BridgeInv'
<1>0. CallsOK /\ RoutesOK /\ TasksOK /\ IsFiniteSet(crashed)
  BY DEF BridgeInv
<1>1. PICK c : c = Head(toHost[w]).call
  OBVIOUS
<1>2. /\ toHost[w] # <<>>
      /\ toHost' = [toHost EXCEPT ![w] = Tail(@)]
      /\ UNCHANGED <<callTimeout, crashed, notices>>
      /\ \/ c \in pending[w] /\ Settle(w, {c}, PhaseAfter(w, pending[w] \ {c}, leftover[w]))
         \/ UNCHANGED <<calls, mailbox, pending, phase, toWorker, running>>
  BY <1>1 DEF OnAnswer, Take
<1>3. /\ toHost' \in [Workers -> Seq(Outbound(Issued))]
      /\ \A v \in Workers : Range(toHost'[v]) \subseteq Range(toHost[v])
  BY <1>0, <1>2, HeadOfHost
<1>4. CASE c \in pending[w] /\ Settle(w, {c}, PhaseAfter(w, pending[w] \ {c}, leftover[w]))
  <2>1. PICK cs \in SUBSET pending[w] : cs = {c}
    BY <1>4
  <2> QED
    BY <1>2, <1>3, <1>4, <2>1, SettlingKeeps
<1>5. CASE UNCHANGED <<calls, mailbox, pending, phase, toWorker, running>>
  <2>1. Extends /\ CallsOK' /\ Issued' = Issued
    BY <1>0, <1>5, SameCalls
  <2>2. RoutesOK' /\ TasksOK'
    BY <1>0, <1>3, <1>5, <2>1, RoutesKept, TasksKept
  <2>3. Typed'
    BY <1>2, <1>3, <1>5, <2>1 DEF Typed, Outbound
  <2> QED
    BY <1>0, <1>2, <2>1, <2>2, <2>3 DEF BridgeInv
<1> QED
  BY <1>2, <1>4, <1>5

LEMMA TimerFiresKeeps ==
  ASSUME Typed, BridgeInv, NEW w \in Workers, NEW c, TimerFires(w, c)
  PROVE  Typed' /\ BridgeInv'
<1>1. PICK cs \in SUBSET pending[w] : cs = {c}
  BY DEF TimerFires
<1>2. /\ Settle(w, cs, PhaseAfter(w, pending[w] \ {c}, leftover[w]))
      /\ UNCHANGED <<callTimeout, toHost, crashed, notices>>
  BY <1>1 DEF TimerFires
<1>3. toHost' \in [Workers -> Seq(Outbound(Issued))]
  BY <1>2 DEF Typed, Outbound
<1> QED
  BY <1>2, <1>3, SettlingKeeps

LEMMA LeftoverTimerFiresKeeps ==
  ASSUME Typed, BridgeInv, NEW w \in Workers, LeftoverTimerFires(w)
  PROVE  Typed' /\ BridgeInv'
<1>1. PICK cs \in SUBSET pending[w] : cs = {}
  OBVIOUS
<1>2. /\ Settle(w, cs, PhaseAfter(w, pending[w], leftover[w] \ {"call"}))
      /\ UNCHANGED <<callTimeout, toHost, crashed, notices>>
  BY <1>1 DEF LeftoverTimerFires
<1>3. toHost' \in [Workers -> Seq(Outbound(Issued))]
  BY <1>2 DEF Typed, Outbound
<1> QED
  BY <1>2, <1>3, SettlingKeeps

LEMMA WorkerErrorKeeps ==
  ASSUME Typed, BridgeInv, NEW w \in Workers, WorkerError(w)
  PROVE  Typed' /\ BridgeInv'
<1>1. PICK cs \in SUBSET pending[w] : cs = pending[w]
  OBVIOUS
<1>2. /\ Settle(w, cs, PhaseAfter(w, {}, {})) /\ notices' \subseteq notices
      /\ UNCHANGED <<callTimeout, toHost, crashed>>
  BY <1>1 DEF WorkerError
<1>3. toHost' \in [Workers -> Seq(Outbound(Issued))]
  BY <1>2 DEF Typed, Outbound
<1> QED
  BY <1>2, <1>3, SettlingKeeps

LEMMA HostReturnsKeeps ==
  ASSUME Typed, BridgeInv, NEW c, HostReturns(c)
  PROVE  Typed' /\ BridgeInv'
<1>0. CallsOK /\ RoutesOK /\ TasksOK /\ IsFiniteSet(crashed)
  BY DEF BridgeInv
<1>1. /\ c \in Issued /\ Side(c) = Host /\ running' \subseteq running
      /\ Deliver(Only(Caller(c), <<Msg("result", c)>>))
      /\ UNCHANGED <<callTimeout, calls, mailbox, pending, phase, toHost, crashed, notices>>
  BY DEF HostReturns, Typed
<1>2. PICK w \in Workers : w = Caller(c)
  BY <1>0, <1>1, SidesAre DEF CallsOK, Sides
<1>3. Extends /\ CallsOK' /\ Issued' = Issued
  BY <1>0, <1>1, SameCalls
<1>4. PICK m : m = Msg("result", c)
  OBVIOUS
<1>5. m \in Inbound(Issued') /\ ToWorkerOf(w, m)'
  <2>1. ~Direct(c)
    BY <1>0, <1>1 DEF Direct, CallsOK
  <2> QED
    BY <1>1, <1>2, <1>3, <1>4, <2>1 DEF Msg, Inbound, ToWorkerOf, Requests, Extends
<1>6. /\ toWorker' \in [Workers -> Seq(Inbound(Issued'))]
      /\ \A v \in Workers : \A x \in Range(toWorker'[v]) :
           x \in Range(toWorker[v]) \/ (v = w /\ x = m)
  BY <1>1, <1>2, <1>3, <1>4, <1>5, PostOne
<1>7. RoutesOK' /\ TasksOK'
  BY <1>0, <1>1, <1>3, <1>5, <1>6, RoutesKept, TasksKept
<1>8. Typed'
  BY <1>1, <1>3, <1>6 DEF Typed, Inbound
<1> QED
  BY <1>0, <1>1, <1>3, <1>7, <1>8 DEF BridgeInv

LEMMA DisposeKeeps ==
  ASSUME Typed, BridgeInv, Dispose
  PROVE  Typed' /\ BridgeInv'
<1>0. CallsOK /\ RoutesOK /\ TasksOK /\ IsFiniteSet(crashed)
  BY DEF BridgeInv
<1>1. UNCHANGED <<callTimeout, calls, mailbox, pending, toHost, crashed, notices>>
  BY DEF Dispose
<1>2. phase' \in [Workers -> {"open", "draining", "stopped"}] /\ running' \subseteq running
  BY DEF Dispose
<1>3. Extends /\ CallsOK' /\ Issued' = Issued
  BY <1>0, <1>1, SameCalls
<1> DEFINE posted == [w \in Workers |-> <<>>]
<1>4. DeliverIn(phase', posted)
  BY DEF Dispose
<1>5. \A w \in Workers : posted[w] \in Seq(Inbound(Issued')) /\ Range(posted[w]) = {}
  BY DEF Range
<1> HIDE DEF posted
<1>6. /\ toWorker' \in [Workers -> Seq(Inbound(Issued'))]
      /\ \A v \in Workers : Range(toWorker'[v]) \subseteq Range(toWorker[v])
  BY <1>3, <1>4, <1>5, Delivered
<1>7. RoutesOK' /\ TasksOK'
  BY <1>0, <1>1, <1>3, <1>6, RoutesKept, TasksKept
<1>8. Typed'
  BY <1>1, <1>2, <1>3, <1>6 DEF Typed, Inbound
<1> QED
  BY <1>0, <1>1, <1>3, <1>7, <1>8 DEF BridgeInv

LEMMA HandleCallKeeps ==
  ASSUME Typed, BridgeInv, NEW w \in Workers, HandleCall(w)
  PROVE  Typed' /\ BridgeInv'
<1>0. CallsOK /\ RoutesOK /\ TasksOK /\ IsFiniteSet(crashed)
  BY DEF BridgeInv
<1>1. /\ toWorker[w] # <<>> /\ toWorker' = [toWorker EXCEPT ![w] = Tail(@)]
      /\ UNCHANGED <<callTimeout, mailbox, pending, phase, crashed, notices, calls, toHost>>
      /\ running' = running \cup {Head(toWorker[w]).call}
  BY DEF HandleCall, Handles
<1>2. /\ Head(toWorker[w]).call \in Issued
      /\ toWorker' \in [Workers -> Seq(Inbound(Issued))]
      /\ \A v \in Workers : Range(toWorker'[v]) \subseteq Range(toWorker[v])
  BY <1>0, <1>1, HeadOfWorker DEF Inbound
<1>3. Extends /\ CallsOK' /\ Issued' = Issued
  BY <1>0, <1>1, SameCalls
<1>4. RoutesOK' /\ TasksOK'
  BY <1>0, <1>1, <1>2, <1>3, RoutesKept, TasksKept
<1>5. Typed'
  BY <1>1, <1>2, <1>3 DEF Typed, Inbound
<1> QED
  BY <1>0, <1>1, <1>3, <1>4, <1>5 DEF BridgeInv

LEMMA HandleResultKeeps ==
  ASSUME Typed, BridgeInv, NEW w \in Workers, HandleResult(w)
  PROVE  Typed' /\ BridgeInv'
<1>0. CallsOK /\ RoutesOK /\ TasksOK /\ IsFiniteSet(crashed)
  BY DEF BridgeInv
<1>1. /\ toWorker[w] # <<>> /\ toWorker' = [toWorker EXCEPT ![w] = Tail(@)]
      /\ UNCHANGED <<callTimeout, mailbox, pending, phase, crashed, notices, running, toHost>>
  BY DEF HandleResult, Handles
<1>2. /\ toWorker' \in [Workers -> Seq(Inbound(Issued))]
      /\ \A v \in Workers : Range(toWorker'[v]) \subseteq Range(toWorker[v])
  BY <1>0, <1>1, HeadOfWorker
<1>3. /\ calls' \in Seq(Call) /\ Len(calls') = Len(calls) /\ Issued' = Issued
      /\ Extends /\ CallsOK'
  BY <1>0, CallsSettled DEF HandleResult
<1>4. RoutesOK' /\ TasksOK'
  BY <1>0, <1>1, <1>2, <1>3, RoutesKept, TasksKept
<1>5. Typed'
  BY <1>1, <1>2, <1>3 DEF Typed, Inbound
<1> QED
  BY <1>0, <1>1, <1>3, <1>4, <1>5 DEF BridgeInv

LEMMA WorkerReturnsKeeps ==
  ASSUME Typed, BridgeInv, NEW c, WorkerReturns(c)
  PROVE  Typed' /\ BridgeInv'
<1>0. CallsOK /\ RoutesOK /\ TasksOK /\ IsFiniteSet(crashed)
  BY DEF BridgeInv
<1>1. /\ c \in Issued /\ Side(c) # Host /\ running' \subseteq running
      /\ UNCHANGED <<callTimeout, mailbox, pending, phase, toWorker, crashed, notices>>
  BY DEF WorkerReturns, Typed
<1>2. PICK w \in Workers : w = Side(c)
  BY <1>0, <1>1, SidesAre DEF Sides
<1>3. CASE Direct(c)
  <2>1. calls' = Settled({c}) /\ UNCHANGED toHost
    BY <1>3 DEF WorkerReturns
  <2>2. /\ calls' \in Seq(Call) /\ Len(calls') = Len(calls) /\ Issued' = Issued
        /\ Extends /\ CallsOK'
    BY <1>0, <2>1, CallsSettled
  <2>3. RoutesOK' /\ TasksOK'
    BY <1>0, <1>1, <2>1, <2>2, RoutesKept, TasksKept
  <2>4. Typed'
    BY <1>1, <2>1, <2>2 DEF Typed
  <2> QED
    BY <1>0, <1>1, <2>2, <2>3, <2>4 DEF BridgeInv
<1>4. CASE ~Direct(c)
  <2>1. PICK m : m = Msg("answer", c)
    OBVIOUS
  <2>2. UNCHANGED calls /\ toHost' = [toHost EXCEPT ![w] = Append(@, m)]
    BY <1>2, <1>4, <2>1 DEF WorkerReturns, WorkerPosts
  <2>3. Extends /\ CallsOK' /\ Issued' = Issued
    BY <1>0, <2>2, SameCalls
  <2>4. m \in Outbound(Issued') /\ FromWorker(w, m)'
    BY <1>1, <1>2, <1>4, <2>1, <2>3 DEF Msg, Outbound, FromWorker, Extends
  <2>5. toHost \in [Workers -> Seq(Outbound(Issued'))]
    BY <2>3, StillTyped
  <2>6. /\ Append(toHost[w], m) \in Seq(Outbound(Issued'))
        /\ Range(Append(toHost[w], m)) = Range(toHost[w]) \cup {m}
    BY <2>4, <2>5, AppendIs
  <2>7. /\ toHost' \in [Workers -> Seq(Outbound(Issued'))]
        /\ \A v \in Workers : \A x \in Range(toHost'[v]) : x \in Range(toHost[v]) \/ FromWorker(v, x)'
    BY <2>2, <2>4, <2>5, <2>6
  <2>8. RoutesOK' /\ TasksOK'
    BY <1>0, <1>1, <2>3, <2>7, RoutesKept, TasksKept
  <2>9. Typed'
    BY <1>1, <2>2, <2>3, <2>7 DEF Typed, Outbound
  <2> QED
    BY <1>0, <1>1, <2>3, <2>8, <2>9 DEF BridgeInv
<1> QED
  BY <1>3, <1>4

LEMMA CrashKeeps ==
  ASSUME Typed, BridgeInv, NEW w \in Workers, Crash(w)
  PROVE  Typed' /\ BridgeInv'
<1>0. CallsOK /\ RoutesOK /\ TasksOK /\ IsFiniteSet(crashed)
  BY DEF BridgeInv
<1>1. /\ crashed' = crashed \cup {w} /\ notices' = notices \cup {w} /\ running' \subseteq running
      /\ toWorker' = [toWorker EXCEPT ![w] = <<>>]
      /\ UNCHANGED <<callTimeout, calls, mailbox, pending, phase, toHost>>
  BY DEF Crash
<1>2. Extends /\ CallsOK' /\ Issued' = Issued
  BY <1>0, <1>1, SameCalls
<1>3. /\ toWorker' \in [Workers -> Seq(Inbound(Issued))]
      /\ \A v \in Workers : \A m \in Range(toWorker'[v]) : m \in Range(toWorker[v])
  <2>1. toWorker \in [Workers -> Seq(Inbound(Issued))]
    BY DEF Typed, Inbound
  <2>2. <<>> \in Seq(Inbound(Issued)) /\ Range(<<>>) = {}
    BY DEF Range
  <2> QED
    BY <1>1, <2>1, <2>2
<1>4. RoutesOK' /\ TasksOK'
  BY <1>0, <1>1, <1>2, <1>3, RoutesKept, TasksKept
<1>5. Typed' /\ IsFiniteSet(crashed')
  BY <1>0, <1>1, <1>2, <1>3, FS_AddElement DEF Typed, Inbound
<1> QED
  BY <1>2, <1>4, <1>5 DEF BridgeInv

LEMMA InitOK ==
  ASSUME Init
  PROVE  Typed /\ BridgeInv
<1>1. Issued = {} /\ Len(calls) = 0 /\ calls \in Seq(Call)
  BY EmptySeq DEF Init, Issued
<1>2. IsFiniteSet({})
  BY FS_EmptySet
<1>3. \A S : <<>> \in Seq(S) /\ Range(<<>>) = {}
  BY EmptySeq DEF Range
<1> QED
  BY <1>1, <1>2, <1>3, BridgeAssumption DEF Init, Typed, BridgeInv, CallsOK, RoutesOK, TasksOK

\* a call that is not cloned changes nothing but what it leaves
LEMMA NothingCalled ==
  ASSUME NEW p, NEW t, HostCallsUnclonable(p, t) \/ HostInvokesUnclonable(p, t)
  PROVE  UNCHANGED callsVars
BY DEF HostCallsUnclonable, HostInvokesUnclonable, Unclonable, callsVars

LEMMA StepOK ==
  ASSUME Typed, BridgeInv, [Next]_vars
  PROVE  Typed' /\ BridgeInv'
<1>1. CASE UNCHANGED callsVars
  <2>1. Extends /\ CallsOK' /\ Issued' = Issued /\ CallsOK /\ RoutesOK /\ TasksOK
    BY <1>1, SameCalls DEF BridgeInv, callsVars
  <2>2. RoutesOK' /\ TasksOK'
    BY <1>1, <2>1, RoutesKept, TasksKept DEF callsVars
  <2> QED
    BY <1>1, <2>1, <2>2 DEF BridgeInv, Typed, callsVars
<1>2. CASE \E p \in {User} \cup running :
             \/ \E a \in Actors : HostCalls(p, a) \/ DirectCalls(p, a)
             \/ \E f \in Functions : HostInvokes(p, f)
             \/ \E t \in Actors \cup Functions : StubCalls(p, t)
  BY <1>2, HostCallsKeeps, DirectCallsKeeps, HostInvokesKeeps, StubCallsKeeps
<1>3. CASE \E w \in Workers :
             \/ HostReceives(w) \/ WorkerReceives(w)
             \/ WorkerError(w) \/ Crash(w)
             \/ LeftoverTimerFires(w)
             \/ \E c \in pending[w] : TimerFires(w, c)
  BY <1>3, HandleBridgeCallKeeps, HandleBridgeCallbackInvokeKeeps, OnAnswerKeeps, HandleCallKeeps,
     HandleResultKeeps, WorkerErrorKeeps, CrashKeeps, TimerFiresKeeps,
     LeftoverTimerFiresKeeps
     DEF HostReceives, WorkerReceives
<1>4. CASE \E c \in running : Returns(c)
  BY <1>4, HostReturnsKeeps, WorkerReturnsKeeps DEF Returns
<1>5. CASE Dispose
  BY <1>5, DisposeKeeps
<1>6. CASE \E p \in {User} \cup running :
             \/ \E a \in Actors : HostCallsUnclonable(p, a)
             \/ \E f \in Functions : HostInvokesUnclonable(p, f)
  BY <1>1, <1>6, NothingCalled
<1> QED
  BY <1>1, <1>2, <1>3, <1>4, <1>5, <1>6 DEF Next, vars, callsVars

LEMMA BridgeInvHolds == Spec => [](Typed /\ BridgeInv)
<1>1. Init => Typed /\ BridgeInv
  BY InitOK
<1>2. Typed /\ BridgeInv /\ [Next]_vars => (Typed /\ BridgeInv)'
  BY StepOK
<1> QED
  BY <1>1, <1>2, PTL DEF Spec

\* calls stay calls
LEMMA CallsStay ==
  ASSUME Typed
  PROVE  /\ UNCHANGED calls => Issued \subseteq Issued'
         /\ \A S : calls' = Settled(S) => Issued \subseteq Issued'
         /\ \A p, t, settled : Begins(p, t, settled) => Issued \subseteq Issued'
<1>1. \A S : calls' = Settled(S) => Issued \subseteq Issued'
  BY DEF Settled, Issued
<1>2. ASSUME NEW p, NEW t, NEW settled, Begins(p, t, settled)
      PROVE  Issued \subseteq Issued'
  <2>1. calls' = Append(calls, [by |-> p, target |-> t, settled |-> settled])
    BY <1>2 DEF Begins
  <2> QED
    BY <2>1 DEF Issued, Typed
<1> QED
  BY <1>1, <1>2 DEF Issued

\* what a step does to what could not be cloned
LEMMA LeftSteps ==
  ASSUME Typed, [Next]_vars
  PROVE  /\ Issued \subseteq Issued'
         /\ \/ UNCHANGED leftVars
            \/ \E w \in Workers : \E cs : \E stay \in SUBSET leftover[w] : Leave(w, cs, stay)
            \/ \E p \in {User} \cup running : \E a \in Actors : HostCallsUnclonable(p, a)
            \/ \E p \in {User} \cup running : \E f \in Functions : HostInvokesUnclonable(p, f)
<1>1. CASE UNCHANGED vars
  BY <1>1 DEF vars, Issued
<1>2. ASSUME NEW p \in {User} \cup running, NEW a \in Actors,
             HostCalls(p, a) \/ DirectCalls(p, a)
      PROVE  Issued \subseteq Issued' /\ UNCHANGED leftVars
  <2>1. \E settled : Begins(p, a, settled)
    BY <1>2 DEF HostCalls, DirectCalls
  <2> QED
    BY <2>1, CallsStay DEF Begins
<1>3. ASSUME NEW p \in {User} \cup running, NEW t, HostInvokes(p, t) \/ StubCalls(p, t)
      PROVE  Issued \subseteq Issued' /\ UNCHANGED leftVars
  <2>1. Begins(p, t, FALSE)
    BY <1>3 DEF HostInvokes, StubCalls
  <2> QED
    BY <2>1, CallsStay DEF Begins
<1>4. ASSUME NEW p, NEW t, HostCallsUnclonable(p, t) \/ HostInvokesUnclonable(p, t)
      PROVE  Issued \subseteq Issued'
  BY <1>4, CallsStay DEF HostCallsUnclonable, HostInvokesUnclonable, Unclonable
<1>5. ASSUME NEW w \in Workers, NEW cs, NEW ph, NEW stay \in SUBSET leftover[w],
             Settle(w, cs, ph), Leave(w, cs, stay)
      PROVE  /\ Issued \subseteq Issued'
             /\ \E x \in Workers : \E y : \E z \in SUBSET leftover[x] : Leave(x, y, z)
  <2>1. calls' = Settled({c \in cs : Caller(c) = Host})
    BY <1>5 DEF Settle
  <2> QED
    BY <1>5, <2>1, CallsStay
<1>6. ASSUME NEW w \in Workers, OnAnswer(w) \/ (\E c : TimerFires(w, c)) \/ WorkerError(w)
                                \/ LeftoverTimerFires(w)
      PROVE  /\ Issued \subseteq Issued'
             /\ \/ UNCHANGED leftVars
                \/ \E x \in Workers : \E y : \E z \in SUBSET leftover[x] : Leave(x, y, z)
  <2>1. CASE UNCHANGED <<calls, leftVars>>
    BY <2>1, CallsStay
  <2>2. \/ UNCHANGED <<calls, leftVars>>
        \/ \E cs, ph : \E stay \in SUBSET leftover[w] : Settle(w, cs, ph) /\ Leave(w, cs, stay)
    <3>1. CASE OnAnswer(w)
      BY <3>1 DEF OnAnswer
    <3>2. CASE \E c : TimerFires(w, c)
      BY <3>2 DEF TimerFires
    <3>3. CASE WorkerError(w)
      BY <3>3 DEF WorkerError
    <3>4. CASE LeftoverTimerFires(w)
      BY <3>4 DEF LeftoverTimerFires
    <3> QED
      BY <1>6, <3>1, <3>2, <3>3, <3>4
  <2> QED
    BY <1>5, <2>1, <2>2
<1>7. ASSUME NEW w \in Workers,
             HandleBridgeCall(w) \/ HandleBridgeCallbackInvoke(w) \/ Crash(w) \/ HandleCall(w)
      PROVE  Issued \subseteq Issued' /\ UNCHANGED leftVars
  BY <1>7, CallsStay DEF HandleBridgeCall, HandleBridgeCallbackInvoke, Crash, HandleCall, Handles
<1>8. ASSUME NEW w \in Workers, HandleResult(w)
      PROVE  Issued \subseteq Issued' /\ UNCHANGED leftVars
  BY <1>8, CallsStay DEF HandleResult, Handles
<1>9. ASSUME NEW c, Returns(c)
      PROVE  Issued \subseteq Issued' /\ UNCHANGED leftVars
  BY <1>9, CallsStay DEF Returns, HostReturns, WorkerReturns
<1>10. ASSUME Dispose
       PROVE  Issued \subseteq Issued' /\ UNCHANGED leftVars
  BY <1>10, CallsStay DEF Dispose
<1> QED
  BY <1>1, <1>2, <1>3, <1>4, <1>6, <1>7, <1>8, <1>9, <1>10
  DEF Next, HostReceives, WorkerReceives

\* what cannot be cloned waits behind a call that was made
LEMMA LeftTypedKept ==
  ASSUME Typed, LeftTyped, [Next]_vars
  PROVE  LeftTyped'
<1>1. Issued \subseteq Issued'
  BY LeftSteps
<1>2. CASE UNCHANGED leftVars
  BY <1>1, <1>2 DEF LeftTyped, leftVars
<1>3. ASSUME NEW w \in Workers, NEW cs, NEW stay \in SUBSET leftover[w], Leave(w, cs, stay)
      PROVE  LeftTyped'
  BY <1>1, <1>3 DEF LeftTyped, Leave, Kinds
<1>4. ASSUME NEW p \in {User} \cup running, NEW a \in Actors, HostCallsUnclonable(p, a)
      PROVE  LeftTyped'
  <2>1. mailbox[a] # <<>> => Last(mailbox[a]) \in Issued
    BY DEF Last, Typed
  <2>2. p \in {User} \cup Issued /\ calls' = calls
    BY <1>4 DEF Typed, HostCallsUnclonable, Unclonable
  <2>3. CASE mailbox[a] = <<>>
    BY <1>1, <1>4, <2>3 DEF HostCallsUnclonable, LeftTyped, Kinds
  <2>4. CASE mailbox[a] # <<>>
    <3>1. /\ leftover' = leftover
          /\ unclonable' = unclonable \cup {[by |-> p, after |-> Last(mailbox[a])]}
      BY <1>4, <2>4 DEF HostCallsUnclonable
    <3>2. Issued' = Issued
      BY <2>2 DEF Issued
    <3> QED
      BY <2>1, <2>2, <2>4, <3>1, <3>2 DEF LeftTyped
  <2> QED
    BY <2>3, <2>4
<1>5. ASSUME NEW p, NEW f \in Functions, HostInvokesUnclonable(p, f)
      PROVE  LeftTyped'
  BY <1>1, <1>5 DEF HostInvokesUnclonable, LeftTyped, Kinds
<1> QED
  BY <1>2, <1>3, <1>4, <1>5, LeftSteps

\* Calls, ports, mailboxes and requests only ever hold calls that were made,
\* with messages of the kinds that go their way (handleMessage of both sides).
THEOREM TypeOKHolds == Spec => []TypeOK
<1>1. Init => LeftTyped
  BY DEF Init, LeftTyped
<1>2. Typed /\ LeftTyped /\ [Next]_vars => LeftTyped'
  BY LeftTypedKept
<1>3. Typed /\ LeftTyped => TypeOK
  BY DEF Typed, LeftTyped, TypeOK
<1>4. Spec => []Typed
  BY BridgeInvHolds, PTL
<1> QED
  BY <1>1, <1>2, <1>3, <1>4, PTL DEF Spec

\* Two methods of one actor run at once only if the host gave up on one of them,
\* or one was called on the actor's own worker: enqueue sends a request only
\* when the one before it in the mailbox has settled.
THEOREM OverlapExplainedHolds == Spec => []OverlapExplained
<1>1. Typed /\ BridgeInv => OverlapExplained
  <2> SUFFICES ASSUME Typed, BridgeInv, NEW c \in running, NEW d \in running,
                      c # d, Target(c) = Target(d), IsMethod(c),
                      c \in pending[Side(c)], d \in pending[Side(c)]
               PROVE  FALSE
    BY DEF OverlapExplained
  <2>1. c \in Issued /\ Side(c) \in Workers /\ IsMethod(d)
    BY SidesAre DEF Typed, BridgeInv, IsMethod
  <2> QED
    BY <2>1 DEF BridgeInv, TasksOK
<1> QED
  BY <1>1, BridgeInvHolds, PTL

-----------------------------------------------------------------------------
(* While all threads live: what a step does to ports and mailboxes.         *)

LEMMA PortIs ==
  ASSUME NEW S, NEW port \in Seq(S), NEW c
  PROVE  /\ HasRequest(port, c) <=> \E m \in Range(port) : m.kind \in Requests /\ m.call = c
         /\ HasReply(port, c) <=> \E m \in Range(port) : m.kind \notin Requests /\ m.call = c
BY DEF HasRequest, HasReply, Range

LEMMA PortAppend ==
  ASSUME NEW S, NEW s \in Seq(S), NEW m \in S, OneEach(s),
         m.kind \in Requests => ~HasRequest(s, m.call),
         m.kind \notin Requests => ~HasReply(s, m.call)
  PROVE  /\ OneEach(Append(s, m))
         /\ \A c : /\ HasRequest(Append(s, m), c) <=> HasRequest(s, c) \/ (m.kind \in Requests /\ m.call = c)
                   /\ HasReply(Append(s, m), c) <=> HasReply(s, c) \/ (m.kind \notin Requests /\ m.call = c)
<1> DEFINE t == Append(s, m)
<1>1. /\ DOMAIN t = 1..(Len(s) + 1) /\ DOMAIN s = 1..Len(s) /\ Len(s) \in Nat
      /\ \A i \in 1..Len(s) : t[i] = s[i]
      /\ t[Len(s) + 1] = m
  BY AppendProperties, LenProperties
<1> HIDE DEF t
<1>2. \A i \in DOMAIN t : i \in DOMAIN s \/ i = Len(s) + 1
  BY <1>1
<1>3. Len(s) + 1 \in DOMAIN t /\ Len(s) + 1 \notin DOMAIN s /\ \A i \in DOMAIN s : i \in DOMAIN t /\ t[i] = s[i]
  BY <1>1
<1>4. \A c : /\ HasRequest(t, c) <=> HasRequest(s, c) \/ (m.kind \in Requests /\ m.call = c)
             /\ HasReply(t, c) <=> HasReply(s, c) \/ (m.kind \notin Requests /\ m.call = c)
  BY <1>1, <1>2, <1>3 DEF HasRequest, HasReply
<1>5. OneEach(t)
  BY <1>1, <1>2, <1>3 DEF OneEach, HasRequest, HasReply
<1> QED
  BY <1>4, <1>5 DEF t

LEMMA PortTail ==
  ASSUME NEW S, NEW s \in Seq(S), s # <<>>, OneEach(s), NEW m, m = Head(s)
  PROVE  /\ OneEach(Tail(s))
         /\ m.kind \in Requests => HasRequest(s, m.call)
         /\ m.kind \notin Requests => HasReply(s, m.call)
         /\ \A c : /\ HasRequest(Tail(s), c) <=> HasRequest(s, c) /\ ~(m.kind \in Requests /\ m.call = c)
                   /\ HasReply(Tail(s), c) <=> HasReply(s, c) /\ ~(m.kind \notin Requests /\ m.call = c)
<1> DEFINE t == Tail(s)
<1>1. /\ Len(s) \in Nat \ {0} /\ DOMAIN s = 1..Len(s) /\ m = s[1]
      /\ DOMAIN t = 1..(Len(s) - 1) /\ \A i \in 1..(Len(s) - 1) : t[i] = s[i + 1]
  BY HeadTailProperties, LenProperties, EmptySeq
<1> HIDE DEF t
<1>2. 1 \in DOMAIN s /\ \A i \in DOMAIN t : i + 1 \in DOMAIN s /\ i + 1 # 1 /\ t[i] = s[i + 1]
  BY <1>1
<1>3. \A i \in DOMAIN s : i = 1 \/ (i - 1 \in DOMAIN t /\ t[i - 1] = s[i])
  BY <1>1
<1>4. OneEach(t)
  <2> SUFFICES ASSUME NEW i \in DOMAIN t, NEW j \in DOMAIN t, t[i].call = t[j].call,
                      t[i].kind \in Requests <=> t[j].kind \in Requests
               PROVE  i = j
    BY DEF OneEach
  <2>1. i + 1 = j + 1
    BY <1>2 DEF OneEach
  <2> QED
    BY <1>1, <2>1
<1>5. \A c : HasRequest(t, c) <=> HasRequest(s, c) /\ ~(m.kind \in Requests /\ m.call = c)
  <2> TAKE c
  <2>1. ASSUME HasRequest(t, c)
        PROVE  HasRequest(s, c) /\ ~(m.kind \in Requests /\ m.call = c)
    BY <1>1, <1>2, <2>1 DEF HasRequest, OneEach
  <2>2. ASSUME HasRequest(s, c), ~(m.kind \in Requests /\ m.call = c)
        PROVE  HasRequest(t, c)
    BY <1>1, <1>3, <2>2 DEF HasRequest
  <2> QED
    BY <2>1, <2>2
<1>6. \A c : HasReply(t, c) <=> HasReply(s, c) /\ ~(m.kind \notin Requests /\ m.call = c)
  <2> TAKE c
  <2>1. ASSUME HasReply(t, c)
        PROVE  HasReply(s, c) /\ ~(m.kind \notin Requests /\ m.call = c)
    BY <1>1, <1>2, <2>1 DEF HasReply, OneEach
  <2>2. ASSUME HasReply(s, c), ~(m.kind \notin Requests /\ m.call = c)
        PROVE  HasReply(t, c)
    BY <1>1, <1>3, <2>2 DEF HasReply
  <2> QED
    BY <2>1, <2>2
<1>7. (m.kind \in Requests => HasRequest(s, m.call)) /\ (m.kind \notin Requests => HasReply(s, m.call))
  BY <1>1, <1>2 DEF HasRequest, HasReply
<1> QED
  BY <1>4, <1>5, <1>6, <1>7 DEF t

LEMMA PortConcat ==
  ASSUME NEW S, NEW s \in Seq(S), NEW t \in Seq(S), OneEach(s), OneEach(t),
         \A c : ~(HasRequest(s, c) /\ HasRequest(t, c)) /\ ~(HasReply(s, c) /\ HasReply(t, c))
  PROVE  /\ OneEach(s \o t)
         /\ \A c : /\ HasRequest(s \o t, c) <=> HasRequest(s, c) \/ HasRequest(t, c)
                   /\ HasReply(s \o t, c) <=> HasReply(s, c) \/ HasReply(t, c)
<1>1. s \o t \in Seq(S) /\ Range(s \o t) = Range(s) \cup Range(t)
  BY ConcatProperties, RangeConcatenation
<1>2. \A c : /\ HasRequest(s \o t, c) <=> HasRequest(s, c) \/ HasRequest(t, c)
             /\ HasReply(s \o t, c) <=> HasReply(s, c) \/ HasReply(t, c)
  <2> DEFINE st == s \o t
  <2>1. st \in Seq(S) /\ Range(st) = Range(s) \cup Range(t)
    BY <1>1
  <2> HIDE DEF st
  <2>2. \A c : /\ HasRequest(st, c) <=> HasRequest(s, c) \/ HasRequest(t, c)
               /\ HasReply(st, c) <=> HasReply(s, c) \/ HasReply(t, c)
    BY <2>1, PortIs
  <2> QED
    BY <2>2 DEF st
<1>3. \A m \in Range(s), n \in Range(t) :
        m.call = n.call => ~(m.kind \in Requests <=> n.kind \in Requests)
  BY PortIs
<1>4. OneEach(s \o t)
  BY <1>3, OneEachConcat
<1> QED
  BY <1>2, <1>4

LEMMA SamePorts ==
  /\ UNCHANGED toHost =>
       \A w \in Workers : /\ OneEach(toHost[w]) => OneEach(toHost'[w])
                          /\ \A c : (OutAt(w, c)' <=> OutAt(w, c)) /\ (AnswerAt(w, c)' <=> AnswerAt(w, c))
  /\ UNCHANGED toWorker =>
       \A w \in Workers : /\ OneEach(toWorker[w]) => OneEach(toWorker'[w])
                          /\ \A c : (AskedAt(w, c)' <=> AskedAt(w, c)) /\ (ResultAt(w, c)' <=> ResultAt(w, c))
BY DEF OutAt, AnswerAt, AskedAt, ResultAt, OneEach, HasRequest, HasReply

\* OneEach, and the places of c in ports, after a step
LEMMA PortsAfter ==
  ASSUME NEW w \in Workers, NEW c
  PROVE  /\ OutAt(w, c)' <=> HasRequest(toHost'[w], c)
         /\ AnswerAt(w, c)' <=> HasReply(toHost'[w], c)
         /\ AskedAt(w, c)' <=> HasRequest(toWorker'[w], c)
         /\ ResultAt(w, c)' <=> HasReply(toWorker'[w], c)
BY DEF OutAt, AnswerAt, AskedAt, ResultAt, HasRequest, HasReply

LEMMA HostTakes ==
  ASSUME Typed, NEW w \in Workers, toHost[w] # <<>>, toHost' = [toHost EXCEPT ![w] = Tail(@)],
         \A v \in Workers : OneEach(toHost[v]), NEW m, m = Head(toHost[w])
  PROVE  /\ \A v \in Workers : OneEach(toHost'[v])
         /\ m.kind \in Requests => OutAt(w, m.call)
         /\ m.kind \notin Requests => AnswerAt(w, m.call)
         /\ \A v \in Workers : \A c :
              /\ OutAt(v, c)' <=> OutAt(v, c) /\ ~(v = w /\ m.kind \in Requests /\ m.call = c)
              /\ AnswerAt(v, c)' <=> AnswerAt(v, c) /\ ~(v = w /\ m.kind \notin Requests /\ m.call = c)
<1>1. toHost[w] \in Seq(Outbound(Issued)) /\ toHost \in [Workers -> Seq(Outbound(Issued))]
  BY DEF Typed, Outbound
<1>2. toHost'[w] = Tail(toHost[w]) /\ \A v \in Workers \ {w} : toHost'[v] = toHost[v]
  BY <1>1
<1>3. /\ OneEach(Tail(toHost[w]))
      /\ m.kind \in Requests => HasRequest(toHost[w], m.call)
      /\ m.kind \notin Requests => HasReply(toHost[w], m.call)
      /\ \A c : /\ HasRequest(Tail(toHost[w]), c) <=>
                     HasRequest(toHost[w], c) /\ ~(m.kind \in Requests /\ m.call = c)
                /\ HasReply(Tail(toHost[w]), c) <=>
                     HasReply(toHost[w], c) /\ ~(m.kind \notin Requests /\ m.call = c)
  BY <1>1, PortTail
<1> QED
  BY <1>2, <1>3, PortsAfter DEF OutAt, AnswerAt

LEMMA WorkerTakes ==
  ASSUME Typed, NEW w \in Workers, toWorker[w] # <<>>, toWorker' = [toWorker EXCEPT ![w] = Tail(@)],
         \A v \in Workers : OneEach(toWorker[v]), NEW m, m = Head(toWorker[w])
  PROVE  /\ \A v \in Workers : OneEach(toWorker'[v])
         /\ m.kind \in Requests => AskedAt(w, m.call)
         /\ m.kind \notin Requests => ResultAt(w, m.call)
         /\ \A v \in Workers : \A c :
              /\ AskedAt(v, c)' <=> AskedAt(v, c) /\ ~(v = w /\ m.kind \in Requests /\ m.call = c)
              /\ ResultAt(v, c)' <=> ResultAt(v, c) /\ ~(v = w /\ m.kind \notin Requests /\ m.call = c)
<1>1. toWorker[w] \in Seq(Inbound(Issued)) /\ toWorker \in [Workers -> Seq(Inbound(Issued))]
  BY DEF Typed, Inbound
<1>2. toWorker'[w] = Tail(toWorker[w]) /\ \A v \in Workers \ {w} : toWorker'[v] = toWorker[v]
  BY <1>1
<1>3. /\ OneEach(Tail(toWorker[w]))
      /\ m.kind \in Requests => HasRequest(toWorker[w], m.call)
      /\ m.kind \notin Requests => HasReply(toWorker[w], m.call)
      /\ \A c : /\ HasRequest(Tail(toWorker[w]), c) <=>
                     HasRequest(toWorker[w], c) /\ ~(m.kind \in Requests /\ m.call = c)
                /\ HasReply(Tail(toWorker[w]), c) <=>
                     HasReply(toWorker[w], c) /\ ~(m.kind \notin Requests /\ m.call = c)
  BY <1>1, PortTail
<1> QED
  BY <1>2, <1>3, PortsAfter DEF AskedAt, ResultAt

LEMMA ThreadPosts ==
  ASSUME Typed, Issued \subseteq Issued', NEW w \in Workers, NEW m \in Outbound(Issued'),
         toHost' = [toHost EXCEPT ![w] = Append(@, m)],
         \A v \in Workers : OneEach(toHost[v]),
         m.kind \in Requests => ~OutAt(w, m.call),
         m.kind \notin Requests => ~AnswerAt(w, m.call)
  PROVE  /\ \A v \in Workers : OneEach(toHost'[v])
         /\ \A v \in Workers : \A c :
              /\ OutAt(v, c)' <=> OutAt(v, c) \/ (v = w /\ m.kind \in Requests /\ m.call = c)
              /\ AnswerAt(v, c)' <=> AnswerAt(v, c) \/ (v = w /\ m.kind \notin Requests /\ m.call = c)
<1>1. toHost \in [Workers -> Seq(Outbound(Issued'))] /\ toHost[w] \in Seq(Outbound(Issued'))
  BY StillTyped
<1>2. toHost'[w] = Append(toHost[w], m) /\ \A v \in Workers \ {w} : toHost'[v] = toHost[v]
  BY <1>1
<1>3. /\ OneEach(Append(toHost[w], m))
      /\ \A c : /\ HasRequest(Append(toHost[w], m), c) <=>
                     HasRequest(toHost[w], c) \/ (m.kind \in Requests /\ m.call = c)
                /\ HasReply(Append(toHost[w], m), c) <=>
                     HasReply(toHost[w], c) \/ (m.kind \notin Requests /\ m.call = c)
  BY <1>1, PortAppend DEF OutAt, AnswerAt
<1> QED
  BY <1>2, <1>3, PortsAfter DEF OutAt, AnswerAt

\* nothing that is posted to a thread that lives is lost
LEMMA HostPosts ==
  ASSUME Typed, Issued \subseteq Issued', NEW nodes, NEW posted, DeliverIn(nodes, posted),
         \A v \in Workers : v \notin crashed /\ nodes[v] # "stopped",
         \A v \in Workers : OneEach(toWorker[v]),
         \A v \in Workers :
           /\ posted[v] \in Seq(Inbound(Issued')) /\ OneEach(posted[v])
           /\ \A c : /\ ~(AskedAt(v, c) /\ HasRequest(posted[v], c))
                     /\ ~(ResultAt(v, c) /\ HasReply(posted[v], c))
  PROVE  \A v \in Workers :
           /\ OneEach(toWorker'[v])
           /\ \A c : /\ AskedAt(v, c)' <=> AskedAt(v, c) \/ HasRequest(posted[v], c)
                     /\ ResultAt(v, c)' <=> ResultAt(v, c) \/ HasReply(posted[v], c)
<1> TAKE v \in Workers
<1>1. toWorker[v] \in Seq(Inbound(Issued'))
  BY StillTyped
<1>2. toWorker'[v] = toWorker[v] \o posted[v]
  BY DEF DeliverIn
<1>3. /\ OneEach(toWorker[v] \o posted[v])
      /\ \A c : /\ HasRequest(toWorker[v] \o posted[v], c) <=>
                     HasRequest(toWorker[v], c) \/ HasRequest(posted[v], c)
                /\ HasReply(toWorker[v] \o posted[v], c) <=>
                     HasReply(toWorker[v], c) \/ HasReply(posted[v], c)
  BY <1>1, PortConcat DEF AskedAt, ResultAt
<1> QED
  BY <1>2, <1>3, PortsAfter DEF AskedAt, ResultAt

LEMMA HostPostsOne ==
  ASSUME Typed, Issued \subseteq Issued', AllAlive, NEW w \in Workers, NEW m \in Inbound(Issued'),
         Deliver(Only(w, <<m>>)),
         \A v \in Workers : OneEach(toWorker[v]),
         m.kind \in Requests => ~AskedAt(w, m.call),
         m.kind \notin Requests => ~ResultAt(w, m.call)
  PROVE  /\ \A v \in Workers : OneEach(toWorker'[v])
         /\ \A v \in Workers : \A c :
              /\ AskedAt(v, c)' <=> AskedAt(v, c) \/ (v = w /\ m.kind \in Requests /\ m.call = c)
              /\ ResultAt(v, c)' <=> ResultAt(v, c) \/ (v = w /\ m.kind \notin Requests /\ m.call = c)
<1> DEFINE posted == Only(w, <<m>>)
<1>1. \A v \in Workers : posted[v] = IF v = w THEN <<m>> ELSE <<>>
  BY DEF Only
<1>2. DeliverIn(phase, posted)
  BY DEF Deliver
<1> HIDE DEF posted
<1>3. /\ <<m>> \in Seq(Inbound(Issued')) /\ <<>> \in Seq(Inbound(Issued'))
      /\ OneEach(<<m>>) /\ OneEach(<<>>)
      /\ \A c : /\ HasRequest(<<m>>, c) <=> m.kind \in Requests /\ m.call = c
                /\ HasReply(<<m>>, c) <=> m.kind \notin Requests /\ m.call = c
                /\ ~HasRequest(<<>>, c) /\ ~HasReply(<<>>, c)
  BY DEF OneEach, HasRequest, HasReply
<1>4. \A v \in Workers :
        /\ posted[v] \in Seq(Inbound(Issued')) /\ OneEach(posted[v])
        /\ \A c : /\ HasRequest(posted[v], c) <=> v = w /\ m.kind \in Requests /\ m.call = c
                  /\ HasReply(posted[v], c) <=> v = w /\ m.kind \notin Requests /\ m.call = c
  BY <1>1, <1>3
<1>5. \A v \in Workers : v \notin crashed /\ phase[v] # "stopped"
  BY DEF AllAlive, Alive
<1>6. \A v \in Workers :
        \A c : /\ ~(AskedAt(v, c) /\ HasRequest(posted[v], c))
               /\ ~(ResultAt(v, c) /\ HasReply(posted[v], c))
  BY <1>4
<1>7. \A v \in Workers :
        /\ OneEach(toWorker'[v])
        /\ \A c : /\ AskedAt(v, c)' <=> AskedAt(v, c) \/ HasRequest(posted[v], c)
                  /\ ResultAt(v, c)' <=> ResultAt(v, c) \/ HasReply(posted[v], c)
  BY <1>2, <1>4, <1>5, <1>6, HostPosts
<1> QED
  BY <1>4, <1>7

LEMMA NoTwiceTail ==
  ASSUME NEW S, NEW s \in Seq(S), s # <<>>, NoTwice(s)
  PROVE  NoTwice(Tail(s)) /\ Head(s) \notin Range(Tail(s))
<1> DEFINE t == Tail(s)
<1>1. /\ Len(s) \in Nat \ {0} /\ DOMAIN s = 1..Len(s) /\ Head(s) = s[1]
      /\ DOMAIN t = 1..(Len(s) - 1) /\ \A i \in 1..(Len(s) - 1) : t[i] = s[i + 1]
  BY HeadTailProperties, LenProperties, EmptySeq
<1> HIDE DEF t
<1>2. 1 \in DOMAIN s /\ \A i \in DOMAIN t : i \in Nat /\ i + 1 \in DOMAIN s /\ i + 1 # 1 /\ t[i] = s[i + 1]
  BY <1>1
<1>3. NoTwice(t)
  <2> SUFFICES ASSUME NEW i \in DOMAIN t, NEW j \in DOMAIN t, t[i] = t[j]
               PROVE  i = j
    BY DEF NoTwice
  <2>1. i + 1 = j + 1
    BY <1>2 DEF NoTwice
  <2> QED
    BY <1>2, <2>1
<1>4. s[1] \notin Range(t)
  BY <1>2 DEF Range, NoTwice
<1> QED
  BY <1>1, <1>3, <1>4 DEF t

LEMMA NoTwiceAppend ==
  ASSUME NEW S, NEW s \in Seq(S), NoTwice(s), NEW e \in S, e \notin Range(s)
  PROVE  NoTwice(Append(s, e))
<1>1. /\ DOMAIN Append(s, e) = 1..(Len(s) + 1) /\ DOMAIN s = 1..Len(s) /\ Len(s) \in Nat
      /\ \A i \in 1..Len(s) : Append(s, e)[i] = s[i]
      /\ Append(s, e)[Len(s) + 1] = e
  BY AppendProperties, LenProperties
<1>2. \A i \in 1..Len(s) : s[i] # e
  BY <1>1 DEF Range
<1>3. \A i \in 1..(Len(s) + 1) : i \in 1..Len(s) \/ i = Len(s) + 1
  BY <1>1
<1> QED
  BY <1>1, <1>2, <1>3 DEF NoTwice

\* the first task of a mailbox is served no more, its second is next
LEMMA MailTaken ==
  ASSUME Typed, TasksOK, NEW w \in Workers, NEW c0 \in pending[w],
         \A a \in Actors : NoTwice(mailbox[a]),
         \A a \in Actors : mailbox'[a] = IF mailbox[a] # <<>> /\ Head(mailbox[a]) \in {c0}
                                         THEN Tail(mailbox[a]) ELSE mailbox[a]
  PROVE  /\ \A a \in Actors : NoTwice(mailbox'[a])
         /\ \A c \in NextTasks({c0}) : InQueue(c)
         /\ \A c : InQueue(c)' <=> InQueue(c) /\ c \notin NextTasks({c0})
<1>1. ASSUME NEW a \in Actors
      PROVE  /\ mailbox[a] \in Seq(Issued) /\ \A c \in Range(mailbox[a]) : Target(c) = a
             /\ mailbox[a] # <<>> =>
                  /\ Head(mailbox[a]) \in Range(mailbox[a])
                  /\ Head(mailbox[a]) \notin Range(Tail(mailbox[a])) /\ NoTwice(Tail(mailbox[a]))
                  /\ Range(mailbox[a]) = Range(Tail(mailbox[a])) \cup {Head(mailbox[a])}
                  /\ Tail(mailbox[a]) # <<>> =>
                       /\ Head(Tail(mailbox[a])) \in Range(mailbox[a])
                       /\ Head(Tail(mailbox[a])) \in Range(Tail(mailbox[a]))
                  /\ Tail(mailbox[a]) = <<>> => Range(Tail(mailbox[a])) = {}
  <2>1. /\ mailbox[a] \in Seq(Issued) /\ \A c \in Range(mailbox[a]) : Target(c) = a
        /\ NoTwice(mailbox[a])
    BY MailboxIs DEF TasksOK
  <2>2. ASSUME mailbox[a] # <<>>
        PROVE  /\ Head(mailbox[a]) \in Range(mailbox[a])
               /\ Tail(mailbox[a]) \in Seq(Issued)
               /\ Range(mailbox[a]) = Range(Tail(mailbox[a])) \cup {Head(mailbox[a])}
               /\ Head(mailbox[a]) \notin Range(Tail(mailbox[a])) /\ NoTwice(Tail(mailbox[a]))
    BY <2>1, <2>2, MailboxIs, NoTwiceTail
  <2>3. ASSUME mailbox[a] # <<>>, Tail(mailbox[a]) # <<>>
        PROVE  Head(Tail(mailbox[a])) \in Range(Tail(mailbox[a]))
    BY <2>2, <2>3, TailIs
  <2>4. Range(<<>>) = {}
    BY DEF Range
  <2> QED
    BY <2>1, <2>2, <2>3, <2>4
<1>2. PICK cs \in SUBSET pending[w] : cs = {c0}
  OBVIOUS
<1>3. /\ \A c \in NextTasks({c0}) :
           /\ Target(c) \in Actors
           /\ mailbox[Target(c)] # <<>> /\ Head(mailbox[Target(c)]) = c0
           /\ Tail(mailbox[Target(c)]) # <<>> /\ c = Head(Tail(mailbox[Target(c)]))
      /\ \A a \in Actors :
           mailbox[a] # <<>> /\ Head(mailbox[a]) = c0 /\ Tail(mailbox[a]) # <<>>
           => Head(Tail(mailbox[a])) \in NextTasks({c0})
  BY <1>2, NextTasksAre
<1>4. \A a \in Actors : NoTwice(mailbox'[a])
  BY <1>1
<1>5. \A c \in NextTasks({c0}) : InQueue(c)
  <2> TAKE c \in NextTasks({c0})
  <2>1. PICK a \in Actors : a = Target(c)
    BY <1>3
  <2>2. mailbox[a] # <<>> /\ Tail(mailbox[a]) # <<>> /\ c = Head(Tail(mailbox[a]))
    BY <1>3, <2>1
  <2>3. c \in Range(mailbox[a]) /\ Head(mailbox[a]) # c
    BY <1>1, <2>2
  <2> QED
    BY <2>3 DEF InQueue
<1>6. ASSUME NEW c, NEW a \in Actors
      PROVE  c \in Range(mailbox'[a]) /\ Head(mailbox'[a]) # c <=>
             c \in Range(mailbox[a]) /\ Head(mailbox[a]) # c /\ c \notin NextTasks({c0})
  <2>1. CASE mailbox[a] # <<>> /\ Head(mailbox[a]) = c0
    <3>1. mailbox'[a] = Tail(mailbox[a])
      BY <2>1
    <3>2. CASE Tail(mailbox[a]) # <<>>
      <4>1. Head(Tail(mailbox[a])) \in NextTasks({c0})
        BY <1>3, <2>1, <3>2
      <4>2. c \in Range(mailbox[a]) /\ c \in NextTasks({c0}) => c = Head(Tail(mailbox[a]))
        BY <1>1, <1>3
      <4> QED
        BY <1>1, <2>1, <3>1, <3>2, <4>1, <4>2
    <3>3. CASE Tail(mailbox[a]) = <<>>
      BY <1>1, <2>1, <3>1, <3>3
    <3> QED
      BY <3>2, <3>3
  <2>2. CASE ~(mailbox[a] # <<>> /\ Head(mailbox[a]) = c0)
    <3>1. mailbox'[a] = mailbox[a]
      BY <2>2
    <3>2. c \in Range(mailbox[a]) /\ c \in NextTasks({c0}) => FALSE
      BY <1>1, <1>3, <2>2
    <3> QED
      BY <3>1, <3>2
  <2> QED
    BY <2>1, <2>2
<1>7. \A c : InQueue(c)' <=> InQueue(c) /\ c \notin NextTasks({c0})
  BY <1>6 DEF InQueue
<1> QED
  BY <1>4, <1>5, <1>7

LEMMA MailAppended ==
  ASSUME Typed, TasksOK, Issued \subseteq Issued', NEW a \in Actors, NEW n \in Issued',
         \A b \in Actors : NoTwice(mailbox[b]) /\ n \notin Range(mailbox[b]),
         mailbox' = [mailbox EXCEPT ![a] = Append(@, n)]
  PROVE  /\ \A b \in Actors : NoTwice(mailbox'[b])
         /\ \A c : InQueue(c)' <=> InQueue(c) \/ (c = n /\ mailbox[a] # <<>>)
<1>1. mailbox \in [Actors -> Seq(Issued')] /\ mailbox[a] \in Seq(Issued')
  BY StillTyped
<1>2. mailbox'[a] = Append(mailbox[a], n) /\ \A b \in Actors \ {a} : mailbox'[b] = mailbox[b]
  BY <1>1
<1>3. /\ NoTwice(Append(mailbox[a], n))
      /\ Range(Append(mailbox[a], n)) = Range(mailbox[a]) \cup {n}
      /\ Head(Append(mailbox[a], n)) = IF mailbox[a] = <<>> THEN n ELSE Head(mailbox[a])
      /\ mailbox[a] # <<>> => Head(mailbox[a]) \in Range(mailbox[a])
      /\ mailbox[a] = <<>> => Range(mailbox[a]) = {}
  <2>1. mailbox[a] = <<>> => Range(mailbox[a]) = {}
    BY DEF Range
  <2> QED
    BY <1>1, <2>1, AppendIs, NoTwiceAppend, MailboxIs
<1>4. \A b \in Actors : NoTwice(mailbox'[b])
  BY <1>2, <1>3
<1>5. ASSUME NEW c
      PROVE  c \in Range(mailbox'[a]) /\ Head(mailbox'[a]) # c <=>
             (c \in Range(mailbox[a]) /\ Head(mailbox[a]) # c) \/ (c = n /\ mailbox[a] # <<>>)
  <2>1. CASE mailbox[a] = <<>>
    BY <1>2, <1>3, <2>1
  <2>2. CASE mailbox[a] # <<>>
    BY <1>2, <1>3, <2>2
  <2> QED
    BY <2>1, <2>2
<1>6. \A c : InQueue(c)' <=> InQueue(c) \/ (c = n /\ mailbox[a] # <<>>)
  BY <1>2, <1>5 DEF InQueue
<1> QED
  BY <1>4, <1>6

-----------------------------------------------------------------------------
(* Each step moves one call on.                                             *)

PlaceOK(c) ==
  /\ OnePlace(c)
  /\ Side(c) # Host /\ ~Direct(c) => OneRequest(c)

OnceEach ==
  /\ \A w \in Workers : OneEach(toHost[w]) /\ OneEach(toWorker[w])
  /\ \A a \in Actors : NoTwice(mailbox[a])

\* nothing about c changes
Stays(c) ==
  /\ Out(c)' <=> Out(c)
  /\ InQueue(c)' <=> InQueue(c)
  /\ IsPending(c)' <=> IsPending(c)
  /\ Back(c)' <=> Back(c)
  /\ Asked(c)' <=> Asked(c)
  /\ Answered(c)' <=> Answered(c)
  /\ c \in running' <=> c \in running
  /\ calls'[c].settled <=> calls[c].settled

LEMMA AliveInvIs == AliveInv <=> (AllAlive => OnceEach /\ \A c \in Issued : PlaceOK(c))
BY DEF AliveInv, OnceEach, PlaceOK

LEMMA StaysOK ==
  ASSUME Extends, NEW c \in Issued, Stays(c), PlaceOK(c)
  PROVE  PlaceOK(c)'
<1>1. Local(c)' <=> Local(c)
  BY DEF Extends, Stays, Local
<1>2. OnePlace(c)'
  BY <1>1 DEF Stays, OnePlace, PlaceOK
<1>3. Side(c)' # Host /\ ~Direct(c)' => OneRequest(c)'
  BY DEF Extends, Stays, OneRequest, PlaceOK
<1> QED
  BY <1>2, <1>3 DEF PlaceOK

\* where calls are, from routes and types
LEMMA Whence ==
  ASSUME Typed, RoutesOK, TasksOK
  PROVE  /\ \A c : Out(c) \/ InQueue(c) \/ IsPending(c) \/ Back(c) \/ Asked(c) \/ Answered(c)
                   => c \in Issued /\ ~Direct(c)
         /\ \A w \in Workers : \A c :
              /\ OutAt(w, c) => Caller(c) = w
              /\ c \in pending[w] \/ AskedAt(w, c) \/ AnswerAt(w, c) => Side(c) = w
              /\ ResultAt(w, c) => Caller(c) = w
         /\ \A a \in Actors : \A c \in Range(mailbox[a]) :
              c \in Issued /\ ~Direct(c) /\ (InQueue(c) \/ IsPending(c))
         /\ \A a \in Actors : mailbox[a] # <<>> => IsPending(Head(mailbox[a]))
<1>1. ASSUME NEW w \in Workers, NEW c
      PROVE  /\ OutAt(w, c) => Caller(c) = w /\ c \in Issued /\ ~Direct(c)
             /\ AnswerAt(w, c) => Side(c) = w /\ c \in Issued /\ ~Direct(c)
             /\ AskedAt(w, c) => Side(c) = w /\ c \in Issued /\ ~Direct(c)
             /\ ResultAt(w, c) => Caller(c) = w /\ c \in Issued /\ ~Direct(c)
  <2>1. /\ toHost[w] \in Seq(Outbound(Issued)) /\ Range(toHost[w]) \subseteq Outbound(Issued)
        /\ toWorker[w] \in Seq(Inbound(Issued)) /\ Range(toWorker[w]) \subseteq Inbound(Issued)
    BY MessagesAreIssued
  <2>2. /\ \A m \in Range(toHost[w]) :
             /\ m.call \in Issued /\ FromWorker(w, m) /\ m.kind \in {"call", "invoke", "answer"}
        /\ \A m \in Range(toWorker[w]) :
             /\ m.call \in Issued /\ ToWorkerOf(w, m) /\ m.kind \in {"call", "invoke", "result"}
    BY <2>1 DEF RoutesOK, Outbound, Inbound
  <2>3. /\ OutAt(w, c) => Caller(c) = w /\ c \in Issued /\ ~Direct(c)
        /\ AnswerAt(w, c) => Side(c) = w /\ c \in Issued /\ ~Direct(c)
    BY <2>1, <2>2, PortIs DEF OutAt, AnswerAt, FromWorker, Requests
  <2>4. /\ AskedAt(w, c) => Side(c) = w /\ c \in Issued /\ ~Direct(c)
        /\ ResultAt(w, c) => Caller(c) = w /\ c \in Issued /\ ~Direct(c)
    BY <2>1, <2>2, PortIs DEF AskedAt, ResultAt, ToWorkerOf, Requests
  <2> QED
    BY <2>3, <2>4
<1>2. \A w \in Workers : \A c \in pending[w] : Side(c) = w /\ c \in Issued /\ ~Direct(c)
  BY DEF Typed, TasksOK
<1>3. ASSUME NEW a \in Actors
      PROVE  /\ mailbox[a] # <<>> => IsPending(Head(mailbox[a]))
             /\ \A c \in Range(mailbox[a]) :
                  c \in Issued /\ ~Direct(c) /\ (InQueue(c) \/ IsPending(c))
  <2>1. mailbox[a] # <<>> => Head(mailbox[a]) \in pending[Home[a]] /\ Home[a] \in Workers
    BY MailboxIs
  <2>2. \A c \in Range(mailbox[a]) : c \in Issued /\ ~Direct(c) /\ mailbox[a] # <<>>
    <3>1. mailbox[a] = <<>> => Range(mailbox[a]) = {}
      BY DEF Range
    <3> QED
      BY <3>1, MailboxIs DEF TasksOK
  <2> QED
    BY <2>1, <2>2 DEF InQueue, IsPending
<1> QED
  BY <1>1, <1>2, <1>3 DEF Out, InQueue, IsPending, Back, Asked, Answered

LEMMA Fresh ==
  ASSUME Typed, RoutesOK, TasksOK, NEW n, n \notin Issued
  PROVE  /\ ~Out(n) /\ ~InQueue(n) /\ ~IsPending(n) /\ ~Back(n) /\ ~Asked(n) /\ ~Answered(n)
         /\ n \notin running /\ \A a \in Actors : n \notin Range(mailbox[a])
BY Whence DEF Typed

LEMMA AliveIf ==
  ASSUME \A w \in Workers : OneEach(toHost'[w]) /\ OneEach(toWorker'[w]),
         \A a \in Actors : NoTwice(mailbox'[a]),
         \A c \in Issued' : PlaceOK(c)'
  PROVE  AliveInv'
<1>1. OnceEach'
  BY DEF OnceEach, OneEach, NoTwice
<1>2. (\A c \in Issued : PlaceOK(c))'
  OBVIOUS
<1> QED
  BY <1>1, <1>2 DEF AliveInv, OnceEach, PlaceOK

\* a call joins its mailbox
LEMMA EnqueueMoves ==
  ASSUME Typed, RoutesOK, TasksOK, Issued \subseteq Issued', AllAlive, OnceEach,
         NEW n \in Issued', NEW a \in Actors, Enqueue(n, a),
         ~Asked(n), \A b \in Actors : n \notin Range(mailbox[b])
  PROVE  /\ \A v \in Workers : OneEach(toWorker'[v])
         /\ \A b \in Actors : NoTwice(mailbox'[b])
         /\ \A c : /\ Back(c)' <=> Back(c)
                   /\ Asked(c)' <=> Asked(c) \/ (c = n /\ mailbox[a] = <<>>)
                   /\ IsPending(c)' <=> IsPending(c) \/ (c = n /\ mailbox[a] = <<>>)
                   /\ InQueue(c)' <=> InQueue(c) \/ (c = n /\ mailbox[a] # <<>>)
<1>1. /\ \A b \in Actors : NoTwice(mailbox'[b])
      /\ \A c : InQueue(c)' <=> InQueue(c) \/ (c = n /\ mailbox[a] # <<>>)
  BY MailAppended DEF Enqueue, OnceEach
<1>2. CASE mailbox[a] = <<>>
  <2>1. PICK w \in Workers : w = Home[a]
    BY MailboxIs
  <2>2. PICK m : m = Msg("call", n)
    OBVIOUS
  <2>3. m \in Inbound(Issued') /\ m.kind \in Requests /\ m.call = n
    BY <2>2 DEF Msg, Inbound, Requests
  <2>4. pending' = [pending EXCEPT ![w] = @ \cup {n}] /\ Deliver(Only(w, <<m>>))
    BY <1>2, <2>1, <2>2 DEF Enqueue
  <2>5. ~AskedAt(w, n)
    BY DEF Asked
  <2>6. /\ \A v \in Workers : OneEach(toWorker'[v])
        /\ \A v \in Workers : \A c :
             /\ AskedAt(v, c)' <=> AskedAt(v, c) \/ (v = w /\ m.kind \in Requests /\ m.call = c)
             /\ ResultAt(v, c)' <=> ResultAt(v, c) \/ (v = w /\ m.kind \notin Requests /\ m.call = c)
    BY <2>3, <2>4, <2>5, HostPostsOne DEF OnceEach
  <2>7. \A c : (Back(c)' <=> Back(c)) /\ (Asked(c)' <=> Asked(c) \/ c = n)
    BY <2>3, <2>6 DEF Back, Asked
  <2>8. \A c : IsPending(c)' <=> IsPending(c) \/ c = n
    <3>1. pending'[w] = pending[w] \cup {n} /\ \A v \in Workers \ {w} : pending'[v] = pending[v]
      BY <2>4 DEF Typed
    <3> QED
      BY <3>1 DEF IsPending
  <2> QED
    BY <1>1, <1>2, <2>6, <2>7, <2>8
<1>3. CASE mailbox[a] # <<>>
  <2>1. UNCHANGED <<pending, toWorker>>
    BY <1>3 DEF Enqueue
  <2>2. \A v \in Workers : OneEach(toWorker'[v])
    BY <2>1, SamePorts DEF OnceEach
  <2>3. \A c : (Back(c)' <=> Back(c)) /\ (Asked(c)' <=> Asked(c)) /\ (IsPending(c)' <=> IsPending(c))
    BY <2>1, SamePorts DEF Back, Asked, IsPending
  <2> QED
    BY <1>1, <1>3, <2>2, <2>3
<1> QED
  BY <1>2, <1>3

\* a callback of a worker is asked for
LEMMA InvokeMoves ==
  ASSUME Typed, Issued \subseteq Issued', AllAlive, OnceEach,
         NEW n \in Issued', NEW f, Home[f] \in Workers, InvokeWorkerCallback(n, f), ~Asked(n)
  PROVE  /\ \A v \in Workers : OneEach(toWorker'[v])
         /\ \A c : /\ Back(c)' <=> Back(c)
                   /\ Asked(c)' <=> Asked(c) \/ c = n
                   /\ IsPending(c)' <=> IsPending(c) \/ c = n
<1>1. PICK w \in Workers : w = Home[f]
  OBVIOUS
<1>2. PICK m : m = Msg("invoke", n)
  OBVIOUS
<1>3. m \in Inbound(Issued') /\ m.kind \in Requests /\ m.call = n
  BY <1>2 DEF Msg, Inbound, Requests
<1>4. pending' = [pending EXCEPT ![w] = @ \cup {n}] /\ Deliver(Only(w, <<m>>))
  BY <1>1, <1>2 DEF InvokeWorkerCallback
<1>5. ~AskedAt(w, n)
  BY DEF Asked
<1>6. /\ \A v \in Workers : OneEach(toWorker'[v])
      /\ \A v \in Workers : \A c :
           /\ AskedAt(v, c)' <=> AskedAt(v, c) \/ (v = w /\ m.kind \in Requests /\ m.call = c)
           /\ ResultAt(v, c)' <=> ResultAt(v, c) \/ (v = w /\ m.kind \notin Requests /\ m.call = c)
  BY <1>3, <1>4, <1>5, HostPostsOne DEF OnceEach
<1>7. \A c : (Back(c)' <=> Back(c)) /\ (Asked(c)' <=> Asked(c) \/ c = n)
  BY <1>3, <1>6 DEF Back, Asked
<1>8. \A c : IsPending(c)' <=> IsPending(c) \/ c = n
  <2>1. pending'[w] = pending[w] \cup {n} /\ \A v \in Workers \ {w} : pending'[v] = pending[v]
    BY <1>4 DEF Typed
  <2> QED
    BY <2>1 DEF IsPending
<1> QED
  BY <1>6, <1>7, <1>8

LEMMA HostCallsMoves ==
  ASSUME Typed, BridgeInv, AliveInv, NEW p \in {User} \cup running, NEW a \in Actors, HostCalls(p, a)
  PROVE  AliveInv'
<1>0. CallsOK /\ RoutesOK /\ TasksOK /\ IsFiniteSet(crashed) /\ p \in {User} \cup Issued
  BY DEF BridgeInv, Typed
<1>1. Side(p) = Host /\ Home[a] # Host /\ Host \notin Workers /\ UNCHANGED <<toHost, running>>
  BY BridgeAssumption DEF HostCalls
<1>2. PICK n : n = New
  OBVIOUS
<1>3. PICK s \in BOOLEAN :
        /\ Begins(p, a, s)
        /\ \/ s = FALSE /\ Enqueue(n, a)
           \/ s = TRUE /\ UNCHANGED <<mailbox, pending, toWorker>>
  <2>1. CASE Open(Home[a])
    <3>1. Begins(p, a, FALSE) /\ Enqueue(n, a)
      BY <1>2, <2>1 DEF HostCalls
    <3> QED
      BY <3>1
  <2>2. CASE ~Open(Home[a])
    <3>1. Begins(p, a, TRUE) /\ UNCHANGED <<mailbox, pending, toWorker>>
      BY <2>2 DEF HostCalls
    <3> QED
      BY <3>1
  <2> QED
    BY <2>1, <2>2
<1>4. /\ Issued' = Issued \cup {n} /\ n \notin Issued /\ Extends
      /\ Target(n)' = a /\ Side(n)' = Home[a] /\ Caller(n)' = Side(p)
      /\ calls'[n].settled = s /\ \A c \in Issued : calls'[c] = calls[c]
  BY <1>0, <1>1, <1>2, <1>3, CallMade
<1>5. SUFFICES ASSUME AllAlive'
               PROVE  AliveInv'
  BY DEF AliveInv
<1>6. AllAlive
  BY <1>3, <1>5 DEF Begins, AllAlive, Alive
<1>7. OnceEach /\ \A c \in Issued : PlaceOK(c)
  BY <1>6, AliveInvIs
<1>8. /\ ~Out(n) /\ ~InQueue(n) /\ ~IsPending(n) /\ ~Back(n) /\ ~Asked(n) /\ ~Answered(n)
      /\ n \notin running /\ \A b \in Actors : n \notin Range(mailbox[b])
  BY <1>0, <1>4, Fresh
<1>9. /\ \A v \in Workers : OneEach(toHost'[v])
      /\ \A c : (Out(c)' <=> Out(c)) /\ (Answered(c)' <=> Answered(c))
  BY <1>1, <1>7, SamePorts DEF OnceEach, Out, Answered
<1>10. ~Local(n)' /\ n \notin running'
  BY <1>1, <1>8 DEF Local
<1>11. CASE s = FALSE /\ Enqueue(n, a)
  <2>1. /\ \A v \in Workers : OneEach(toWorker'[v])
        /\ \A b \in Actors : NoTwice(mailbox'[b])
        /\ \A c : /\ Back(c)' <=> Back(c)
                  /\ Asked(c)' <=> Asked(c) \/ (c = n /\ mailbox[a] = <<>>)
                  /\ IsPending(c)' <=> IsPending(c) \/ (c = n /\ mailbox[a] = <<>>)
                  /\ InQueue(c)' <=> InQueue(c) \/ (c = n /\ mailbox[a] # <<>>)
    BY <1>0, <1>4, <1>6, <1>7, <1>8, <1>11, EnqueueMoves
  <2>2. PlaceOK(n)'
    BY <1>4, <1>8, <1>9, <1>10, <1>11, <2>1 DEF PlaceOK, OnePlace, OneRequest
  <2>3. ASSUME NEW c \in Issued
        PROVE  PlaceOK(c)'
    <3>1. Stays(c)
      BY <1>1, <1>4, <1>9, <2>1 DEF Stays
    <3> QED
      BY <1>4, <1>7, <3>1, StaysOK
  <2> QED
    BY <1>4, <1>9, <2>1, <2>2, <2>3, AliveIf
<1>12. CASE s = TRUE /\ UNCHANGED <<mailbox, pending, toWorker>>
  <2>1. /\ \A v \in Workers : OneEach(toWorker'[v])
        /\ \A b \in Actors : NoTwice(mailbox'[b])
        /\ \A c : /\ Back(c)' <=> Back(c)
                  /\ Asked(c)' <=> Asked(c)
                  /\ IsPending(c)' <=> IsPending(c)
                  /\ InQueue(c)' <=> InQueue(c)
    BY <1>7, <1>12, SamePorts DEF OnceEach, Back, Asked, IsPending, InQueue
  <2>2. PlaceOK(n)'
    BY <1>4, <1>8, <1>9, <1>10, <1>12, <2>1 DEF PlaceOK, OnePlace, OneRequest
  <2>3. ASSUME NEW c \in Issued
        PROVE  PlaceOK(c)'
    <3>1. Stays(c)
      BY <1>1, <1>4, <1>9, <2>1 DEF Stays
    <3> QED
      BY <1>4, <1>7, <3>1, StaysOK
  <2> QED
    BY <1>4, <1>9, <2>1, <2>2, <2>3, AliveIf
<1> QED
  BY <1>3, <1>11, <1>12

LEMMA HostInvokesMoves ==
  ASSUME Typed, BridgeInv, AliveInv, NEW p \in {User} \cup running, NEW f \in Functions, HostInvokes(p, f)
  PROVE  AliveInv'
<1>0. CallsOK /\ RoutesOK /\ TasksOK /\ IsFiniteSet(crashed) /\ p \in {User} \cup Issued
  BY DEF BridgeInv, Typed
<1>1. /\ Begins(p, f, FALSE) /\ Home[f] # Host /\ Home[f] \in Workers
      /\ UNCHANGED <<toHost, running, mailbox>>
  BY BridgeAssumption DEF HostInvokes, Sides
<1>2. PICK n : n = New
  OBVIOUS
<1>3. InvokeWorkerCallback(n, f)
  BY <1>2 DEF HostInvokes
<1>4. /\ Issued' = Issued \cup {n} /\ n \notin Issued /\ Extends
      /\ Target(n)' = f /\ Side(n)' = Home[f] /\ Caller(n)' = Side(p)
      /\ calls'[n].settled = FALSE /\ \A c \in Issued : calls'[c] = calls[c]
  BY <1>0, <1>1, <1>2, CallMade
<1>5. SUFFICES ASSUME AllAlive'
               PROVE  AliveInv'
  BY DEF AliveInv
<1>6. AllAlive
  BY <1>1, <1>5 DEF Begins, AllAlive, Alive
<1>7. OnceEach /\ \A c \in Issued : PlaceOK(c)
  BY <1>6, AliveInvIs
<1>8. /\ ~Out(n) /\ ~InQueue(n) /\ ~IsPending(n) /\ ~Back(n) /\ ~Asked(n) /\ ~Answered(n)
      /\ n \notin running
  BY <1>0, <1>4, Fresh
<1>9. /\ \A v \in Workers : OneEach(toHost'[v]) /\ OneEach(toWorker'[v])
      /\ \A b \in Actors : NoTwice(mailbox'[b])
      /\ \A c : /\ Out(c)' <=> Out(c)
                /\ Answered(c)' <=> Answered(c)
                /\ InQueue(c)' <=> InQueue(c)
                /\ Back(c)' <=> Back(c)
                /\ Asked(c)' <=> Asked(c) \/ c = n
                /\ IsPending(c)' <=> IsPending(c) \/ c = n
  <2>1. /\ \A v \in Workers : OneEach(toWorker'[v])
        /\ \A c : /\ Back(c)' <=> Back(c)
                  /\ Asked(c)' <=> Asked(c) \/ c = n
                  /\ IsPending(c)' <=> IsPending(c) \/ c = n
    BY <1>1, <1>3, <1>4, <1>6, <1>7, <1>8, InvokeMoves
  <2> QED
    BY <1>1, <1>7, <2>1, SamePorts DEF OnceEach, Out, Answered, InQueue
<1>10. ~Local(n)' /\ n \notin running'
  BY <1>1, <1>8 DEF Local
<1>11. PlaceOK(n)'
  BY <1>4, <1>8, <1>9, <1>10 DEF PlaceOK, OnePlace, OneRequest
<1>12. ASSUME NEW c \in Issued
       PROVE  PlaceOK(c)'
  <2>1. Stays(c)
    BY <1>1, <1>4, <1>9 DEF Stays
  <2> QED
    BY <1>4, <1>7, <2>1, StaysOK
<1> QED
  BY <1>4, <1>9, <1>11, <1>12, AliveIf

LEMMA StubCallsMoves ==
  ASSUME Typed, BridgeInv, AliveInv, NEW p \in {User} \cup running, NEW t \in Actors \cup Functions,
         StubCalls(p, t)
  PROVE  AliveInv'
<1>0. CallsOK /\ RoutesOK /\ TasksOK /\ IsFiniteSet(crashed) /\ p \in {User} \cup Issued
  BY DEF BridgeInv, Typed
<1>1. /\ Begins(p, t, FALSE) /\ Side(p) # Host
      /\ UNCHANGED <<running, mailbox, pending, toWorker>>
  BY DEF StubCalls
<1>2. PICK n : n = New
  OBVIOUS
<1>3. PICK w \in Workers : w = Side(p)
  <2>1. p \in Issued /\ Side(p) \in Sides
    BY <1>0, <1>1, SidesAre DEF Side
  <2> QED
    BY <1>1, <2>1 DEF Sides
<1>4. /\ Issued' = Issued \cup {n} /\ n \notin Issued /\ Extends
      /\ calls'[n].settled = FALSE /\ \A c \in Issued : calls'[c] = calls[c]
  BY <1>0, <1>1, <1>2, CallMade
<1>5. SUFFICES ASSUME AllAlive'
               PROVE  AliveInv'
  BY DEF AliveInv
<1>6. AllAlive
  BY <1>1, <1>5 DEF Begins, AllAlive, Alive
<1>7. OnceEach /\ \A c \in Issued : PlaceOK(c)
  BY <1>6, AliveInvIs
<1>8. /\ ~Out(n) /\ ~InQueue(n) /\ ~IsPending(n) /\ ~Back(n) /\ ~Asked(n) /\ ~Answered(n)
      /\ n \notin running
  BY <1>0, <1>4, Fresh
<1>9. /\ \A v \in Workers : OneEach(toHost'[v]) /\ OneEach(toWorker'[v])
      /\ \A b \in Actors : NoTwice(mailbox'[b])
      /\ \A c : /\ Out(c)' <=> Out(c) \/ c = n
                /\ Answered(c)' <=> Answered(c)
                /\ InQueue(c)' <=> InQueue(c)
                /\ Back(c)' <=> Back(c)
                /\ Asked(c)' <=> Asked(c)
                /\ IsPending(c)' <=> IsPending(c)
  <2>1. PICK m : m = Msg(IF t \in Actors THEN "call" ELSE "invoke", n)
    OBVIOUS
  <2>2. m \in Outbound(Issued') /\ m.kind \in Requests /\ m.call = n
    BY <1>4, <2>1 DEF Msg, Outbound, Requests
  <2>3. toHost' = [toHost EXCEPT ![w] = Append(@, m)]
    BY <1>2, <1>3, <2>1 DEF StubCalls, WorkerPosts
  <2>4. ~OutAt(w, n)
    BY <1>8 DEF Out
  <2>5. /\ \A v \in Workers : OneEach(toHost'[v])
        /\ \A v \in Workers : \A c :
             /\ OutAt(v, c)' <=> OutAt(v, c) \/ (v = w /\ m.kind \in Requests /\ m.call = c)
             /\ AnswerAt(v, c)' <=> AnswerAt(v, c) \/ (v = w /\ m.kind \notin Requests /\ m.call = c)
    BY <1>4, <1>7, <2>2, <2>3, <2>4, ThreadPosts DEF OnceEach
  <2>6. \A c : (Out(c)' <=> Out(c) \/ c = n) /\ (Answered(c)' <=> Answered(c))
    BY <2>2, <2>5 DEF Out, Answered
  <2> QED
    BY <1>1, <1>7, <2>5, <2>6, SamePorts DEF OnceEach, InQueue, Back, Asked, IsPending
<1>10. ~Local(n)' /\ n \notin running'
  BY <1>1, <1>8 DEF Local
<1>11. PlaceOK(n)'
  BY <1>4, <1>8, <1>9, <1>10 DEF PlaceOK, OnePlace, OneRequest
<1>12. ASSUME NEW c \in Issued
       PROVE  PlaceOK(c)'
  <2>1. Stays(c)
    BY <1>1, <1>4, <1>9 DEF Stays
  <2> QED
    BY <1>4, <1>7, <2>1, StaysOK
<1> QED
  BY <1>4, <1>9, <1>11, <1>12, AliveIf

\* nothing changes in ports, mailboxes and requests
LEMMA SamePlaces ==
  ASSUME OnceEach, UNCHANGED <<toHost, toWorker, mailbox, pending>>
  PROVE  /\ \A v \in Workers : OneEach(toHost'[v]) /\ OneEach(toWorker'[v])
         /\ \A b \in Actors : NoTwice(mailbox'[b])
         /\ \A c : /\ Out(c)' <=> Out(c)
                   /\ Answered(c)' <=> Answered(c)
                   /\ InQueue(c)' <=> InQueue(c)
                   /\ Back(c)' <=> Back(c)
                   /\ Asked(c)' <=> Asked(c)
                   /\ IsPending(c)' <=> IsPending(c)
BY SamePorts DEF OnceEach, Out, Answered, InQueue, Back, Asked, IsPending

LEMMA DirectCallsMoves ==
  ASSUME Typed, BridgeInv, AliveInv, NEW p \in {User} \cup running, NEW a \in Actors, DirectCalls(p, a)
  PROVE  AliveInv'
<1>0. CallsOK /\ RoutesOK /\ TasksOK /\ IsFiniteSet(crashed) /\ p \in {User} \cup Issued
  BY DEF BridgeInv, Typed
<1>1. /\ Begins(p, a, FALSE) /\ Home[a] # Host /\ Side(p) = Home[a]
      /\ UNCHANGED <<mailbox, pending, toWorker, toHost>>
  BY BridgeAssumption DEF DirectCalls
<1>2. PICK n : n = New
  OBVIOUS
<1>3. running' = running \cup {n}
  BY <1>2 DEF DirectCalls
<1>4. /\ Issued' = Issued \cup {n} /\ n \notin Issued /\ Extends
      /\ Target(n)' = a /\ Side(n)' = Home[a] /\ Caller(n)' = Side(p)
      /\ calls'[n].settled = FALSE /\ \A c \in Issued : calls'[c] = calls[c]
  BY <1>0, <1>1, <1>2, CallMade
<1>5. SUFFICES ASSUME AllAlive'
               PROVE  AliveInv'
  BY DEF AliveInv
<1>6. AllAlive
  BY <1>1, <1>5 DEF Begins, AllAlive, Alive
<1>7. OnceEach /\ \A c \in Issued : PlaceOK(c)
  BY <1>6, AliveInvIs
<1>8. /\ ~Out(n) /\ ~InQueue(n) /\ ~IsPending(n) /\ ~Back(n) /\ ~Asked(n) /\ ~Answered(n)
  BY <1>0, <1>4, Fresh
<1>9. /\ \A v \in Workers : OneEach(toHost'[v]) /\ OneEach(toWorker'[v])
      /\ \A b \in Actors : NoTwice(mailbox'[b])
      /\ \A c : /\ Out(c)' <=> Out(c)
                /\ Answered(c)' <=> Answered(c)
                /\ InQueue(c)' <=> InQueue(c)
                /\ Back(c)' <=> Back(c)
                /\ Asked(c)' <=> Asked(c)
                /\ IsPending(c)' <=> IsPending(c)
  BY <1>1, <1>7, SamePlaces
<1>10. Direct(n)'
  BY <1>1, <1>4 DEF Direct, IsMethod
<1>11. Local(n)'
  BY <1>3, <1>10 DEF Local
<1>12. PlaceOK(n)'
  BY <1>4, <1>8, <1>9, <1>10, <1>11 DEF PlaceOK, OnePlace
<1>13. ASSUME NEW c \in Issued
       PROVE  PlaceOK(c)'
  <2>1. Stays(c)
    BY <1>3, <1>4, <1>9 DEF Stays
  <2> QED
    BY <1>4, <1>7, <2>1, StaysOK
<1> QED
  BY <1>4, <1>9, <1>12, <1>13, AliveIf

LEMMA HandleBridgeCallMoves ==
  ASSUME Typed, BridgeInv, AliveInv, NEW w \in Workers, HandleBridgeCall(w)
  PROVE  AliveInv'
<1>0. CallsOK /\ RoutesOK /\ TasksOK
  BY DEF BridgeInv
<1>1. PICK m : m = Head(toHost[w])
  OBVIOUS
<1>2. PICK n : n = m.call
  OBVIOUS
<1>3. /\ toHost[w] # <<>> /\ m.kind \in Requests
      /\ toHost' = [toHost EXCEPT ![w] = Tail(@)]
      /\ UNCHANGED <<callTimeout, crashed, notices, calls, phase, running>>
      /\ \/ Enqueue(n, Target(n))
         \/ Deliver(Only(w, <<Msg("result", n)>>)) /\ UNCHANGED <<mailbox, pending>>
  BY <1>1, <1>2 DEF HandleBridgeCall, Take, Requests
<1>4. /\ n \in Issued /\ IsMethod(n) /\ Caller(n) = w /\ ~Direct(n)
  BY <1>0, <1>1, <1>2, <1>3, HeadOfHost DEF Outbound, FromWorker, HandleBridgeCall, Take
<1>5. Extends /\ Issued' = Issued
  BY <1>0, <1>3, SameCalls
<1>6. SUFFICES ASSUME AllAlive'
               PROVE  AliveInv'
  BY DEF AliveInv
<1>7. AllAlive
  BY <1>3, <1>6 DEF AllAlive, Alive
<1>8. OnceEach /\ \A c \in Issued : PlaceOK(c)
  BY <1>7, AliveInvIs
<1>9. /\ \A v \in Workers : OneEach(toHost'[v])
      /\ OutAt(w, n)
      /\ \A v \in Workers : \A c :
           /\ OutAt(v, c)' <=> OutAt(v, c) /\ ~(v = w /\ n = c)
           /\ AnswerAt(v, c)' <=> AnswerAt(v, c)
  BY <1>1, <1>2, <1>3, <1>8, HostTakes DEF OnceEach
<1>10. /\ Out(n)
       /\ \A c : (Out(c)' <=> Out(c) /\ c # n) /\ (Answered(c)' <=> Answered(c))
  <2>1. \A v \in Workers : OutAt(v, n) => v = w
    BY <1>0, <1>4, Whence
  <2> QED
    BY <1>9, <2>1 DEF Out, Answered
<1>11. /\ ~InQueue(n) /\ ~IsPending(n) /\ ~Back(n) /\ ~Asked(n) /\ ~Answered(n)
       /\ n \notin running /\ ~calls[n].settled
       /\ \A b \in Actors : n \notin Range(mailbox[b])
  <2>1. Side(n) # Host
    BY <1>0, <1>4, SidesAre
  <2>2. /\ ~InQueue(n) /\ ~IsPending(n) /\ ~Back(n) /\ ~Asked(n) /\ ~Answered(n)
        /\ n \notin running /\ ~calls[n].settled
    BY <1>4, <1>8, <1>10, <2>1 DEF PlaceOK, OnePlace, OneRequest
  <2> QED
    BY <1>0, <2>2, Whence
<1>12. ~Local(n)' /\ n \notin running' /\ ~calls'[n].settled
  BY <1>3, <1>11 DEF Local
<1>13. CASE Enqueue(n, Target(n))
  <2>1. PICK a \in Actors : a = Target(n)
    BY <1>4 DEF IsMethod
  <2>2. /\ \A v \in Workers : OneEach(toWorker'[v])
        /\ \A b \in Actors : NoTwice(mailbox'[b])
        /\ \A c : /\ Back(c)' <=> Back(c)
                  /\ Asked(c)' <=> Asked(c) \/ (c = n /\ mailbox[a] = <<>>)
                  /\ IsPending(c)' <=> IsPending(c) \/ (c = n /\ mailbox[a] = <<>>)
                  /\ InQueue(c)' <=> InQueue(c) \/ (c = n /\ mailbox[a] # <<>>)
    BY <1>0, <1>4, <1>5, <1>7, <1>8, <1>11, <1>13, <2>1, EnqueueMoves
  <2>3. PlaceOK(n)'
    BY <1>10, <1>11, <1>12, <2>2 DEF PlaceOK, OnePlace, OneRequest
  <2>4. ASSUME NEW c \in Issued, c # n
        PROVE  PlaceOK(c)'
    <3>1. Stays(c)
      BY <1>3, <1>10, <2>2, <2>4 DEF Stays
    <3> QED
      BY <1>5, <1>8, <3>1, StaysOK
  <2> QED
    BY <1>5, <1>9, <2>2, <2>3, <2>4, AliveIf
<1>14. CASE Deliver(Only(w, <<Msg("result", n)>>)) /\ UNCHANGED <<mailbox, pending>>
  <2>1. PICK r : r = Msg("result", n)
    OBVIOUS
  <2>2. r \in Inbound(Issued') /\ r.kind \notin Requests /\ r.call = n
    BY <1>4, <1>5, <2>1 DEF Msg, Inbound, Requests
  <2>3. ~ResultAt(w, n)
    BY <1>11 DEF Back
  <2>4. /\ \A v \in Workers : OneEach(toWorker'[v])
        /\ \A v \in Workers : \A c :
             /\ AskedAt(v, c)' <=> AskedAt(v, c) \/ (v = w /\ r.kind \in Requests /\ r.call = c)
             /\ ResultAt(v, c)' <=> ResultAt(v, c) \/ (v = w /\ r.kind \notin Requests /\ r.call = c)
    BY <1>5, <1>7, <1>8, <1>14, <2>1, <2>2, <2>3, HostPostsOne DEF OnceEach
  <2>5. /\ \A b \in Actors : NoTwice(mailbox'[b])
        /\ \A c : /\ Back(c)' <=> Back(c) \/ c = n
                  /\ Asked(c)' <=> Asked(c)
                  /\ IsPending(c)' <=> IsPending(c)
                  /\ InQueue(c)' <=> InQueue(c)
    BY <1>8, <1>14, <2>2, <2>4 DEF OnceEach, Back, Asked, IsPending, InQueue
  <2>6. PlaceOK(n)'
    BY <1>10, <1>11, <1>12, <2>5 DEF PlaceOK, OnePlace, OneRequest
  <2>7. ASSUME NEW c \in Issued, c # n
        PROVE  PlaceOK(c)'
    <3>1. Stays(c)
      BY <1>3, <1>10, <2>5, <2>7 DEF Stays
    <3> QED
      BY <1>5, <1>8, <3>1, StaysOK
  <2> QED
    BY <1>5, <1>9, <2>4, <2>5, <2>6, <2>7, AliveIf
<1> QED
  BY <1>3, <1>13, <1>14

LEMMA HandleBridgeCallbackInvokeMoves ==
  ASSUME Typed, BridgeInv, AliveInv, NEW w \in Workers, HandleBridgeCallbackInvoke(w)
  PROVE  AliveInv'
<1>0. CallsOK /\ RoutesOK /\ TasksOK
  BY DEF BridgeInv
<1>1. PICK m : m = Head(toHost[w])
  OBVIOUS
<1>2. PICK n : n = m.call
  OBVIOUS
<1>3. /\ toHost[w] # <<>> /\ m.kind \in Requests
      /\ toHost' = [toHost EXCEPT ![w] = Tail(@)]
      /\ UNCHANGED <<callTimeout, crashed, notices, calls, mailbox, phase>>
      /\ \/ Side(n) = Host /\ running' = running \cup {n} /\ UNCHANGED <<pending, toWorker>>
         \/ Side(n) # Host /\ InvokeWorkerCallback(n, Target(n)) /\ UNCHANGED running
  BY <1>1, <1>2 DEF HandleBridgeCallbackInvoke, Take, Requests
<1>4. n \in Issued /\ Caller(n) = w /\ ~Direct(n)
  BY <1>0, <1>1, <1>2, <1>3, HeadOfHost DEF Outbound, FromWorker, HandleBridgeCallbackInvoke, Take
<1>5. Extends /\ Issued' = Issued
  BY <1>0, <1>3, SameCalls
<1>6. SUFFICES ASSUME AllAlive'
               PROVE  AliveInv'
  BY DEF AliveInv
<1>7. AllAlive
  BY <1>3, <1>6 DEF AllAlive, Alive
<1>8. OnceEach /\ \A c \in Issued : PlaceOK(c)
  BY <1>7, AliveInvIs
<1>9. /\ \A v \in Workers : OneEach(toHost'[v])
      /\ OutAt(w, n)
      /\ \A v \in Workers : \A c :
           /\ OutAt(v, c)' <=> OutAt(v, c) /\ ~(v = w /\ n = c)
           /\ AnswerAt(v, c)' <=> AnswerAt(v, c)
  BY <1>1, <1>2, <1>3, <1>8, HostTakes DEF OnceEach
<1>10. /\ Out(n)
       /\ \A c : (Out(c)' <=> Out(c) /\ c # n) /\ (Answered(c)' <=> Answered(c))
  <2>1. \A v \in Workers : OutAt(v, n) => v = w
    BY <1>0, <1>4, Whence
  <2> QED
    BY <1>9, <2>1 DEF Out, Answered
<1>11. ~InQueue(n) /\ ~IsPending(n) /\ ~Back(n) /\ ~calls[n].settled
  BY <1>4, <1>8, <1>10 DEF PlaceOK, OnePlace
<1>12. CASE Side(n) = Host /\ running' = running \cup {n} /\ UNCHANGED <<pending, toWorker>>
  <2>1. /\ \A v \in Workers : OneEach(toWorker'[v])
        /\ \A b \in Actors : NoTwice(mailbox'[b])
        /\ \A c : /\ Back(c)' <=> Back(c)
                  /\ Asked(c)' <=> Asked(c)
                  /\ IsPending(c)' <=> IsPending(c)
                  /\ InQueue(c)' <=> InQueue(c)
    BY <1>3, <1>8, <1>12, SamePorts DEF OnceEach, Back, Asked, IsPending, InQueue
  <2>2. Side(n)' = Host
    BY <1>4, <1>5, <1>12 DEF Extends
  <2>3. Local(n)'
    BY <1>12, <2>2 DEF Local
  <2>4. PlaceOK(n)'
    BY <1>3, <1>10, <1>11, <2>1, <2>2, <2>3 DEF PlaceOK, OnePlace
  <2>5. ASSUME NEW c \in Issued, c # n
        PROVE  PlaceOK(c)'
    <3>1. Stays(c)
      BY <1>3, <1>10, <1>12, <2>1, <2>5 DEF Stays
    <3> QED
      BY <1>5, <1>8, <3>1, StaysOK
  <2> QED
    BY <1>5, <1>9, <2>1, <2>4, <2>5, AliveIf
<1>13. CASE Side(n) # Host /\ InvokeWorkerCallback(n, Target(n)) /\ UNCHANGED running
  <2>1. PICK f : f = Target(n)
    OBVIOUS
  <2>2. Home[f] \in Workers
    BY <1>0, <1>4, <1>13, <2>1, SidesAre DEF Sides
  <2>3. ~Asked(n) /\ ~Answered(n) /\ n \notin running
    BY <1>4, <1>8, <1>10, <1>13 DEF PlaceOK, OneRequest
  <2>4. /\ \A v \in Workers : OneEach(toWorker'[v])
        /\ \A c : /\ Back(c)' <=> Back(c)
                  /\ Asked(c)' <=> Asked(c) \/ c = n
                  /\ IsPending(c)' <=> IsPending(c) \/ c = n
    BY <1>4, <1>5, <1>7, <1>8, <1>13, <2>1, <2>2, <2>3, InvokeMoves
  <2>5. /\ \A b \in Actors : NoTwice(mailbox'[b])
        /\ \A c : InQueue(c)' <=> InQueue(c)
    BY <1>3, <1>8 DEF OnceEach, InQueue
  <2>6. ~Local(n)' /\ n \notin running' /\ ~calls'[n].settled
    BY <1>3, <1>11, <1>13, <2>3 DEF Local
  <2>7. PlaceOK(n)'
    BY <1>10, <1>11, <2>3, <2>4, <2>5, <2>6 DEF PlaceOK, OnePlace, OneRequest
  <2>8. ASSUME NEW c \in Issued, c # n
        PROVE  PlaceOK(c)'
    <3>1. Stays(c)
      BY <1>3, <1>10, <1>13, <2>4, <2>5, <2>8 DEF Stays
    <3> QED
      BY <1>5, <1>8, <3>1, StaysOK
  <2> QED
    BY <1>5, <1>9, <2>4, <2>5, <2>7, <2>8, AliveIf
<1> QED
  BY <1>3, <1>12, <1>13

\* the request of n settles: n goes back to its caller, the next task starts
LEMMA SettleMoves ==
  ASSUME Typed, BridgeInv, OnceEach, \A c \in Issued : PlaceOK(c), AllAlive,
         NEW w \in Workers, NEW n \in pending[w], NEW ph, Settle(w, {n}, ph), ph # "stopped",
         UNCHANGED crashed, AllAlive',
         \A v \in Workers : OneEach(toHost'[v]),
         \A c : Out(c)' <=> Out(c),
         \A c : c # n => (Answered(c)' <=> Answered(c)),
         Answered(n)' => Answered(n)
  PROVE  AliveInv'
<1>0. CallsOK /\ RoutesOK /\ TasksOK
  BY DEF BridgeInv
<1>1. PICK cs \in SUBSET pending[w] : cs = {n}
  OBVIOUS
<1>2. n \in Issued /\ Side(n) = w /\ ~Direct(n) /\ IsPending(n) /\ w # Host
  BY <1>0, BridgeAssumption DEF Typed, TasksOK, IsPending
<1>3. /\ ~Out(n) /\ ~InQueue(n) /\ ~Local(n) /\ ~Back(n) /\ ~calls[n].settled
      /\ OneRequest(n)
  BY <1>2 DEF PlaceOK, OnePlace
<1>4. /\ Issued' = Issued /\ Extends
      /\ \A c \in Issued : calls'[c].settled <=> (c = n /\ Caller(n) = Host) \/ calls[c].settled
  <2>1. calls' = Settled({c \in {n} : Caller(c) = Host})
    BY DEF Settle
  <2> QED
    BY <1>0, <2>1, CallsSettled
<1>5. running' = running
  BY DEF Settle
<1>6. /\ \A a \in Actors : NoTwice(mailbox'[a])
      /\ \A c \in NextTasks({n}) : InQueue(c)
      /\ \A c : InQueue(c)' <=> InQueue(c) /\ c \notin NextTasks({n})
  <2>1. \A a \in Actors : mailbox'[a] = IF mailbox[a] # <<>> /\ Head(mailbox[a]) \in {n}
                                        THEN Tail(mailbox[a]) ELSE mailbox[a]
    BY DEF Settle
  <2> QED
    BY <1>0, <2>1, MailTaken DEF OnceEach
<1>7. \A c \in NextTasks({n}) : c \in Issued /\ Side(c) = w /\ ~Direct(c) /\ c # n
  <2>1. \A c \in NextTasks({n}) : c \in Issued /\ Side(c) = w /\ ~Direct(c)
    BY <1>0, <1>1, NextTasksAre
  <2> QED
    BY <1>3, <1>6, <2>1
<1>8. \A c : IsPending(c)' <=> (IsPending(c) /\ c # n) \/ c \in NextTasks({n})
  <2>1. /\ pending'[w] = (pending[w] \ {n}) \cup NextTasks({n})
        /\ \A v \in Workers \ {w} : pending'[v] = pending[v]
    BY DEF Settle, Typed
  <2>2. \A v \in Workers \ {w} : n \notin pending[v]
    BY <1>0, <1>2 DEF TasksOK
  <2> QED
    BY <2>1, <2>2 DEF IsPending
<1>9. \A c \in NextTasks({n}) : ~Asked(c) /\ ~Answered(c) /\ c \notin running
  BY <1>2, <1>6, <1>7 DEF PlaceOK, OneRequest
<1>10. PICK posted : DeliverIn(phase', posted) /\ PostedAt(w, {n}, posted)
  BY <1>0, <1>1, SettlePosts
<1>11. \A v \in Workers :
         /\ posted[v] \in Seq(Inbound(Issued')) /\ OneEach(posted[v])
         /\ \A c : /\ HasRequest(posted[v], c) <=> v = w /\ c \in NextTasks({n})
                   /\ HasReply(posted[v], c) <=> c = n /\ Caller(n) = v
  <2> TAKE v \in Workers
  <2>1. /\ posted[v] \in Seq(Inbound(Issued)) /\ OneEach(posted[v])
        /\ \A m \in Range(posted[v]) :
             \/ m.kind = "result" /\ m.call = n /\ Caller(n) = v
             \/ m.kind = "call" /\ m.call \in NextTasks({n}) /\ v = w
        /\ Caller(n) = v => Msg("result", n) \in Range(posted[v])
        /\ v = w => \A c \in NextTasks({n}) : Msg("call", c) \in Range(posted[v])
    BY <1>10 DEF PostedAt
  <2>2. \A k, c : Msg(k, c).kind = k /\ Msg(k, c).call = c
    BY DEF Msg
  <2>3. \A c : /\ HasRequest(posted[v], c) <=> v = w /\ c \in NextTasks({n})
               /\ HasReply(posted[v], c) <=> c = n /\ Caller(n) = v
    <3> TAKE c
    <3>1. /\ HasRequest(posted[v], c) <=> \E m \in Range(posted[v]) : m.kind \in Requests /\ m.call = c
          /\ HasReply(posted[v], c) <=> \E m \in Range(posted[v]) : m.kind \notin Requests /\ m.call = c
      BY <2>1, PortIs
    <3>2. "call" \in Requests /\ "result" \notin Requests
      BY DEF Requests
    <3>3. ASSUME NEW m \in Range(posted[v]), m.call = c
          PROVE  /\ m.kind \in Requests => v = w /\ c \in NextTasks({n})
                 /\ m.kind \notin Requests => c = n /\ Caller(n) = v
      BY <2>1, <3>2, <3>3
    <3>4. ASSUME v = w, c \in NextTasks({n})
          PROVE  \E m \in Range(posted[v]) : m.kind \in Requests /\ m.call = c
      <4>1. Msg("call", c) \in Range(posted[v])
        BY <2>1, <3>4
      <4> QED
        BY <2>2, <3>2, <4>1
    <3>5. ASSUME c = n, Caller(n) = v
          PROVE  \E m \in Range(posted[v]) : m.kind \notin Requests /\ m.call = c
      <4>1. Msg("result", n) \in Range(posted[v])
        BY <2>1, <3>5
      <4> QED
        BY <2>2, <3>2, <3>5, <4>1
    <3> QED
      BY <3>1, <3>3, <3>4, <3>5
  <2> QED
    BY <1>4, <2>1, <2>3
<1>12. \A v \in Workers :
         /\ OneEach(toWorker'[v])
         /\ \A c : /\ AskedAt(v, c)' <=> AskedAt(v, c) \/ (v = w /\ c \in NextTasks({n}))
                   /\ ResultAt(v, c)' <=> ResultAt(v, c) \/ (c = n /\ Caller(n) = v)
  <2>1. \A v \in Workers : v \notin crashed /\ phase'[v] # "stopped"
    BY DEF AllAlive, Alive
  <2>2. \A v \in Workers :
          \A c : /\ ~(AskedAt(v, c) /\ HasRequest(posted[v], c))
                 /\ ~(ResultAt(v, c) /\ HasReply(posted[v], c))
    BY <1>3, <1>9, <1>11 DEF Asked, Back
  <2>3. \A v \in Workers :
          /\ OneEach(toWorker'[v])
          /\ \A c : /\ AskedAt(v, c)' <=> AskedAt(v, c) \/ HasRequest(posted[v], c)
                    /\ ResultAt(v, c)' <=> ResultAt(v, c) \/ HasReply(posted[v], c)
    BY <1>4, <1>10, <1>11, <2>1, <2>2, HostPosts DEF OnceEach
  <2> QED
    BY <1>11, <2>3
<1>13. \A c : /\ Asked(c)' <=> Asked(c) \/ c \in NextTasks({n})
              /\ Back(c)' <=> Back(c) \/ (c = n /\ Caller(n) # Host)
  <2>1. Caller(n) # Host <=> \E v \in Workers : Caller(n) = v
    BY <1>0, <1>2, SidesAre, BridgeAssumption DEF Sides
  <2> QED
    BY <1>12, <2>1 DEF Asked, Back
<1>14. \A c \in Issued : Local(c)' <=> Local(c)
  BY <1>4, <1>5 DEF Local, Extends
<1>15. PlaceOK(n)'
  <2>1. /\ ~Out(n)' /\ ~InQueue(n)' /\ ~IsPending(n)' /\ ~Local(n)'
        /\ Back(n)' <=> Caller(n) # Host
        /\ calls'[n].settled <=> Caller(n) = Host
        /\ Asked(n)' <=> Asked(n)
    BY <1>2, <1>3, <1>4, <1>6, <1>7, <1>8, <1>13, <1>14
  <2>2. OnePlace(n)'
    BY <2>1 DEF OnePlace
  <2>3. OneRequest(n)'
    BY <1>3, <1>5, <2>1 DEF OneRequest
  <2> QED
    BY <2>2, <2>3 DEF PlaceOK
<1>16. ASSUME NEW c \in NextTasks({n})
       PROVE  PlaceOK(c)'
  <2>1. c \in Issued /\ Side(c) = w /\ ~Direct(c) /\ c # n /\ InQueue(c)
    BY <1>6, <1>7
  <2>2. ~Out(c) /\ ~IsPending(c) /\ ~Local(c) /\ ~Back(c) /\ ~calls[c].settled
    BY <2>1 DEF PlaceOK, OnePlace
  <2>3. /\ ~Out(c)' /\ ~InQueue(c)' /\ IsPending(c)' /\ ~Local(c)' /\ ~Back(c)' /\ ~calls'[c].settled
        /\ Asked(c)' /\ ~Answered(c)' /\ c \notin running'
    BY <1>4, <1>5, <1>6, <1>8, <1>9, <1>13, <1>14, <2>1, <2>2
  <2>4. OnePlace(c)'
    BY <2>3 DEF OnePlace
  <2>5. OneRequest(c)'
    BY <2>3 DEF OneRequest
  <2> QED
    BY <2>4, <2>5 DEF PlaceOK
<1>17. ASSUME NEW c \in Issued, c # n, c \notin NextTasks({n})
       PROVE  PlaceOK(c)'
  <2>1. Stays(c)
    BY <1>4, <1>5, <1>6, <1>8, <1>13, <1>17 DEF Stays
  <2> QED
    BY <1>4, <2>1, StaysOK
<1> QED
  BY <1>4, <1>6, <1>12, <1>15, <1>16, <1>17, AliveIf

LEMMA OnAnswerMoves ==
  ASSUME Typed, BridgeInv, AliveInv, NEW w \in Workers, OnAnswer(w)
  PROVE  AliveInv'
<1>0. CallsOK /\ RoutesOK /\ TasksOK
  BY DEF BridgeInv
<1>1. PICK m : m = Head(toHost[w])
  OBVIOUS
<1>2. PICK n : n = m.call
  OBVIOUS
<1>3. /\ toHost[w] # <<>> /\ m.kind \notin Requests
      /\ toHost' = [toHost EXCEPT ![w] = Tail(@)]
      /\ UNCHANGED <<callTimeout, crashed, notices>>
      /\ \/ n \in pending[w] /\ Settle(w, {n}, PhaseAfter(w, pending[w] \ {n}, leftover[w]))
         \/ n \notin pending[w] /\ UNCHANGED <<calls, mailbox, pending, phase, toWorker, running>>
  BY <1>1, <1>2 DEF OnAnswer, Take, Requests
<1>4. SUFFICES ASSUME AllAlive'
               PROVE  AliveInv'
  BY DEF AliveInv
<1>5. AllAlive
  <2>1. CASE n \in pending[w] /\ Settle(w, {n}, PhaseAfter(w, pending[w] \ {n}, leftover[w]))
    BY <1>3, <1>4, <2>1 DEF AllAlive, Alive, Settle, PhaseAfter, Typed
  <2>2. CASE UNCHANGED phase
    BY <1>3, <1>4, <2>2 DEF AllAlive, Alive
  <2> QED
    BY <1>3, <2>1, <2>2
<1>6. OnceEach /\ \A c \in Issued : PlaceOK(c)
  BY <1>5, AliveInvIs
<1>7. /\ \A v \in Workers : OneEach(toHost'[v])
      /\ AnswerAt(w, n)
      /\ \A v \in Workers : \A c :
           /\ OutAt(v, c)' <=> OutAt(v, c)
           /\ AnswerAt(v, c)' <=> AnswerAt(v, c) /\ ~(v = w /\ n = c)
  BY <1>1, <1>2, <1>3, <1>6, HostTakes DEF OnceEach
<1>8. /\ n \in Issued /\ Side(n) = w /\ ~Direct(n) /\ Answered(n)
      /\ \A c : (Out(c)' <=> Out(c)) /\ (c # n => (Answered(c)' <=> Answered(c)))
      /\ ~Answered(n)'
  <2>1. Answered(n) /\ Side(n) = w /\ n \in Issued /\ ~Direct(n)
    BY <1>0, <1>7, Whence DEF Answered
  <2>2. \A v \in Workers : AnswerAt(v, n) => v = w
    BY <1>0, <2>1, Whence
  <2> QED
    BY <1>7, <2>1, <2>2 DEF Out, Answered
<1>9. CASE n \in pending[w] /\ Settle(w, {n}, PhaseAfter(w, pending[w] \ {n}, leftover[w]))
  <2>1. PICK ph : ph = PhaseAfter(w, pending[w] \ {n}, leftover[w])
    OBVIOUS
  <2>2. ph # "stopped"
    BY <1>4, <1>9, <2>1 DEF Settle, AllAlive, Alive, Typed
  <2> QED
    BY <1>3, <1>4, <1>5, <1>6, <1>7, <1>8, <1>9, <2>1, <2>2, SettleMoves
<1>10. CASE n \notin pending[w] /\ UNCHANGED <<calls, mailbox, pending, phase, toWorker, running>>
  <2>1. Extends /\ Issued' = Issued
    BY <1>0, <1>10, SameCalls
  <2>2. /\ \A v \in Workers : OneEach(toWorker'[v])
        /\ \A b \in Actors : NoTwice(mailbox'[b])
        /\ \A c : /\ Back(c)' <=> Back(c)
                  /\ Asked(c)' <=> Asked(c)
                  /\ IsPending(c)' <=> IsPending(c)
                  /\ InQueue(c)' <=> InQueue(c)
    BY <1>6, <1>10, SamePorts DEF OnceEach, Back, Asked, IsPending, InQueue
  <2>3. ~IsPending(n)
    BY <1>0, <1>8, <1>10, Whence DEF IsPending
  <2>4. PlaceOK(n)'
    <3>1. PlaceOK(n) /\ w # Host
      BY <1>6, <1>8, BridgeAssumption
    <3>2. OnePlace(n) /\ OneRequest(n)
      BY <1>8, <3>1 DEF PlaceOK
    <3>3. Local(n)' <=> Local(n)
      BY <1>8, <1>10, <2>1 DEF Extends, Local
    <3>4. OnePlace(n)'
      BY <1>8, <1>10, <2>2, <3>2, <3>3 DEF OnePlace
    <3>5. OneRequest(n)'
      BY <1>8, <1>10, <2>2, <2>3, <3>2 DEF OneRequest
    <3> QED
      BY <3>4, <3>5 DEF PlaceOK
  <2>5. ASSUME NEW c \in Issued, c # n
        PROVE  PlaceOK(c)'
    <3>1. Stays(c)
      BY <1>8, <1>10, <2>2, <2>5 DEF Stays
    <3> QED
      BY <1>6, <2>1, <3>1, StaysOK
  <2> QED
    BY <1>7, <2>1, <2>2, <2>4, <2>5, AliveIf
<1> QED
  BY <1>3, <1>9, <1>10

LEMMA TimerFiresMoves ==
  ASSUME Typed, BridgeInv, AliveInv, NEW w \in Workers, NEW n, TimerFires(w, n)
  PROVE  AliveInv'
<1>1. PICK ph : ph = PhaseAfter(w, pending[w] \ {n}, leftover[w])
  OBVIOUS
<1>2. n \in pending[w] /\ Settle(w, {n}, ph) /\ UNCHANGED <<toHost, crashed>>
  BY <1>1 DEF TimerFires
<1>3. SUFFICES ASSUME AllAlive'
               PROVE  AliveInv'
  BY DEF AliveInv
<1>4. AllAlive /\ ph # "stopped"
  BY <1>1, <1>2, <1>3 DEF AllAlive, Alive, Settle, PhaseAfter, Typed
<1>5. OnceEach /\ \A c \in Issued : PlaceOK(c)
  BY <1>4, AliveInvIs
<1>6. /\ \A v \in Workers : OneEach(toHost'[v])
      /\ \A c : (Out(c)' <=> Out(c)) /\ (Answered(c)' <=> Answered(c))
  BY <1>2, <1>5, SamePorts DEF OnceEach, Out, Answered
<1> QED
  BY <1>2, <1>3, <1>4, <1>5, <1>6, SettleMoves

LEMMA HostReturnsMoves ==
  ASSUME Typed, BridgeInv, AliveInv, NEW n, HostReturns(n)
  PROVE  AliveInv'
<1>0. CallsOK /\ RoutesOK /\ TasksOK
  BY DEF BridgeInv
<1>1. /\ n \in Issued /\ n \in running /\ Side(n) = Host /\ running' = running \ {n}
      /\ Deliver(Only(Caller(n), <<Msg("result", n)>>))
      /\ UNCHANGED <<callTimeout, calls, mailbox, pending, phase, toHost, crashed, notices>>
  BY DEF HostReturns, Typed
<1>2. PICK w \in Workers : w = Caller(n)
  BY <1>0, <1>1, SidesAre DEF CallsOK, Sides
<1>3. Extends /\ Issued' = Issued
  BY <1>0, <1>1, SameCalls
<1>4. SUFFICES ASSUME AllAlive'
               PROVE  AliveInv'
  BY DEF AliveInv
<1>5. AllAlive
  BY <1>1, <1>4 DEF AllAlive, Alive
<1>6. OnceEach /\ \A c \in Issued : PlaceOK(c)
  BY <1>5, AliveInvIs
<1>7. ~Out(n) /\ ~InQueue(n) /\ ~IsPending(n) /\ ~Back(n) /\ ~calls[n].settled
  BY <1>1, <1>6 DEF PlaceOK, OnePlace, Local
<1>8. PICK m : m = Msg("result", n)
  OBVIOUS
<1>9. m \in Inbound(Issued') /\ m.kind \notin Requests /\ m.call = n
  BY <1>1, <1>3, <1>8 DEF Msg, Inbound, Requests
<1>10. ~ResultAt(w, n)
  BY <1>7 DEF Back
<1>11. /\ \A v \in Workers : OneEach(toWorker'[v])
       /\ \A v \in Workers : \A c :
            /\ AskedAt(v, c)' <=> AskedAt(v, c) \/ (v = w /\ m.kind \in Requests /\ m.call = c)
            /\ ResultAt(v, c)' <=> ResultAt(v, c) \/ (v = w /\ m.kind \notin Requests /\ m.call = c)
  BY <1>1, <1>2, <1>3, <1>5, <1>6, <1>8, <1>9, <1>10, HostPostsOne DEF OnceEach
<1>12. /\ \A v \in Workers : OneEach(toHost'[v])
       /\ \A b \in Actors : NoTwice(mailbox'[b])
       /\ \A c : /\ Out(c)' <=> Out(c)
                 /\ Answered(c)' <=> Answered(c)
                 /\ Back(c)' <=> Back(c) \/ c = n
                 /\ Asked(c)' <=> Asked(c)
                 /\ IsPending(c)' <=> IsPending(c)
                 /\ InQueue(c)' <=> InQueue(c)
  BY <1>1, <1>6, <1>9, <1>11, SamePorts DEF OnceEach, Out, Answered, Back, Asked, IsPending, InQueue
<1>13. ~Local(n)' /\ Side(n)' = Host /\ ~calls'[n].settled
  BY <1>1, <1>3, <1>7 DEF Local, Extends
<1>14. PlaceOK(n)'
  BY <1>7, <1>12, <1>13 DEF PlaceOK, OnePlace
<1>15. ASSUME NEW c \in Issued, c # n
       PROVE  PlaceOK(c)'
  <2>1. Stays(c)
    BY <1>1, <1>12, <1>15 DEF Stays
  <2> QED
    BY <1>3, <1>6, <2>1, StaysOK
<1> QED
  BY <1>3, <1>11, <1>12, <1>14, <1>15, AliveIf

LEMMA DisposeMoves ==
  ASSUME Typed, BridgeInv, AliveInv, Dispose
  PROVE  AliveInv'
<1>0. CallsOK /\ RoutesOK /\ TasksOK
  BY DEF BridgeInv
<1>1. UNCHANGED <<callTimeout, calls, mailbox, pending, toHost, crashed, notices>>
  BY DEF Dispose
<1>2. Extends /\ Issued' = Issued
  BY <1>0, <1>1, SameCalls
<1>3. SUFFICES ASSUME AllAlive'
               PROVE  AliveInv'
  BY DEF AliveInv
<1>4. \A v \in Workers : v \notin crashed /\ phase'[v] # "stopped"
  BY <1>1, <1>3 DEF AllAlive, Alive
<1>5. AllAlive
  BY <1>4 DEF AllAlive, Alive, Dispose, Open
<1>6. OnceEach /\ \A c \in Issued : PlaceOK(c)
  BY <1>5, AliveInvIs
<1>7. running' = running
  <2>1. \A c \in running : Side(c) # Host => Side(c) \in Workers
    BY <1>0, SidesAre DEF Typed, Sides
  <2> QED
    BY <1>4, <2>1 DEF Dispose
<1> DEFINE posted == [w \in Workers |-> <<>>]
<1>8. DeliverIn(phase', posted)
  BY DEF Dispose
<1>9. \A v \in Workers :
        /\ posted[v] \in Seq(Inbound(Issued')) /\ OneEach(posted[v])
        /\ \A c : ~HasRequest(posted[v], c) /\ ~HasReply(posted[v], c)
  BY DEF OneEach, HasRequest, HasReply
<1> HIDE DEF posted
<1>10. \A v \in Workers :
         /\ OneEach(toWorker'[v])
         /\ \A c : /\ AskedAt(v, c)' <=> AskedAt(v, c) \/ HasRequest(posted[v], c)
                   /\ ResultAt(v, c)' <=> ResultAt(v, c) \/ HasReply(posted[v], c)
  BY <1>2, <1>4, <1>6, <1>8, <1>9, HostPosts DEF OnceEach
<1>11. /\ \A v \in Workers : OneEach(toHost'[v])
       /\ \A b \in Actors : NoTwice(mailbox'[b])
       /\ \A c : /\ Out(c)' <=> Out(c)
                 /\ Answered(c)' <=> Answered(c)
                 /\ Back(c)' <=> Back(c)
                 /\ Asked(c)' <=> Asked(c)
                 /\ IsPending(c)' <=> IsPending(c)
                 /\ InQueue(c)' <=> InQueue(c)
  BY <1>1, <1>6, <1>9, <1>10, SamePorts DEF OnceEach, Out, Answered, Back, Asked, IsPending, InQueue
<1>12. ASSUME NEW c \in Issued
       PROVE  PlaceOK(c)'
  <2>1. Stays(c)
    BY <1>1, <1>7, <1>11 DEF Stays
  <2> QED
    BY <1>2, <1>6, <2>1, StaysOK
<1> QED
  BY <1>2, <1>10, <1>11, <1>12, AliveIf

LEMMA HandleCallMoves ==
  ASSUME Typed, BridgeInv, AliveInv, NEW w \in Workers, HandleCall(w)
  PROVE  AliveInv'
<1>0. CallsOK /\ RoutesOK /\ TasksOK
  BY DEF BridgeInv
<1>1. PICK m : m = Head(toWorker[w])
  OBVIOUS
<1>2. PICK n : n = m.call
  OBVIOUS
<1>3. /\ toWorker[w] # <<>> /\ m.kind \in Requests
      /\ toWorker' = [toWorker EXCEPT ![w] = Tail(@)]
      /\ UNCHANGED <<callTimeout, mailbox, pending, phase, crashed, notices, calls, toHost>>
      /\ running' = running \cup {n}
  BY <1>1, <1>2 DEF HandleCall, Handles, Requests
<1>4. Extends /\ Issued' = Issued
  BY <1>0, <1>3, SameCalls
<1>5. SUFFICES ASSUME AllAlive'
               PROVE  AliveInv'
  BY DEF AliveInv
<1>6. AllAlive
  BY <1>3, <1>5 DEF AllAlive, Alive
<1>7. OnceEach /\ \A c \in Issued : PlaceOK(c)
  BY <1>6, AliveInvIs
<1>8. /\ \A v \in Workers : OneEach(toWorker'[v])
      /\ AskedAt(w, n)
      /\ \A v \in Workers : \A c :
           /\ AskedAt(v, c)' <=> AskedAt(v, c) /\ ~(v = w /\ n = c)
           /\ ResultAt(v, c)' <=> ResultAt(v, c)
  BY <1>1, <1>2, <1>3, <1>7, WorkerTakes DEF OnceEach
<1>9. Side(n) = w /\ n \in Issued /\ ~Direct(n) /\ w # Host /\ Asked(n)
  BY <1>0, <1>8, Whence, BridgeAssumption DEF Asked
<1>10. OnePlace(n) /\ ~Out(n) /\ ~InQueue(n) /\ n \notin running /\ ~Answered(n)
  BY <1>7, <1>9 DEF PlaceOK, OneRequest
<1>11. /\ \A v \in Workers : OneEach(toHost'[v])
       /\ \A b \in Actors : NoTwice(mailbox'[b])
       /\ \A c : /\ Out(c)' <=> Out(c)
                 /\ Answered(c)' <=> Answered(c)
                 /\ Back(c)' <=> Back(c)
                 /\ Asked(c)' <=> Asked(c) /\ c # n
                 /\ IsPending(c)' <=> IsPending(c)
                 /\ InQueue(c)' <=> InQueue(c)
  <2>1. \A v \in Workers : AskedAt(v, n) => v = w
    BY <1>0, <1>9, Whence
  <2> QED
    BY <1>3, <1>7, <1>8, <2>1, SamePorts DEF OnceEach, Out, Answered, Back, Asked, IsPending, InQueue
<1>12. Local(n)' <=> Local(n)
  BY <1>4, <1>9 DEF Local, Extends
<1>13. PlaceOK(n)'
  <2>1. OnePlace(n)'
    BY <1>3, <1>10, <1>11, <1>12 DEF OnePlace
  <2>2. OneRequest(n)'
    BY <1>3, <1>10, <1>11 DEF OneRequest
  <2> QED
    BY <2>1, <2>2 DEF PlaceOK
<1>14. ASSUME NEW c \in Issued, c # n
       PROVE  PlaceOK(c)'
  <2>1. Stays(c)
    BY <1>3, <1>11, <1>14 DEF Stays
  <2> QED
    BY <1>4, <1>7, <2>1, StaysOK
<1> QED
  BY <1>4, <1>8, <1>11, <1>13, <1>14, AliveIf

LEMMA HandleResultMoves ==
  ASSUME Typed, BridgeInv, AliveInv, NEW w \in Workers, HandleResult(w)
  PROVE  AliveInv'
<1>0. CallsOK /\ RoutesOK /\ TasksOK
  BY DEF BridgeInv
<1>1. PICK m : m = Head(toWorker[w])
  OBVIOUS
<1>2. PICK n : n = m.call
  OBVIOUS
<1>3. /\ toWorker[w] # <<>> /\ m.kind \notin Requests
      /\ toWorker' = [toWorker EXCEPT ![w] = Tail(@)]
      /\ UNCHANGED <<callTimeout, mailbox, pending, phase, crashed, notices, running, toHost>>
      /\ calls' = Settled({n})
  BY <1>1, <1>2 DEF HandleResult, Handles, Requests
<1>4. /\ Extends /\ Issued' = Issued
      /\ \A c \in Issued : calls'[c].settled <=> c = n \/ calls[c].settled
  <2>1. PICK cs : cs = {n} /\ calls' = Settled(cs)
    BY <1>3
  <2>2. /\ Extends /\ Issued' = Issued
        /\ \A c \in Issued : calls'[c].settled <=> c \in cs \/ calls[c].settled
    BY <1>0, <2>1, CallsSettled
  <2> QED
    BY <2>1, <2>2
<1>5. SUFFICES ASSUME AllAlive'
               PROVE  AliveInv'
  BY DEF AliveInv
<1>6. AllAlive
  BY <1>3, <1>5 DEF AllAlive, Alive
<1>7. OnceEach /\ \A c \in Issued : PlaceOK(c)
  BY <1>6, AliveInvIs
<1>8. /\ \A v \in Workers : OneEach(toWorker'[v])
      /\ ResultAt(w, n)
      /\ \A v \in Workers : \A c :
           /\ AskedAt(v, c)' <=> AskedAt(v, c)
           /\ ResultAt(v, c)' <=> ResultAt(v, c) /\ ~(v = w /\ n = c)
  BY <1>1, <1>2, <1>3, <1>7, WorkerTakes DEF OnceEach
<1>9. Caller(n) = w /\ n \in Issued /\ ~Direct(n) /\ Back(n)
  BY <1>0, <1>8, Whence DEF Back
<1>10. PlaceOK(n) /\ ~Out(n) /\ ~InQueue(n) /\ ~IsPending(n) /\ ~Local(n)
  BY <1>7, <1>9 DEF PlaceOK, OnePlace
<1>11. /\ \A v \in Workers : OneEach(toHost'[v])
       /\ \A b \in Actors : NoTwice(mailbox'[b])
       /\ \A c : /\ Out(c)' <=> Out(c)
                 /\ Answered(c)' <=> Answered(c)
                 /\ Back(c)' <=> Back(c) /\ c # n
                 /\ Asked(c)' <=> Asked(c)
                 /\ IsPending(c)' <=> IsPending(c)
                 /\ InQueue(c)' <=> InQueue(c)
  <2>1. \A v \in Workers : ResultAt(v, n) => v = w
    BY <1>0, <1>9, Whence
  <2> QED
    BY <1>3, <1>7, <1>8, <2>1, SamePorts DEF OnceEach, Out, Answered, Back, Asked, IsPending, InQueue
<1>12. Local(n)' <=> Local(n)
  BY <1>3, <1>4, <1>9 DEF Local, Extends
<1>13. PlaceOK(n)'
  <2>1. OnePlace(n)'
    BY <1>4, <1>9, <1>10, <1>11, <1>12 DEF OnePlace
  <2>2. Side(n)' # Host /\ ~Direct(n)' => OneRequest(n)'
    <3>1. (Side(n)' # Host <=> Side(n) # Host) /\ (Direct(n)' <=> Direct(n))
      BY <1>4, <1>9 DEF Extends
    <3> QED
      BY <1>3, <1>10, <1>11, <3>1 DEF PlaceOK, OneRequest
  <2> QED
    BY <2>1, <2>2 DEF PlaceOK
<1>14. ASSUME NEW c \in Issued, c # n
       PROVE  PlaceOK(c)'
  <2>1. Stays(c)
    BY <1>3, <1>4, <1>11, <1>14 DEF Stays
  <2> QED
    BY <1>4, <1>7, <2>1, StaysOK
<1> QED
  BY <1>4, <1>8, <1>11, <1>13, <1>14, AliveIf

LEMMA WorkerReturnsMoves ==
  ASSUME Typed, BridgeInv, AliveInv, NEW n, WorkerReturns(n)
  PROVE  AliveInv'
<1>0. CallsOK /\ RoutesOK /\ TasksOK
  BY DEF BridgeInv
<1>1. /\ n \in Issued /\ n \in running /\ Side(n) # Host /\ running' = running \ {n}
      /\ UNCHANGED <<callTimeout, mailbox, pending, phase, toWorker, crashed, notices>>
  BY DEF WorkerReturns, Typed
<1>2. PICK w \in Workers : w = Side(n)
  BY <1>0, <1>1, SidesAre DEF Sides
<1>3. SUFFICES ASSUME AllAlive'
               PROVE  AliveInv'
  BY DEF AliveInv
<1>4. AllAlive
  BY <1>1, <1>3 DEF AllAlive, Alive
<1>5. OnceEach /\ \A c \in Issued : PlaceOK(c)
  BY <1>4, AliveInvIs
<1>6. CASE Direct(n)
  <2>1. calls' = Settled({n}) /\ UNCHANGED toHost
    BY <1>6 DEF WorkerReturns
  <2>2. /\ Extends /\ Issued' = Issued
        /\ \A c \in Issued : calls'[c].settled <=> c = n \/ calls[c].settled
    <3>1. PICK cs : cs = {n} /\ calls' = Settled(cs)
      BY <2>1
    <3>2. /\ Extends /\ Issued' = Issued
          /\ \A c \in Issued : calls'[c].settled <=> c \in cs \/ calls[c].settled
      BY <1>0, <3>1, CallsSettled
    <3> QED
      BY <3>1, <3>2
  <2>3. /\ \A v \in Workers : OneEach(toHost'[v]) /\ OneEach(toWorker'[v])
        /\ \A b \in Actors : NoTwice(mailbox'[b])
        /\ \A c : /\ Out(c)' <=> Out(c)
                  /\ Answered(c)' <=> Answered(c)
                  /\ InQueue(c)' <=> InQueue(c)
                  /\ Back(c)' <=> Back(c)
                  /\ Asked(c)' <=> Asked(c)
                  /\ IsPending(c)' <=> IsPending(c)
    BY <1>1, <1>5, <2>1, SamePlaces
  <2>4. ~Out(n) /\ ~InQueue(n) /\ ~IsPending(n) /\ ~Back(n)
    BY <1>1, <1>5, <1>6 DEF PlaceOK, OnePlace, Local
  <2>5. ~Local(n)' /\ Direct(n)' /\ calls'[n].settled
    BY <1>1, <1>6, <2>2 DEF Local, Extends
  <2>6. PlaceOK(n)'
    BY <2>3, <2>4, <2>5 DEF PlaceOK, OnePlace
  <2>7. ASSUME NEW c \in Issued, c # n
        PROVE  PlaceOK(c)'
    <3>1. Stays(c)
      BY <1>1, <2>2, <2>3, <2>7 DEF Stays
    <3> QED
      BY <1>5, <2>2, <3>1, StaysOK
  <2> QED
    BY <2>2, <2>3, <2>6, <2>7, AliveIf
<1>7. CASE ~Direct(n)
  <2>1. PICK m : m = Msg("answer", n)
    OBVIOUS
  <2>2. UNCHANGED calls /\ toHost' = [toHost EXCEPT ![w] = Append(@, m)]
    BY <1>2, <1>7, <2>1 DEF WorkerReturns, WorkerPosts
  <2>3. Extends /\ Issued' = Issued
    BY <1>0, <2>2, SameCalls
  <2>4. m \in Outbound(Issued') /\ m.kind \notin Requests /\ m.call = n
    BY <1>1, <2>1, <2>3 DEF Msg, Outbound, Requests
  <2>5. PlaceOK(n) /\ OnePlace(n) /\ ~Out(n) /\ ~InQueue(n) /\ ~Asked(n) /\ ~Answered(n)
    BY <1>1, <1>5, <1>7 DEF PlaceOK, OneRequest
  <2>6. ~AnswerAt(w, n)
    BY <2>5 DEF Answered
  <2>7. /\ \A v \in Workers : OneEach(toHost'[v])
        /\ \A v \in Workers : \A c :
             /\ OutAt(v, c)' <=> OutAt(v, c) \/ (v = w /\ m.kind \in Requests /\ m.call = c)
             /\ AnswerAt(v, c)' <=> AnswerAt(v, c) \/ (v = w /\ m.kind \notin Requests /\ m.call = c)
    BY <1>5, <2>2, <2>3, <2>4, <2>6, ThreadPosts DEF OnceEach
  <2>8. /\ \A v \in Workers : OneEach(toWorker'[v])
        /\ \A b \in Actors : NoTwice(mailbox'[b])
        /\ \A c : /\ Out(c)' <=> Out(c)
                  /\ Answered(c)' <=> Answered(c) \/ c = n
                  /\ InQueue(c)' <=> InQueue(c)
                  /\ Back(c)' <=> Back(c)
                  /\ Asked(c)' <=> Asked(c)
                  /\ IsPending(c)' <=> IsPending(c)
    BY <1>1, <1>5, <2>4, <2>7, SamePorts DEF OnceEach, Out, Answered, Back, Asked, IsPending, InQueue
  <2>9. Side(n)' # Host /\ ~Direct(n)' /\ ~Local(n)' /\ ~Local(n)
    BY <1>1, <1>7, <2>3 DEF Local, Extends
  <2>10. PlaceOK(n)'
    <3>1. OnePlace(n)'
      BY <2>2, <2>5, <2>8, <2>9 DEF OnePlace
    <3>2. OneRequest(n)'
      BY <1>1, <2>5, <2>8 DEF OneRequest
    <3> QED
      BY <3>1, <3>2 DEF PlaceOK
  <2>11. ASSUME NEW c \in Issued, c # n
         PROVE  PlaceOK(c)'
    <3>1. Stays(c)
      BY <1>1, <2>2, <2>8, <2>11 DEF Stays
    <3> QED
      BY <1>5, <2>3, <3>1, StaysOK
  <2> QED
    BY <2>3, <2>7, <2>8, <2>10, <2>11, AliveIf
<1> QED
  BY <1>6, <1>7

\* a thread that dies, or an 'error' event: not all threads live
LEMMA LeftoverTimerFiresMoves ==
  ASSUME Typed, BridgeInv, AliveInv, NEW w \in Workers, LeftoverTimerFires(w)
  PROVE  AliveInv'
<1>0. CallsOK /\ RoutesOK /\ TasksOK
  BY DEF BridgeInv
<1>1. PICK ph : ph = PhaseAfter(w, pending[w], leftover[w] \ {"call"})
  OBVIOUS
<1>2. Settle(w, {}, ph) /\ UNCHANGED <<toHost, crashed>>
  BY <1>1 DEF LeftoverTimerFires
<1>3. SUFFICES ASSUME AllAlive'
               PROVE  AliveInv'
  BY DEF AliveInv
<1>4. AllAlive /\ ph # "stopped" /\ \A v \in Workers : v \notin crashed /\ phase'[v] # "stopped"
  BY <1>1, <1>2, <1>3 DEF AllAlive, Alive, Settle, PhaseAfter, Typed
<1>5. NextTasks({}) = {}
  BY DEF NextTasks
<1>6. UNCHANGED <<calls, mailbox, pending, running>>
  <2>1. calls' = calls
    BY <1>2 DEF Settle, Settled, Typed, Issued
  <2>2. mailbox' = mailbox
    BY <1>2 DEF Settle, Typed
  <2>3. pending' = pending
    BY <1>2, <1>5 DEF Settle, Typed
  <2>4. running' = running
    BY <1>2, <1>4 DEF Settle
  <2> QED
    BY <2>1, <2>2, <2>3, <2>4
<1>7. toWorker' = toWorker
  <2>1. PICK cs \in SUBSET pending[w] : cs = {}
    OBVIOUS
  <2>2. PICK posted : DeliverIn(phase', posted) /\ PostedAt(w, cs, posted)
    BY <1>0, <1>2, <2>1, SettlePosts
  <2>3. \A v \in Workers : posted[v] = <<>>
    <3>1. ASSUME NEW v \in Workers
          PROVE  posted[v] \in Seq(Inbound(Issued)) /\ \A m : m \notin Range(posted[v])
      BY <1>5, <2>1, <2>2 DEF PostedAt
    <3>2. ASSUME NEW s \in Seq(Inbound(Issued)), s # <<>>
          PROVE  s[1] \in Range(s)
      <4>1. 1 \in DOMAIN s
        BY <3>2, EmptySeq, LenProperties
      <4> QED
        BY <4>1 DEF Range
    <3> QED
      BY <3>1, <3>2
  <2>4. \A v \in Workers : toWorker'[v] = toWorker[v] \o posted[v]
    BY <1>4, <2>2 DEF DeliverIn
  <2>5. \A v \in Workers : toWorker'[v] = toWorker[v]
    <3>1. ASSUME NEW v \in Workers
          PROVE  toWorker'[v] = toWorker[v]
      <4>1. toWorker[v] \in Seq([kind : {"call", "invoke", "result"}, call : Issued])
        BY DEF Typed
      <4>2. toWorker[v] \o <<>> = toWorker[v]
        BY <4>1, ConcatEmptySeq
      <4> QED
        BY <2>3, <2>4, <4>2
    <3> QED
      BY <3>1
  <2> QED
    BY <2>2, <2>5 DEF DeliverIn, Typed
<1>8. OnceEach /\ \A c \in Issued : PlaceOK(c)
  BY <1>4, AliveInvIs
<1>9. Extends /\ Issued' = Issued
  BY <1>0, <1>6, SameCalls
<1>10. /\ \A v \in Workers : OneEach(toHost'[v]) /\ OneEach(toWorker'[v])
       /\ \A b \in Actors : NoTwice(mailbox'[b])
       /\ \A c : /\ Out(c)' <=> Out(c)
                 /\ Answered(c)' <=> Answered(c)
                 /\ InQueue(c)' <=> InQueue(c)
                 /\ Back(c)' <=> Back(c)
                 /\ Asked(c)' <=> Asked(c)
                 /\ IsPending(c)' <=> IsPending(c)
  BY <1>2, <1>6, <1>7, <1>8, SamePlaces
<1>11. ASSUME NEW c \in Issued
       PROVE  PlaceOK(c)'
  <2>1. Stays(c)
    BY <1>6, <1>10 DEF Stays
  <2> QED
    BY <1>8, <1>9, <2>1, StaysOK
<1> QED
  BY <1>9, <1>10, <1>11, AliveIf

LEMMA DeadStays ==
  ASSUME Typed, NEW w \in Workers, Crash(w) \/ WorkerError(w)
  PROVE  AliveInv'
<1>1. w \in crashed'
  BY DEF Crash, WorkerError, Typed
<1>2. ~Alive(w)'
  BY <1>1 DEF Alive
<1> QED
  BY <1>2 DEF AliveInv, AllAlive

LEMMA StepMoves ==
  ASSUME Typed, BridgeInv, AliveInv, [Next]_vars
  PROVE  AliveInv'
<1>1. CASE UNCHANGED callsVars
  <2>1. SUFFICES ASSUME AllAlive'
                 PROVE  AliveInv'
    BY DEF AliveInv
  <2>2. OnceEach /\ \A c \in Issued : PlaceOK(c)
    BY <1>1, <2>1, AliveInvIs DEF AllAlive, Alive, callsVars
  <2>3. Extends /\ Issued' = Issued
    BY <1>1, SameCalls DEF BridgeInv, callsVars
  <2>4. /\ \A v \in Workers : OneEach(toHost'[v]) /\ OneEach(toWorker'[v])
        /\ \A b \in Actors : NoTwice(mailbox'[b])
        /\ \A c : /\ Out(c)' <=> Out(c)
                  /\ Answered(c)' <=> Answered(c)
                  /\ InQueue(c)' <=> InQueue(c)
                  /\ Back(c)' <=> Back(c)
                  /\ Asked(c)' <=> Asked(c)
                  /\ IsPending(c)' <=> IsPending(c)
    BY <1>1, <2>2, SamePlaces DEF callsVars
  <2>5. ASSUME NEW c \in Issued
        PROVE  PlaceOK(c)'
    <3>1. Stays(c)
      BY <1>1, <2>4 DEF Stays, callsVars
    <3> QED
      BY <2>2, <2>3, <3>1, StaysOK
  <2> QED
    BY <2>3, <2>4, <2>5, AliveIf
<1>2. CASE \E p \in {User} \cup running :
             \/ \E a \in Actors : HostCalls(p, a) \/ DirectCalls(p, a)
             \/ \E f \in Functions : HostInvokes(p, f)
             \/ \E t \in Actors \cup Functions : StubCalls(p, t)
  BY <1>2, HostCallsMoves, DirectCallsMoves, HostInvokesMoves, StubCallsMoves
<1>3. CASE \E w \in Workers :
             \/ HostReceives(w) \/ WorkerReceives(w)
             \/ WorkerError(w) \/ Crash(w)
             \/ LeftoverTimerFires(w)
             \/ \E c \in pending[w] : TimerFires(w, c)
  BY <1>3, HandleBridgeCallMoves, HandleBridgeCallbackInvokeMoves, OnAnswerMoves, HandleCallMoves,
     HandleResultMoves, DeadStays, TimerFiresMoves, LeftoverTimerFiresMoves
     DEF HostReceives, WorkerReceives
<1>4. CASE \E c \in running : Returns(c)
  BY <1>4, HostReturnsMoves, WorkerReturnsMoves DEF Returns
<1>5. CASE Dispose
  BY <1>5, DisposeMoves
<1>6. CASE \E p \in {User} \cup running :
             \/ \E a \in Actors : HostCallsUnclonable(p, a)
             \/ \E f \in Functions : HostInvokesUnclonable(p, f)
  BY <1>1, <1>6, NothingCalled
<1> QED
  BY <1>1, <1>2, <1>3, <1>4, <1>5, <1>6 DEF Next, vars, callsVars

LEMMA AliveInvHolds == Spec => [](Typed /\ BridgeInv /\ AliveInv)
<1>1. Init => Typed /\ BridgeInv /\ AliveInv
  <2> SUFFICES ASSUME Init
               PROVE  Typed /\ BridgeInv /\ AliveInv
    OBVIOUS
  <2>1. Issued = {}
    BY DEF Init, Issued
  <2>2. AliveInv
    BY <2>1 DEF Init, AliveInv, OneEach, NoTwice
  <2> QED
    BY <2>2, InitOK
<1>2. Typed /\ BridgeInv /\ AliveInv /\ [Next]_vars => (Typed /\ BridgeInv /\ AliveInv)'
  BY StepOK, StepMoves
<1> QED
  BY <1>1, <1>2, PTL DEF Spec

\* the places of the model are those of the proof
LEMMA PlacesAre ==
  ASSUME Typed, BridgeInv, NEW c \in Issued
  PROVE  /\ "out" \in Whereabouts(c) <=> Out(c)
         /\ "queued" \in Whereabouts(c) <=> InQueue(c)
         /\ "pending" \in Whereabouts(c) <=> IsPending(c)
         /\ "local" \in Whereabouts(c) <=> Local(c)
         /\ "back" \in Whereabouts(c) <=> Back(c)
         /\ Whereabouts(c) \subseteq {"out", "queued", "pending", "local", "back"}
<1>0. CallsOK /\ RoutesOK /\ TasksOK
  BY DEF BridgeInv
<1>1. /\ "out" \in Whereabouts(c) <=>
           Caller(c) # Host /\ InPort(toHost[Caller(c)], {"call", "invoke"}, c)
      /\ "queued" \in Whereabouts(c) <=> IsMethod(c) /\ Queued(c)
      /\ "pending" \in Whereabouts(c) <=> Side(c) # Host /\ c \in pending[Side(c)]
      /\ "local" \in Whereabouts(c) <=> Local(c)
      /\ "back" \in Whereabouts(c) <=>
           Caller(c) # Host /\ InPort(toWorker[Caller(c)], {"result"}, c)
      /\ Whereabouts(c) \subseteq {"out", "queued", "pending", "local", "back"}
  BY DEF Whereabouts, Local
<1>2. /\ Caller(c) # Host <=> Caller(c) \in Workers
      /\ Side(c) # Host <=> Side(c) \in Workers
  BY <1>0, SidesAre DEF Sides
<1>3. ASSUME NEW w \in Workers
      PROVE  /\ OutAt(w, c) <=> InPort(toHost[w], {"call", "invoke"}, c)
             /\ ResultAt(w, c) <=> InPort(toWorker[w], {"result"}, c)
  <2>1. OutAt(w, c) <=> InPort(toHost[w], {"call", "invoke"}, c)
    BY DEF OutAt, HasRequest, Requests, InPort
  <2>2. \A i \in DOMAIN toWorker[w] : toWorker[w][i].kind \in {"call", "invoke", "result"}
    <3>1. \A i \in DOMAIN toWorker[w] : toWorker[w][i] \in Inbound(Issued)
      BY MessagesAreIssued DEF Range
    <3> QED
      BY <3>1 DEF Inbound
  <2>3. ResultAt(w, c) <=> InPort(toWorker[w], {"result"}, c)
    BY <2>2 DEF ResultAt, HasReply, Requests, InPort
  <2> QED
    BY <2>1, <2>3
<1>4. "out" \in Whereabouts(c) <=> Out(c)
  BY <1>0, <1>1, <1>2, <1>3, Whence DEF Out
<1>5. "back" \in Whereabouts(c) <=> Back(c)
  BY <1>0, <1>1, <1>2, <1>3, Whence DEF Back
<1>6. "pending" \in Whereabouts(c) <=> IsPending(c)
  BY <1>0, <1>1, <1>2, Whence DEF IsPending
<1>7. "queued" \in Whereabouts(c) <=> InQueue(c)
  <2>1. \A a \in Actors : c \in Range(mailbox[a]) => Target(c) = a
    BY <1>0 DEF TasksOK
  <2> QED
    BY <1>1, <2>1 DEF InQueue, Queued, IsMethod, ToSet, Range
<1> QED
  BY <1>1, <1>4, <1>5, <1>6, <1>7

LEMMA RequestIs ==
  ASSUME Typed, BridgeInv, NEW c \in Issued, Side(c) \in Workers
  PROVE  /\ "asked" \in AtWorker(c) <=> Asked(c)
         /\ "running" \in AtWorker(c) <=> c \in running
         /\ "answered" \in AtWorker(c) <=> Answered(c)
         /\ AtWorker(c) \subseteq {"asked", "running", "answered"}
<1>0. CallsOK /\ RoutesOK /\ TasksOK
  BY DEF BridgeInv
<1> DEFINE w == Side(c)
<1>1. /\ "asked" \in AtWorker(c) <=> InPort(toWorker[w], {"call", "invoke"}, c)
      /\ "running" \in AtWorker(c) <=> c \in running
      /\ "answered" \in AtWorker(c) <=> InPort(toHost[w], {"answer"}, c)
      /\ AtWorker(c) \subseteq {"asked", "running", "answered"}
  BY DEF AtWorker
<1>2. /\ Asked(c) <=> AskedAt(w, c)
      /\ Answered(c) <=> AnswerAt(w, c)
  BY <1>0, Whence DEF Asked, Answered
<1>3. AskedAt(w, c) <=> InPort(toWorker[w], {"call", "invoke"}, c)
  BY DEF AskedAt, HasRequest, Requests, InPort
<1>4. AnswerAt(w, c) <=> InPort(toHost[w], {"answer"}, c)
  <2>1. \A i \in DOMAIN toHost[w] : toHost[w][i] \in Outbound(Issued)
    BY MessagesAreIssued DEF Range
  <2>2. \A i \in DOMAIN toHost[w] : toHost[w][i].kind \in {"call", "invoke", "answer"}
    BY <2>1 DEF Outbound
  <2> QED
    BY <2>2 DEF AnswerAt, HasReply, Requests, InPort
<1> QED
  BY <1>1, <1>2, <1>3, <1>4

\* While all threads live, a call that has not settled is in one place: in the
\* port of the worker that calls, in a mailbox, pending at its node, on its way
\* back, or run without the host's help.  One that is pending is asked for, runs
\* or is answered at its worker: no handler drops or doubles a call.
THEOREM NoCallLostHolds == Spec => []NoCallLost
<1>1. Typed /\ BridgeInv /\ AliveInv => NoCallLost
  <2> SUFFICES ASSUME Typed, BridgeInv, AliveInv, AllAlive, NEW c \in Issued, ~calls[c].settled
               PROVE  /\ Cardinality(Whereabouts(c)) = 1
                      /\ Whereabouts(c) = {"pending"} => Cardinality(AtWorker(c)) = 1
    BY DEF NoCallLost, AllAlive
  <2>1. PlaceOK(c)
    BY AliveInvIs
  <2>2. \E p : Whereabouts(c) = {p}
    <3>1. \/ Whereabouts(c) = {"out"} \/ Whereabouts(c) = {"queued"} \/ Whereabouts(c) = {"pending"}
          \/ Whereabouts(c) = {"local"} \/ Whereabouts(c) = {"back"}
      BY <2>1, PlacesAre DEF PlaceOK, OnePlace
    <3> QED
      BY <3>1
  <2>3. Cardinality(Whereabouts(c)) = 1
    BY <2>2, FS_Singleton
  <2>4. ASSUME Whereabouts(c) = {"pending"}
        PROVE  Cardinality(AtWorker(c)) = 1
    <3>1. IsPending(c)
      BY <2>4, PlacesAre
    <3>2. Side(c) \in Workers /\ Side(c) # Host /\ ~Direct(c)
      BY <3>1, BridgeAssumption DEF IsPending, BridgeInv, TasksOK
    <3>3. OneRequest(c)
      BY <2>1, <3>2 DEF PlaceOK
    <3>4. \/ AtWorker(c) = {"asked"} \/ AtWorker(c) = {"running"} \/ AtWorker(c) = {"answered"}
      BY <3>1, <3>2, <3>3, RequestIs DEF OneRequest
    <3>5. \E p : AtWorker(c) = {p}
      BY <3>4
    <3> QED
      BY <3>5, FS_Singleton
  <2> QED
    BY <2>3, <2>4
<1> QED
  BY <1>1, AliveInvHolds, PTL

=============================================================================
