------------------------- MODULE StreamsFirstProofs -------------------------
(***************************************************************************)
(* Proofs about a stream of Streams whose reference was passed once, for    *)
(* any workers and owner.                                                   *)
(*                                                                          *)
(* The argument: such a stream is on its way to the side that gets it       *)
(* (Underway), or that side was subscribed before a chunk could pass the    *)
(* host and none but it closes the stream (Delivered); or the host passes   *)
(* the stream on as an argument and reads nothing of it itself              *)
(* (AsArgument). What most steps do to the ports and proxies is the same    *)
(* (Steps), and keeps what was delivered.                                   *)
(***************************************************************************)
EXTENDS StreamsProofs

-----------------------------------------------------------------------------
(* Kinds of messages in a port.                                             *)

RefFirst(port) == \A i \in DOMAIN port : port[i].kind = "ref" => i = 1
CloseLast(port) ==
  \A i, j \in DOMAIN port : i < j /\ port[i].kind = "close" => port[j].kind \notin Writing

\* q is p, or what is left of it when its head was taken, and then ms
Posted(p, q, ms) == q = p \o ms \/ (p # <<>> /\ q = Tail(p) \o ms)

LEMMA AppendIs ==
  ASSUME NEW S, NEW p \in Seq(S), NEW ms \in Seq(S)
  PROVE  /\ p \o ms \in Seq(S) /\ DOMAIN (p \o ms) \subseteq Nat \ {0}
         /\ \A i \in DOMAIN p : i \in DOMAIN (p \o ms) /\ (p \o ms)[i] = p[i]
         /\ \A i \in DOMAIN (p \o ms) :
              \/ i \in DOMAIN p
              \/ /\ \A j \in DOMAIN p : j < i
                 /\ \E j \in DOMAIN ms : (p \o ms)[i] = ms[j]
<1> DEFINE q == p \o ms
<1>1. /\ q \in Seq(S) /\ DOMAIN q = 1..Len(p) + Len(ms)
      /\ \A i \in 1..Len(p) : q[i] = p[i]
      /\ \A i \in Len(p) + 1..Len(p) + Len(ms) : q[i] = ms[i - Len(p)] /\ i - Len(p) \in DOMAIN ms
      /\ DOMAIN p = 1..Len(p) /\ DOMAIN ms = 1..Len(ms) /\ Len(p) \in Nat /\ Len(ms) \in Nat
  OBVIOUS
<1> HIDE DEF q
<1>2. ASSUME NEW i \in DOMAIN q, i \notin DOMAIN p
      PROVE  (\A j \in DOMAIN p : j < i) /\ \E j \in DOMAIN ms : q[i] = ms[j]
  <2>1. i \in Len(p) + 1..Len(p) + Len(ms)
    BY <1>1, <1>2
  <2>2. \A j \in DOMAIN p : j < i
    BY <1>1, <2>1
  <2>3. q[i] = ms[i - Len(p)] /\ i - Len(p) \in DOMAIN ms
    BY <1>1, <2>1
  <2> QED
    BY <2>2, <2>3
<1>3. DOMAIN q \subseteq Nat \ {0} /\ \A i \in DOMAIN p : i \in DOMAIN q
  BY <1>1
<1> QED
  BY <1>1, <1>2, <1>3 DEF q

LEMMA TailLacks ==
  ASSUME NEW S, NEW p \in Seq(S), p # <<>>, NEW K
  PROVE  /\ Lacks(p, K) => Lacks(Tail(p), K)
         /\ RefFirst(p) => Lacks(Tail(p), {"ref"})
         /\ CloseLast(p) => CloseLast(Tail(p))
<1>1. \A i \in DOMAIN Tail(p) : i + 1 # 1
  BY TailIs
<1>2. \A i, j \in DOMAIN Tail(p) : i < j => i + 1 < j + 1
  BY TailIs
<1> QED
  BY <1>1, <1>2, TailIs DEF Lacks, RefFirst, CloseLast

LEMMA AppendLacks ==
  ASSUME NEW S, NEW p \in Seq(S), NEW ms \in Seq(S), NEW K
  PROVE  /\ Lacks(p, K) /\ Lacks(ms, K) => Lacks(p \o ms, K)
         /\ ~Lacks(p, K) => ~Lacks(p \o ms, K)
         /\ RefFirst(p) /\ Lacks(ms, {"ref"}) => RefFirst(p \o ms)
         /\ CloseLast(p) /\ Lacks(ms, Writing) => CloseLast(p \o ms)
<1> DEFINE q == p \o ms
<1>1. /\ DOMAIN q \subseteq Nat \ {0}
      /\ \A i \in DOMAIN p : i \in DOMAIN q /\ q[i] = p[i]
      /\ \A i \in DOMAIN q : \/ i \in DOMAIN p
                             \/ (\A j \in DOMAIN p : j < i) /\ \E j \in DOMAIN ms : q[i] = ms[j]
  BY AppendIs
<1>2. DOMAIN p \subseteq Nat
  OBVIOUS
<1> HIDE DEF q
<1>3. (Lacks(p, K) /\ Lacks(ms, K) => Lacks(q, K)) /\ (~Lacks(p, K) => ~Lacks(q, K))
  BY <1>1 DEF Lacks
<1>4. RefFirst(p) /\ Lacks(ms, {"ref"}) => RefFirst(q)
  BY <1>1 DEF RefFirst, Lacks
<1>5. ASSUME CloseLast(p), Lacks(ms, Writing), NEW i \in DOMAIN q, NEW j \in DOMAIN q,
             i < j, q[i].kind = "close", q[j].kind \in Writing
      PROVE  FALSE
  <2>1. j \in DOMAIN p
    BY <1>1, <1>5 DEF Lacks
  <2>2. i \in DOMAIN p
    BY <1>1, <1>2, <1>5, <2>1
  <2> QED
    BY <1>1, <1>5, <2>1, <2>2 DEF CloseLast
<1>6. CloseLast(p) /\ Lacks(ms, Writing) => CloseLast(q)
  BY <1>5 DEF CloseLast
<1> QED
  BY <1>3, <1>4, <1>6 DEF q

LEMMA PostedLacks ==
  ASSUME NEW S, NEW p \in Seq(S), NEW q, NEW ms \in Seq(S), Posted(p, q, ms), NEW K
  PROVE  /\ Lacks(p, K) /\ Lacks(ms, K) => Lacks(q, K)
         /\ RefFirst(p) /\ Lacks(ms, {"ref"}) => RefFirst(q)
         /\ CloseLast(p) /\ Lacks(ms, Writing) => CloseLast(q)
<1>1. CASE q = p \o ms
  BY <1>1, AppendLacks
<1>2. CASE p # <<>> /\ q = Tail(p) \o ms
  <2>1. Tail(p) \in Seq(S)
    BY <1>2
  <2>2. RefFirst(p) => RefFirst(Tail(p))
    BY <1>2, TailLacks DEF Lacks, RefFirst
  <2> QED
    BY <1>2, <2>1, <2>2, TailLacks, AppendLacks
<1> QED
  BY <1>1, <1>2 DEF Posted

\* a reference that is first is the head, and stays until it is taken
LEMMA RefIsHead ==
  ASSUME NEW S, NEW p \in Seq(S), RefFirst(p), ~Lacks(p, {"ref"})
  PROVE  p # <<>> /\ Head(p).kind = "ref"
<1>1. PICK i \in DOMAIN p : p[i].kind = "ref"
  BY DEF Lacks
<1>2. p # <<>>
  BY <1>1
<1> QED
  BY <1>1, <1>2, TailIs DEF RefFirst

\* the first chunk stays in a port until it is taken
LEMMA FirstStays ==
  ASSUME NEW S, NEW p \in Seq(S), NEW q, NEW ms \in Seq(S), Posted(p, q, ms), 1 \in DataIn(p),
         p # <<>> => q = p \o ms \/ Head(p).kind # "data" \/ Head(p).n # 1
  PROVE  1 \in DataIn(q)
<1>1. PICK i \in DOMAIN p : p[i].kind = "data" /\ p[i].n = 1
  BY DataIs
<1>2. CASE q = p \o ms
  <2>1. i \in DOMAIN q /\ q[i] = p[i]
    BY <1>1, <1>2, AppendIs
  <2> QED
    BY <1>1, <2>1, DataIs
<1>3. CASE p # <<>> /\ q = Tail(p) \o ms /\ q # p \o ms
  <2>1. i # 1
    BY <1>1, <1>3, TailIs
  <2>2. PICK j \in DOMAIN Tail(p) : Tail(p)[j] = p[i]
    BY <1>3, <2>1, TailIs
  <2>3. Tail(p) \in Seq(S)
    BY <1>3
  <2>4. j \in DOMAIN q /\ q[j] = Tail(p)[j]
    BY <1>3, <2>2, <2>3, AppendIs
  <2> QED
    BY <1>1, <2>2, <2>4, DataIs
<1> QED
  BY <1>2, <1>3 DEF Posted

LEMMA DataArrives ==
  ASSUME NEW S, NEW p \in Seq(S), NEW m \in S, m.kind = "data", NEW ms \in Seq(S)
  PROVE  m.n \in DataIn((p \o <<m>>) \o ms)
<1>1. /\ p \o <<m>> \in Seq(S) /\ Len(p) + 1 \in DOMAIN (p \o <<m>>)
      /\ (p \o <<m>>)[Len(p) + 1] = m
  BY PostIs
<1> DEFINE q == (p \o <<m>>) \o ms
<1>2. Len(p) + 1 \in DOMAIN q /\ q[Len(p) + 1] = m
  BY <1>1, AppendIs
<1> HIDE DEF q
<1>3. m.n \in DataIn(q)
  BY <1>2, DataIs
<1> QED
  BY <1>3 DEF q

-----------------------------------------------------------------------------
(* The side that has the reference first, while nobody passes it on.        *)

Unproxied(s) == proxy[s].state = "none" /\ proxy[s].got = <<>> /\ entry[s].kind # "proxy"

\* the first chunk, if it was emitted, is on its way to s or there
HasFirst(s) == real.sent = 0 \/ 1 \in Had(s) \cup Coming(s) \cup Ahead

\* before the reference is passed
Pristine ==
  /\ real.sent = 0 /\ ~real.flowing /\ real.due = <<>> /\ first = Host
  /\ \A s \in Sides : Unproxied(s) /\ ~proxy[s].used /\ entry[s] = NoEntry
  /\ \A w \in Workers : toHost[w] = <<>> /\ toWorker[w] = <<>>
  /\ subs = {} /\ lapse = "none" /\ queued = {}

\* on its way from a worker to the host, to stay or go on to f
Underway(f) ==
  /\ owner # Host /\ f # owner
  /\ toHost[owner] # <<>> /\ RefFirst(toHost[owner])
  /\ LET m == Head(toHost[owner]) IN m.kind = "ref" /\ m.n = 0 /\ m.side = f
  /\ Lacks(toHost[owner], {"close"} \cup Writing)
  /\ \A w \in Workers : toWorker[w] = <<>> /\ (w # owner => toHost[w] = <<>>)
  /\ \A s \in Sides : Unproxied(s)
  /\ subs = {} /\ lapse = "none" /\ queued = {}
  /\ HasFirst(f)

\* on its way from the host to f, or there
OthersIdle(f) ==
  \A w \in Workers \ {f} :
    /\ Unproxied(w)
    /\ Lacks(toHost[w], {"ref", "close"} \cup Writing) /\ Lacks(toWorker[w], {"ref"})

FirstPorts(f) ==
  f # Host =>
    /\ Lacks(toHost[f], {"ref"}) /\ RefFirst(toWorker[f]) /\ CloseLast(toHost[f])
    /\ ~Lacks(toWorker[f], {"ref"}) =>
         Unproxied(f) /\ Lacks(toHost[f], {"ref", "close"} \cup Writing)
    /\ proxy[f].state # "gone" => Lacks(toHost[f], {"close"})

\* a host that owns the stream knows it until f has closed and written its last
Serves(f) ==
  owner = Host =>
    entry[Host].kind = "local" \/ (proxy[f].state = "gone" /\ Lacks(toHost[f], Writing))

Delivered(f) ==
  /\ f # owner /\ queued = {}
  /\ OthersIdle(f)
  /\ FirstPorts(f)
  /\ proxy[f].state = "none" => ~Lacks(In(f), {"ref"})
  /\ proxy[f].state # "gone" => lapse = "none" /\ f \in subs /\ HasFirst(f)
  /\ proxy[f].got # <<>> => 1 \in Got(f)
  /\ Serves(f)

\* passed on by the host in an argument: no program of the host reads it
AsArgument ==
  /\ first = Host /\ owner # Host
  /\ proxy[Host].got = <<>> /\ ~proxy[Host].used
  /\ \A w \in Workers \ {owner} : Lacks(toHost[w], {"ref"})
  /\ RefFirst(toHost[owner])
  /\ ~Lacks(toHost[owner], {"ref"}) => Head(toHost[owner]).side # Host

OnePassInv ==
  /\ passes = 0 => Pristine
  /\ passes = 1 => Underway(first) \/ Delivered(first) \/ AsArgument
  /\ passes <= 1 => Up(Host)

\* what a step that moves no reference does to a port: it posts no message of
\* the kinds K and takes none of the kinds T
PortStep(p, q, K, T) ==
  \E ms \in Seq(Messages(mode)) :
    /\ Lacks(ms, K)
    /\ q = p \o ms \/ (p # <<>> /\ Head(p).kind \notin T /\ q = Tail(p) \o ms)

\* ... to the proxy of s
StateStep(s) ==
  /\ proxy'[s].state = proxy[s].state \/ (Open(s) /\ proxy'[s].state = "gone")
  /\ proxy'[s].state = "gone" => proxy'[s].got = proxy[s].got
  /\ 1 \in Had(s) => 1 \in Had(s)' \/ proxy'[s].state = "gone"
  /\ Unproxied(s) => Unproxied(s)'

Unsaid(s) == IF Unproxied(s) THEN {"ref", "close"} \cup Writing ELSE Untold(s)

\* ... and altogether; TH and TW are the kinds that the host and workers leave
Steps(TH, TW) ==
  /\ UNCHANGED <<owner, mode, queued>>
  /\ \A w \in Workers :
       /\ PortStep(toHost[w], toHost'[w], Unsaid(w), TH)
       /\ PortStep(toWorker[w], toWorker'[w], {"ref"}, TW)
  /\ \A s \in Sides : StateStep(s)

LEMMA StepLacks ==
  ASSUME NEW p \in Seq(Messages(mode)), NEW q, NEW K, NEW T, PortStep(p, q, K, T), NEW L \in SUBSET K
  PROVE  /\ Lacks(p, L) => Lacks(q, L)
         /\ "ref" \in K /\ RefFirst(p) => RefFirst(q)
         /\ Writing \subseteq K /\ CloseLast(p) => CloseLast(q)
         /\ "ref" \in T /\ RefFirst(p) /\ ~Lacks(p, {"ref"}) => ~Lacks(q, {"ref"}) /\ Head(q) = Head(p)
         /\ "data" \in T /\ 1 \in DataIn(p) => 1 \in DataIn(q)
<1>1. PICK ms \in Seq(Messages(mode)) :
        /\ Lacks(ms, K)
        /\ q = p \o ms \/ (p # <<>> /\ Head(p).kind \notin T /\ q = Tail(p) \o ms)
  BY DEF PortStep
<1>2. Posted(p, q, ms)
  BY <1>1 DEF Posted
<1>3. /\ Lacks(ms, L)
      /\ "ref" \in K => Lacks(ms, {"ref"})
      /\ Writing \subseteq K => Lacks(ms, Writing)
  BY <1>1 DEF Lacks
<1>4. Lacks(p, L) => Lacks(q, L)
  BY <1>2, <1>3, PostedLacks
<1>5. "ref" \in K /\ RefFirst(p) => RefFirst(q)
  BY <1>2, <1>3, PostedLacks
<1>6. Writing \subseteq K /\ CloseLast(p) => CloseLast(q)
  BY <1>2, <1>3, PostedLacks
<1>7. ASSUME "ref" \in T, RefFirst(p), ~Lacks(p, {"ref"}) PROVE ~Lacks(q, {"ref"}) /\ Head(q) = Head(p)
  <2>1. p # <<>> /\ Head(p).kind = "ref"
    BY <1>7, RefIsHead
  <2>2. q = p \o ms
    BY <1>1, <1>7, <2>1
  <2>3. Head(p \o ms) = Head(p)
    BY <2>1
  <2> QED
    BY <1>7, <2>2, <2>3, AppendLacks
<1>8. ASSUME "data" \in T, 1 \in DataIn(p) PROVE 1 \in DataIn(q)
  <2>1. p # <<>> => q = p \o ms \/ Head(p).kind # "data" \/ Head(p).n # 1
    BY <1>1, <1>8
  <2> QED
    BY <1>2, <1>8, <2>1, FirstStays
<1> QED
  BY <1>4, <1>5, <1>6, <1>7, <1>8

LEMMA NothingPosted ==
  ASSUME NEW p \in Seq(Messages(mode)), NEW K, NEW T
  PROVE  /\ PortStep(p, p, K, T)
         /\ p # <<>> /\ Head(p).kind \notin T => PortStep(p, Tail(p), K, T)
<1>1. PICK ms \in Seq(Messages(mode)) : ms = <<>>
  <2>1. <<>> \in Seq(Messages(mode))
    OBVIOUS
  <2> QED
    BY <2>1, Zenon
<1>2. Lacks(ms, K)
  BY <1>1 DEF Lacks
<1>3. p = p \o ms
  BY <1>1
<1>4. p # <<>> => Tail(p) = Tail(p) \o ms
  BY <1>1
<1> QED
  BY <1>2, <1>3, <1>4 DEF PortStep

\* the proxies
LEMMA LastsStep ==
  ASSUME TypeOK, ChunkInv, NEW s \in Sides, Lasts(s),
         entry[s].kind # "proxy" => entry'[s].kind # "proxy"
  PROVE  StateStep(s)
<1>1. CASE Same(s)
  <2>1. Had(s)' = Had(s)
    BY <1>1 DEF Same, Had, Got, Buffered
  <2> QED
    BY <1>1, <2>1 DEF Same, StateStep, Unproxied
<1>2. CASE Gone(s)
  BY <1>2 DEF Gone, StateStep, Unproxied, Open
<1>3. CASE Takes(s)
  <2>1. Had(s)' = Had(s)
    BY <1>3, TakesLeaves DEF ChunkInv, SideOK
  <2> QED
    BY <1>3, <2>1 DEF Takes, StateStep, Unproxied, Open
<1> QED
  BY <1>1, <1>2, <1>3 DEF Lasts

LEMMA StillSteps ==
  ASSUME NEW s \in Sides, proxy'[s] = proxy[s], entry[s].kind # "proxy" => entry'[s].kind # "proxy"
  PROVE  StateStep(s)
BY DEF StateStep, Unproxied, Had, Got, Buffered

LEMMA HandleEntry ==
  ASSUME TypeOK, NEW s \in Sides, NEW m, Handle(s, m), NEW t \in Sides
  PROVE  /\ entry[t].kind # "proxy" => entry'[t].kind # "proxy"
         /\ m.kind # "close" \/ t # s => entry'[t].kind = entry[t].kind
         /\ proxy'[t].used = proxy[t].used /\ proxy'[t].got = proxy[t].got
<1>1. entry[s] \in Entries /\ proxy[s] \in Proxies
  BY ProxyIs DEF TypeOK
<1>2. \A why :
        /\ Destroyed(s, why).used = proxy[s].used /\ [Destroyed(s, why) EXCEPT !.pending = 0].used = proxy[s].used
        /\ Destroyed(s, why).got = proxy[s].got /\ [Destroyed(s, why) EXCEPT !.pending = 0].got = proxy[s].got
  BY <1>1 DEF Destroyed, Proxies
<1>3. CASE m.kind = "close" /\ OnClose(s)
  BY <1>1, <1>2, <1>3 DEF OnClose, TypeOK, NoEntry
<1>4. CASE m.kind = "error" /\ OnRemoteError(s)
  BY <1>1, <1>2, <1>4 DEF OnRemoteError, TypeOK, Entries
<1>5. CASE m.kind \in {"write_result", "write_error"} /\ OnWriteResult(s, m, m.kind = "write_result")
  <2>1. /\ [proxy[s] EXCEPT !.pending = 0].used = proxy[s].used
        /\ [proxy[s] EXCEPT !.pending = 0].got = proxy[s].got
    BY <1>1 DEF Proxies
  <2> QED
    BY <1>1, <1>2, <1>5, <2>1 DEF OnWriteResult, TypeOK
<1>6. CASE m.kind = "data" /\ OnRemoteData(s, m.n)
  BY <1>1, <1>6 DEF OnRemoteData, TypeOK, Proxies
<1>7. CASE m.kind = "end" /\ OnRemoteEnd(s)
  BY <1>1, <1>7 DEF OnRemoteEnd, TypeOK, Proxies
<1>8. CASE UNCHANGED <<entry, proxy>>
  BY <1>8
<1> QED
  BY <1>3, <1>4, <1>5, <1>6, <1>7, <1>8 DEF Handle, OnFlow, OnWrite

LEMMA HandleSteps ==
  ASSUME TypeOK, ChunkInv, NEW s \in Sides, NEW m \in Messages(mode), Handle(s, m),
         owner' = owner, mode' = mode
  PROVE  \A t \in Sides : StateStep(t)
<1>1. CASE PlainMessage(m)
  BY <1>1, HandleQuiet, HandleEntry, LastsStep
<1>2. CASE m.kind = "data"
  <2>1. OnRemoteData(s, m.n) /\ m.n \in Nat
    BY <1>2 DEF Handle, Messages
  <2>2. /\ IF Open(s) THEN Gains(s, m.n) ELSE proxy'[s] = proxy[s]
        /\ \A t \in Sides \ {s} : proxy'[t] = proxy[t]
        /\ entry' = entry
    BY <2>1, OnDataGains
  <2>3. ASSUME Open(s) PROVE StateStep(s)
    <3>1. Gains(s, m.n) /\ proxy[s].buffer \in Seq(Nat)
      BY <2>2, <2>3, ChunksAre
    <3>2. Range(Append(proxy[s].buffer, m.n)) = Range(proxy[s].buffer) \cup {m.n}
      BY <2>1, <3>1, RangeAppend
    <3>3. Had(s) \subseteq Had(s)'
      BY <3>1, <3>2 DEF Gains, Had, Got, Buffered
    <3> QED
      BY <2>3, <3>1, <3>3 DEF StateStep, Gains, Unproxied, Open
  <2> QED
    BY <2>2, <2>3, StillSteps
<1>3. CASE m.kind = "end"
  <2>1. OnRemoteEnd(s)
    BY <1>3 DEF Handle
  <2>2. /\ proxy'[s].got = proxy[s].got /\ proxy'[s].buffer = proxy[s].buffer
        /\ proxy'[s].state = proxy[s].state
        /\ \A t \in Sides \ {s} : proxy'[t] = proxy[t]
        /\ entry' = entry
    BY <2>1, OnEndIs
  <2>3. StateStep(s)
    BY <2>2 DEF StateStep, Unproxied, Had, Got, Buffered
  <2> QED
    BY <2>2, <2>3, StillSteps
<1> QED
  BY <1>1, <1>2, <1>3 DEF PlainMessage

\* the proxy that announces its destruction is destroyed
LEMMA AnswerUnsaid ==
  ASSUME TypeOK, ChunkInv, NEW s \in Sides, NEW m \in Messages(mode), Handle(s, m)
  PROVE  Lacks(Answer(s, m), Unsaid(s))
<1>1. CASE Answer(s, m) = <<>>
  BY <1>1 DEF Lacks
<1>2. CASE Answer(s, m) # <<>>
  <2>1. Receives(s) /\ ~Unproxied(s)
    BY <1>2 DEF Answer, Receives, Unproxied
  <2>2. CASE m.kind = "data"
    <3>1. Answer(s, m) \in {<<Signal("resume")>>, <<Signal("pause")>>}
      BY <2>1, <2>2 DEF Answer
    <3>2. "resume" \notin Unsaid(s) /\ "pause" \notin Unsaid(s)
      BY <2>1 DEF Unsaid, Untold, Writing
    <3> QED
      BY <3>1, <3>2, OneSignal DEF Kinds
  <2>3. CASE m.kind # "data"
    <3>1. Answer(s, m) = <<Signal("close")>> /\ Open(s)
          /\ \/ m.kind \in {"error", "close"}
             \/ proxy[s].pending = m.n /\ (m.kind = "write_error" \/ Finishes(s, m))
      BY <1>2, <2>1, <2>3 DEF Answer
    <3>2. proxy[s] \in Proxies /\ Tracks(s) /\ ~entry[s].closed /\ ~IsOwner(s)
      BY <2>1, ProxyIs DEF Receives, Tracks, IsOwner
    <3>3. \A why : Destroyed(s, why).state = "gone" /\ [Destroyed(s, why) EXCEPT !.pending = 0].state = "gone"
      BY <3>2 DEF Destroyed, Proxies
    <3>4. proxy'[s].state = "gone"
      <4>1. CASE m.kind = "error"
        BY <2>1, <3>1, <3>2, <3>3, <4>1 DEF Handle, OnRemoteError, TypeOK
      <4>2. CASE m.kind = "close"
        BY <3>1, <3>2, <3>3, <4>2 DEF Handle, OnClose, TypeOK
      <4>3. CASE m.kind \notin {"error", "close"}
        <5>1. m.kind \in {"write_result", "write_error"} /\ proxy[s].pending = m.n
              /\ (m.kind # "write_result" \/ Finishes(s, m))
          BY <3>1, <4>3 DEF Finishes
        <5>2. OnWriteResult(s, m, m.kind = "write_result")
          BY <5>1 DEF Handle
        <5> QED
          BY <3>1, <3>2, <3>3, <5>1, <5>2 DEF OnWriteResult, TypeOK
      <4> QED
        BY <4>1, <4>2, <4>3
    <3>5. "close" \notin Unsaid(s)
      BY <2>1, <3>4 DEF Unsaid, Untold, Writing
    <3> QED
      BY <3>1, <3>5, OneSignal DEF Kinds
  <2> QED
    BY <2>2, <2>3
<1> QED
  BY <1>1, <1>2

\* the host posts no reference
LEMMA HostPostsSteps ==
  ASSUME PortsOK, NEW ws, NEW m \in Messages(mode), m.kind # "ref",
         NEW ms \in Seq(Messages(mode)), Lacks(ms, {"ref"}), HostPosts(ws, m, ms), NEW w \in Workers, NEW T
  PROVE  /\ PortStep(toWorker[w], toWorker'[w], {"ref"}, T)
         /\ m.kind = "data" /\ w \in ws => m.n \in DataIn(toWorker'[w])
<1>1. DEFINE a == IF w \in ws THEN <<m>> ELSE <<>>
             b == IF w = owner THEN ms ELSE <<>>
<1>2. toWorker[w] \in Seq(Messages(mode)) /\ <<m>> \in Seq(Messages(mode)) /\ <<>> \in Seq(Messages(mode))
  BY DEF PortsOK
<1>3. a \in Seq(Messages(mode)) /\ b \in Seq(Messages(mode))
  BY <1>2
<1>4. Lacks(a, {"ref"}) /\ Lacks(b, {"ref"})
  BY DEF Lacks
<1>5. toWorker'[w] = (toWorker[w] \o a) \o b
  BY DEF HostPosts
<1>6. m.kind = "data" /\ w \in ws => m.n \in DataIn(toWorker'[w])
  <2> SUFFICES ASSUME m.kind = "data", w \in ws PROVE m.n \in DataIn(toWorker'[w])
    OBVIOUS
  <2>1. m.n \in DataIn((toWorker[w] \o <<m>>) \o b)
    BY <1>2, <1>3, DataArrives
  <2> QED
    BY <1>5, <2>1
<1> HIDE DEF a, b
<1>7. a \o b \in Seq(Messages(mode)) /\ Lacks(a \o b, {"ref"})
  BY <1>3, <1>4, AppendLacks
<1>8. toWorker'[w] = toWorker[w] \o (a \o b)
  <2>1. (toWorker[w] \o a) \o b = toWorker[w] \o (a \o b)
    <3>1. ASSUME NEW x \in Seq(Messages(mode)), NEW y \in Seq(Messages(mode)), NEW z \in Seq(Messages(mode))
          PROVE  (x \o y) \o z = x \o (y \o z)
      BY ConcatAssociative
    <3>2. \A x, y, z \in Seq(Messages(mode)) : (x \o y) \o z = x \o (y \o z)
      BY <3>1, Zenon
    <3>3. toWorker[w] \in Seq(Messages(mode))
      BY <1>2
    <3>4. a \in Seq(Messages(mode))
      BY <1>3
    <3>5. b \in Seq(Messages(mode))
      BY <1>3
    <3>6. \A y, z \in Seq(Messages(mode)) : (toWorker[w] \o y) \o z = toWorker[w] \o (y \o z)
      BY <3>2, <3>3
    <3> QED
      BY <3>4, <3>5, <3>6
  <2> QED
    BY <1>5, <2>1
<1> QED
  BY <1>6, <1>7, <1>8 DEF PortStep

LEMMA WorkerPostsSteps ==
  ASSUME PortsOK, NEW v \in Workers, NEW ms \in Seq(Messages(mode)), WorkerPosts(v, ms), NEW K, Lacks(ms, K),
         NEW w \in Workers, NEW T
  PROVE  /\ w = v => PortStep(toHost[w], toHost'[w], K, T)
         /\ w # v => toHost'[w] = toHost[w]
<1>1. ASSUME w = v PROVE PortStep(toHost[w], toHost'[w], K, T)
  <2>1. toHost'[w] = toHost[w] \o ms
    BY <1>1 DEF WorkerPosts, PortsOK
  <2> QED
    BY <2>1 DEF PortStep
<1>2. w # v => toHost'[w] = toHost[w]
  BY DEF WorkerPosts, PortsOK
<1> QED
  BY <1>1, <1>2

LEMMA PortStepStill ==
  ASSUME PortsOK, NEW w \in Workers, NEW K, NEW T
  PROVE  PortStep(toHost[w], toHost[w], K, T) /\ PortStep(toWorker[w], toWorker[w], K, T)
<1>1. toHost[w] \in Seq(Messages(mode)) /\ toWorker[w] \in Seq(Messages(mode))
  BY DEF PortsOK
<1> QED
  BY <1>1, NothingPosted

\* what a program has read begins with the first chunk
FirstGot == \A s \in Sides : HasFirst(s) /\ proxy[s].got # <<>> => 1 \in Got(s)

LEMMA GotFirst ==
  ASSUME TypeOK, ChunkInv
  PROVE  FirstGot
<1> SUFFICES ASSUME NEW s \in Sides, HasFirst(s), proxy[s].got # <<>>
             PROVE  1 \in Got(s)
  BY DEF FirstGot
<1>1. SideOK(s) /\ Got(s) \subseteq Nat /\ proxy[s].got \in Seq(Nat) /\ real.sent \in Nat
  BY ChunksAre DEF ChunkInv
<1>2. PICK k \in Got(s) : TRUE
  BY <1>1, RangeIs DEF Got
<1>3. k \in 1..real.sent
  BY <1>1, <1>2 DEF SideOK, OrderOK, Had
<1>4. 1 \in Buffered(s) => k < 1
  BY <1>1, <1>2 DEF SideOK, ProxyOK, Behind
<1>5. 1 \in Coming(s) \cup Ahead => k < 1
  BY <1>1, <1>2 DEF SideOK, OrderOK, Behind, Had
<1> QED
  BY <1>1, <1>3, <1>4, <1>5 DEF HasFirst, Had

LEMMA FirstKept ==
  ASSUME TypeOK, PortsOK, NEW s \in Sides, NEW TH, NEW TW, Steps(TH, TW), "data" \in TH, "data" \in TW,
         1 \in Had(s) \cup Coming(s) \cup Ahead
  PROVE  1 \in (Had(s) \cup Coming(s) \cup Ahead)' \/ proxy'[s].state = "gone"
<1>1. \A w \in Workers :
        /\ toHost[w] \in Seq(Messages(mode)) /\ toWorker[w] \in Seq(Messages(mode))
        /\ PortStep(toHost[w], toHost'[w], Unsaid(w), TH)
        /\ PortStep(toWorker[w], toWorker'[w], {"ref"}, TW)
  BY DEF Steps, PortsOK
<1>2. \A w \in Workers :
        /\ 1 \in DataIn(toHost[w]) => 1 \in DataIn(toHost'[w])
        /\ 1 \in DataIn(toWorker[w]) => 1 \in DataIn(toWorker'[w])
  BY <1>1, StepLacks
<1>3. owner' = owner /\ StateStep(s) /\ owner \in Sides
  BY DEF Steps, TypeOK
<1>4. CASE 1 \in Had(s)
  BY <1>3, <1>4 DEF StateStep
<1>5. CASE 1 \in Coming(s)
  <2>1. s # Host
    BY <1>5, HostReads
  <2>2. s \in Workers /\ Coming(s) = DataIn(toWorker[s]) /\ Coming(s)' = DataIn(toWorker'[s])
    BY <2>1 DEF Sides, Coming, In
  <2> QED
    BY <1>2, <1>5, <2>2
<1>6. CASE 1 \in Ahead
  <2>1. DataIn(<<>>) = {}
    BY DEF DataIn
  <2>2. owner \in Workers /\ Ahead = DataIn(toHost[owner]) /\ Ahead' = DataIn(toHost'[owner])
    BY <1>3, <1>6, <2>1 DEF Sides, Ahead, Src
  <2> QED
    BY <1>2, <1>6, <2>2
<1> QED
  BY <1>4, <1>5, <1>6


\* what was delivered stays so
LEMMA Delivers ==
  ASSUME TypeOK, ChunkInv, FirstGot', NEW f \in Sides, Delivered(f),
         NEW TH, NEW TW, Steps(TH, TW), "ref" \in TH, "ref" \in TW,
         proxy'[f].state # "gone" => lapse' = "none" /\ f \in subs' /\ HasFirst(f)',
         Serves(f)'
  PROVE  Delivered(f)'
<1>1. \A w \in Workers :
        /\ toHost[w] \in Seq(Messages(mode)) /\ toWorker[w] \in Seq(Messages(mode))
        /\ PortStep(toHost[w], toHost'[w], Unsaid(w), TH)
        /\ PortStep(toWorker[w], toWorker'[w], {"ref"}, TW)
  BY DEF Steps, ChunkInv, PortsOK
<1>2. \A s \in Sides : StateStep(s)
  BY DEF Steps
<1>3. \A w \in Workers :
        /\ \A L \in SUBSET Unsaid(w) : Lacks(toHost[w], L) => Lacks(toHost'[w], L)
        /\ Writing \subseteq Unsaid(w) /\ CloseLast(toHost[w]) => CloseLast(toHost'[w])
  BY <1>1, StepLacks
<1>4. \A w \in Workers :
        /\ Lacks(toWorker[w], {"ref"}) => Lacks(toWorker'[w], {"ref"})
        /\ RefFirst(toWorker[w]) => RefFirst(toWorker'[w])
        /\ RefFirst(toWorker[w]) /\ ~Lacks(toWorker[w], {"ref"}) => ~Lacks(toWorker'[w], {"ref"})
  <2>1. "ref" \in {"ref"} /\ {"ref"} \in SUBSET {"ref"}
    OBVIOUS
  <2> QED
    BY <1>1, <2>1, StepLacks
<1>5. f # owner' /\ queued' = {}
  BY DEF Steps, Delivered
<1>6. OthersIdle(f)'
  <2> SUFFICES ASSUME NEW w \in Workers \ {f}
               PROVE  /\ Unproxied(w)'
                      /\ Lacks(toHost'[w], {"ref", "close"} \cup Writing) /\ Lacks(toWorker'[w], {"ref"})
    BY DEF OthersIdle
  <2>1. Unproxied(w) /\ Lacks(toHost[w], {"ref", "close"} \cup Writing) /\ Lacks(toWorker[w], {"ref"})
    BY DEF Delivered, OthersIdle
  <2>2. Unsaid(w) = {"ref", "close"} \cup Writing /\ StateStep(w)
    BY <1>2, <2>1 DEF Unsaid, Sides
  <2> QED
    BY <1>3, <1>4, <2>1, <2>2 DEF StateStep
<1>7. FirstPorts(f)'
  <2> SUFFICES ASSUME f # Host
               PROVE  /\ Lacks(toHost'[f], {"ref"}) /\ RefFirst(toWorker'[f]) /\ CloseLast(toHost'[f])
                      /\ ~Lacks(toWorker'[f], {"ref"}) =>
                           Unproxied(f)' /\ Lacks(toHost'[f], {"ref", "close"} \cup Writing)
                      /\ proxy'[f].state # "gone" => Lacks(toHost'[f], {"close"})
    BY DEF FirstPorts
  <2>1. f \in Workers
    BY DEF Sides
  <2>2. /\ Lacks(toHost[f], {"ref"}) /\ RefFirst(toWorker[f]) /\ CloseLast(toHost[f])
        /\ ~Lacks(toWorker[f], {"ref"}) =>
             Unproxied(f) /\ Lacks(toHost[f], {"ref", "close"} \cup Writing)
        /\ proxy[f].state # "gone" => Lacks(toHost[f], {"close"})
    BY DEF Delivered, FirstPorts
  <2>3. Unproxied(f) => Unsaid(f) = {"ref", "close"} \cup Writing
    BY DEF Unsaid
  <2>4. ~Unproxied(f) => Unsaid(f) = {"ref"} \cup (IF proxy'[f].state = "gone" THEN Writing ELSE {"close"})
    BY DEF Unsaid, Untold
  <2>5. {"ref"} \in SUBSET Unsaid(f)
    BY <2>3, <2>4
  <2>6. Lacks(toHost'[f], {"ref"}) /\ RefFirst(toWorker'[f])
    BY <1>3, <1>4, <2>1, <2>2, <2>5
  <2>7. ~Lacks(toWorker'[f], {"ref"}) =>
          Unproxied(f)' /\ Lacks(toHost'[f], {"ref", "close"} \cup Writing)
    BY <1>2, <1>3, <1>4, <2>1, <2>2, <2>3 DEF StateStep
  <2>8. ASSUME proxy'[f].state # "gone" PROVE Lacks(toHost'[f], {"close"})
    <3>1. proxy[f].state # "gone"
      BY <1>2, <2>8 DEF StateStep
    <3>2. {"close"} \in SUBSET Unsaid(f)
      BY <2>3, <2>4, <2>8
    <3> QED
      BY <1>3, <2>1, <2>2, <3>1, <3>2
  <2>9. CloseLast(toHost'[f])
    <3>1. CASE proxy'[f].state = "gone"
      <4>1. Writing \subseteq Unsaid(f)
        BY <2>3, <2>4, <3>1
      <4> QED
        BY <1>3, <2>1, <2>2, <4>1
    <3>2. CASE proxy'[f].state # "gone"
      BY <2>8, <3>2 DEF CloseLast, Lacks
    <3> QED
      BY <3>1, <3>2
  <2> QED
    BY <2>6, <2>7, <2>8, <2>9
<1>8. ASSUME proxy'[f].state = "none" PROVE ~Lacks(In(f), {"ref"})'
  <2>1. proxy[f].state = "none"
    BY <1>2, <1>8 DEF StateStep
  <2>2. ~Lacks(In(f), {"ref"})
    BY <2>1 DEF Delivered
  <2>3. f # Host
    BY <2>2 DEF In, Lacks
  <2>4. f \in Workers /\ In(f) = toWorker[f] /\ In(f)' = toWorker'[f] /\ RefFirst(toWorker[f])
    BY <2>3 DEF Sides, In, Delivered, FirstPorts
  <2> QED
    BY <1>4, <2>2, <2>4
<1>9. ASSUME proxy'[f].got # <<>> PROVE 1 \in Got(f)'
  <2>1. CASE proxy'[f].state = "gone"
    <3>1. proxy'[f].got = proxy[f].got
      BY <1>2, <2>1 DEF StateStep
    <3>2. 1 \in Got(f)
      BY <1>9, <3>1 DEF Delivered
    <3> QED
      BY <3>1, <3>2 DEF Got
  <2>2. CASE proxy'[f].state # "gone"
    <3>1. HasFirst(f)'
      BY <2>2
    <3> QED
      BY <1>9, <3>1 DEF FirstGot
  <2> QED
    BY <2>1, <2>2
<1> QED
  BY <1>5, <1>6, <1>7, <1>8, <1>9 DEF Delivered


\* a host that owns the stream and keeps its entry goes on serving
LEMMA ServesOn ==
  ASSUME TypeOK, ChunkInv, NEW f \in Sides, Delivered(f), NEW TH, NEW TW, Steps(TH, TW),
         entry'[Host].kind = entry[Host].kind
  PROVE  Serves(f)'
<1> SUFFICES ASSUME owner = Host, entry[Host].kind # "local"
             PROVE  proxy'[f].state = "gone" /\ Lacks(toHost'[f], Writing)
  BY DEF Serves, Steps
<1>1. proxy[f].state = "gone" /\ Lacks(toHost[f], Writing) /\ f # owner
  BY DEF Delivered, Serves
<1>2. f \in Workers
  BY <1>1 DEF Sides
<1>3. proxy'[f].state = "gone" /\ ~Unproxied(f)
  BY <1>1 DEF Steps, StateStep, Unproxied
<1>4. Writing \in SUBSET Unsaid(f)
  BY <1>3 DEF Unsaid, Untold
<1>5. PortStep(toHost[f], toHost'[f], Unsaid(f), TH) /\ toHost[f] \in Seq(Messages(mode))
  BY <1>2 DEF Steps, ChunkInv, PortsOK
<1>6. Lacks(toHost'[f], Writing)
  BY <1>1, <1>4, <1>5, StepLacks
<1> QED
  BY <1>3, <1>6

\* ... as long as the router keeps f, a step that emits and takes no chunk
LEMMA DeliversQuietly ==
  ASSUME TypeOK, ChunkInv, FirstGot', NEW f \in Sides, Delivered(f),
         NEW TH, NEW TW, Steps(TH, TW), "ref" \in TH, "ref" \in TW, "data" \in TH, "data" \in TW,
         entry'[Host].kind = entry[Host].kind, real'.sent = real.sent, UNCHANGED routes
  PROVE  Delivered(f)'
<1>1. ASSUME proxy'[f].state # "gone" PROVE lapse' = "none" /\ f \in subs' /\ HasFirst(f)'
  <2>1. StateStep(f)
    BY DEF Steps
  <2>2. lapse = "none" /\ f \in subs /\ HasFirst(f)
    BY <1>1, <2>1 DEF StateStep, Delivered
  <2>3. HasFirst(f)'
    BY <1>1, <2>2, FirstKept DEF HasFirst, ChunkInv
  <2> QED
    BY <2>2, <2>3 DEF routes
<1>2. Serves(f)'
  BY ServesOn
<1> QED
  BY <1>1, <1>2, Delivers

-----------------------------------------------------------------------------
(* ... and each action.                                                     *)

\* the program of a proxy
LEMMA UsesSteps ==
  ASSUME TypeOK, ChunkInv, NEW s \in Sides, Uses(s)
  PROVE  Steps({"ref", "data"}, {"ref", "data"})
<1>1. PICK ms \in Seq(Messages(mode)) : Lacks(ms, Untold(s)) /\ ToOwner(s, ms)
  BY DEF Uses
<1>2. Open(s) /\ Unsaid(s) = Untold(s) /\ Lacks(ms, Unsaid(s)) /\ Lacks(ms, {"ref"})
  BY <1>1 DEF Uses, Use, Open, Unsaid, Unproxied, Untold, Lacks
<1>3. UNCHANGED <<owner, mode, queued, entry>>
  BY DEF Uses, Use, passVars
<1>4. \A t \in Sides : StateStep(t)
  <2>1. StateStep(s)
    BY <1>3, LastsStep DEF Uses
  <2>2. \A t \in Sides \ {s} : StateStep(t)
    BY <1>3, StillSteps DEF Uses
  <2> QED
    BY <2>1, <2>2
<1>5. ASSUME NEW w \in Workers
      PROVE  /\ PortStep(toHost[w], toHost'[w], Unsaid(w), {"ref", "data"})
             /\ PortStep(toWorker[w], toWorker'[w], {"ref"}, {"ref", "data"})
  <2>1. CASE s = Host
    <3>1. HostPosts({}, Signal("close"), ms) /\ toHost' = toHost
      BY <1>1, <2>1 DEF ToOwner
    <3>2. Signal("close") \in Messages(mode) /\ Signal("close").kind # "ref"
      <4>1. Host \in Sides /\ "close" \in Kinds \ {"data"} /\ 0 \in Nat
        BY DEF Sides, Kinds
      <4>2. Signal("close").kind = "close"
        BY DEF Signal, Msg
      <4> QED
        BY <4>1, <4>2, MessageIs
    <3>3. PortStep(toWorker[w], toWorker'[w], {"ref"}, {"ref", "data"})
      BY <1>2, <3>1, <3>2, HostPostsSteps DEF ChunkInv
    <3> QED
      BY <3>1, <3>3, PortStepStill DEF ChunkInv
  <2>2. CASE s # Host
    <3>1. WorkerPosts(s, ms) /\ toWorker' = toWorker /\ s \in Workers
      BY <1>1, <2>2 DEF ToOwner, Sides
    <3>2. /\ w = s => PortStep(toHost[w], toHost'[w], Unsaid(w), {"ref", "data"})
          /\ w # s => toHost'[w] = toHost[w]
      BY <1>2, <3>1, WorkerPostsSteps DEF ChunkInv
    <3> QED
      BY <3>1, <3>2, PortStepStill DEF ChunkInv
  <2> QED
    BY <2>1, <2>2
<1> QED
  BY <1>3, <1>4, <1>5 DEF Steps

\* the real stream
LEMMA RealSteps ==
  ASSUME TypeOK, ChunkInv, RealStep, NEW m \in Messages(mode), m.kind \notin {"ref", "close"} \cup Writing,
         ToConsumers(m) \/ UNCHANGED <<toHost, toWorker>>
  PROVE  /\ Steps({"ref", "data"}, {"ref", "data"})
         /\ owner # Host => toWorker' = toWorker /\ \A w \in Workers \ {owner} : toHost'[w] = toHost[w]
<1>1. UNCHANGED <<owner, mode, queued, entry, proxy>>
  BY DEF RealStep, passVars
<1>2. \A s \in Sides : StateStep(s)
  BY <1>1, StillSteps
<1>3. ASSUME NEW w \in Workers
      PROVE  /\ PortStep(toHost[w], toHost'[w], Unsaid(w), {"ref", "data"})
             /\ PortStep(toWorker[w], toWorker'[w], {"ref"}, {"ref", "data"})
             /\ owner # Host => toWorker' = toWorker /\ (w # owner => toHost'[w] = toHost[w])
  <2>1. CASE UNCHANGED <<toHost, toWorker>>
    BY <2>1, PortStepStill DEF ChunkInv
  <2>2. CASE owner = Host /\ ToConsumers(m)
    <3>1. HostPosts(subs, m, <<>>) /\ toHost' = toHost
      BY <2>2 DEF ToConsumers
    <3>2. <<>> \in Seq(Messages(mode)) /\ Lacks(<<>>, {"ref"}) /\ m.kind # "ref"
      BY DEF Lacks
    <3>3. PortStep(toWorker[w], toWorker'[w], {"ref"}, {"ref", "data"})
      BY <3>1, <3>2, HostPostsSteps DEF ChunkInv
    <3> QED
      BY <2>2, <3>1, <3>3, PortStepStill DEF ChunkInv
  <2>3. CASE owner # Host /\ ToConsumers(m)
    <3>1. WorkerPosts(owner, <<m>>) /\ toWorker' = toWorker /\ owner \in Workers
      BY <2>3 DEF ToConsumers, TypeOK, Sides
    <3>2. <<m>> \in Seq(Messages(mode)) /\ Lacks(<<m>>, Unsaid(owner))
      BY DEF Lacks, Unsaid, Untold
    <3>3. /\ w = owner => PortStep(toHost[w], toHost'[w], Unsaid(owner), {"ref", "data"})
          /\ w # owner => toHost'[w] = toHost[w]
      BY <3>1, <3>2, WorkerPostsSteps DEF ChunkInv
    <3> QED
      BY <3>1, <3>3, PortStepStill DEF ChunkInv
  <2> QED
    BY <2>1, <2>2, <2>3
<1>4. owner # Host => toWorker' = toWorker
  BY <1>3 DEF ToConsumers
<1> QED
  BY <1>1, <1>2, <1>3, <1>4 DEF Steps


\* what the real stream tells its consumers
RealTells(m) ==
  /\ m.kind \notin {"ref", "close"} \cup Writing
  /\ ToConsumers(m) \/ UNCHANGED <<toHost, toWorker>>
  /\ \/ real'.sent = real.sent
     \/ real'.sent = real.sent + 1 /\ m.kind = "data" /\ m.n = real.sent + 1 /\ ToConsumers(m)

LEMMA RealMoves ==
  ASSUME TypeOK, ChunkInv, RealEmits \/ RealFails \/ RealDestroyed \/ WriteDone
  PROVE  RealStep /\ \E m \in Messages(mode) : RealTells(m)
<1>1. real \in Reals /\ real.sent \in Nat /\ Chunks \in Nat
  BY HostReads, ChunksAre DEF TypeOK
<1>2. \A kind \in {"end", "error"} :
        Signal(kind) \in Messages(mode) /\ Signal(kind).kind = kind
  <2>1. ASSUME NEW kind \in {"end", "error"}
        PROVE  Signal(kind) \in Messages(mode) /\ Signal(kind).kind = kind
    <3>1. Host \in Sides /\ kind \in Kinds \ {"data"} /\ 0 \in Nat
      BY DEF Sides, Kinds
    <3> QED
      BY <3>1, MessageIs DEF Signal, Msg
  <2> QED
    BY <2>1
<1>3. CASE RealEmits /\ real.sent < Chunks
  <2> DEFINE m == Msg("data", real.sent + 1)
  <2>1. real.sent + 1 \in 1..Chunks /\ real.sent + 1 \in Nat
    BY <1>1, <1>3
  <2>2. m \in Messages(mode) /\ m.kind = "data" /\ m.n = real.sent + 1
    BY <2>1 DEF Msg, Messages, Kinds, WriteKinds, Sides
  <2>3. ToConsumers(m) /\ real'.sent = real.sent + 1 /\ RealStep
    BY <1>1, <1>3 DEF RealEmits, Reals
  <2> HIDE DEF m
  <2> QED
    BY <2>2, <2>3 DEF RealTells, Writing
<1>4. CASE RealEmits /\ ~(real.sent < Chunks)
  <2>1. ToConsumers(Signal("end")) /\ real'.sent = real.sent /\ RealStep
    BY <1>1, <1>4 DEF RealEmits, Reals
  <2> QED
    BY <1>2, <2>1 DEF RealTells, Writing
<1>5. CASE RealFails
  <2>1. ToConsumers(Signal("error")) /\ real'.sent = real.sent /\ RealStep
    BY <1>1, <1>5 DEF RealFails, Reals
  <2> QED
    BY <1>2, <2>1 DEF RealTells, Writing
<1>6. CASE RealDestroyed
  <2>1. UNCHANGED <<toHost, toWorker>> /\ real'.sent = real.sent /\ RealStep
    BY <1>1, <1>6 DEF RealDestroyed, Reals
  <2> QED
    BY <1>2, <2>1 DEF RealTells, Writing
<1>7. CASE WriteDone
  <2> DEFINE d == Head(real.due)
             k == IF real.state = "open" THEN "write_result" ELSE "write_error"
  <2>1. RealStep /\ real.due # <<>> /\ mode = "writable" /\ real'.sent = real.sent
    BY <1>1, <1>7 DEF WriteDone, TypeOK, ChunkInv, PortsOK, Reals
  <2>2. d.n \in 1..Writes + 1
    <3>1. real.due \in Seq([n : 1..Writes + 1, side : Sides])
      BY <1>1 DEF Reals
    <3>2. d \in [n : 1..Writes + 1, side : Sides]
      BY <2>1, <3>1, SeqParts
    <3> QED
      BY <3>2
  <2>3. ToConsumers(Msg(k, d.n))
    BY <1>7 DEF WriteDone
  <2>4. d.n \in Nat
    BY <2>2, StreamAssumption
  <2> HIDE DEF d
  <2>5. Msg(k, d.n) \in Messages(mode) /\ Msg(k, d.n).kind = k
    BY <2>1, <2>2, <2>4 DEF Messages, Msg, WriteKinds, Sides
  <2>6. k \notin {"ref", "close"} \cup Writing
    BY DEF Writing
  <2> HIDE DEF k
  <2> QED
    BY <2>1, <2>3, <2>5, <2>6 DEF RealTells
<1> QED
  BY <1>3, <1>4, <1>5, <1>6, <1>7

LEMMA RealKeepsFirst ==
  ASSUME TypeOK, ChunkInv, RealStep, NEW m \in Messages(mode), RealTells(m),
         NEW f \in Sides, f # owner, owner = Host => f \in subs, HasFirst(f), proxy[f].state # "gone"
  PROVE  HasFirst(f)'
<1>1. Steps({"ref", "data"}, {"ref", "data"}) /\ UNCHANGED <<owner, proxy>> /\ PortsOK
  BY RealSteps DEF RealTells, RealStep, ChunkInv
<1>2. real.sent \in Nat
  BY ChunksAre
<1>3. CASE 1 \in Had(f) \cup Coming(f) \cup Ahead
  BY <1>1, <1>3, FirstKept DEF HasFirst
<1>4. CASE real.sent = 0 /\ real'.sent = real.sent
  BY <1>4 DEF HasFirst
<1>5. CASE real.sent = 0 /\ real'.sent = real.sent + 1 /\ m.kind = "data" /\ m.n = 1 /\ ToConsumers(m)
  <2>1. CASE owner = Host
    <3>1. HostPosts(subs, m, <<>>) /\ f \in Workers /\ f \in subs
      BY <1>5, <2>1 DEF ToConsumers, Sides
    <3>2. <<>> \in Seq(Messages(mode)) /\ Lacks(<<>>, {"ref"}) /\ m.kind # "ref"
      BY <1>5 DEF Lacks
    <3>3. 1 \in DataIn(toWorker'[f])
      BY <1>1, <1>5, <3>1, <3>2, HostPostsSteps
    <3> QED
      BY <2>1, <3>1, <3>3, HostAssumption DEF HasFirst, Coming, In
  <2>2. CASE owner # Host
    <3>1. WorkerPosts(owner, <<m>>) /\ owner \in Workers
      BY <1>5, <2>2 DEF ToConsumers, TypeOK, Sides
    <3>2. toHost[owner] \in Seq(Messages(mode)) /\ <<>> \in Seq(Messages(mode)) /\ <<m>> \in Seq(Messages(mode))
      BY <1>1, <3>1 DEF PortsOK
    <3>3. toHost'[owner] = toHost[owner] \o <<m>>
      BY <1>1, <3>1 DEF WorkerPosts, PortsOK
    <3>4. (toHost[owner] \o <<m>>) \o <<>> = toHost[owner] \o <<m>>
      <4>1. toHost[owner] \o <<m>> \in Seq(Messages(mode))
        BY <3>2
      <4> QED
        BY <4>1
    <3>5. 1 \in DataIn(toHost'[owner])
      BY <1>5, <3>2, <3>3, <3>4, DataArrives
    <3> QED
      BY <1>1, <2>2, <3>5 DEF HasFirst, Ahead, Src
  <2> QED
    BY <2>1, <2>2
<1> QED
  BY <1>2, <1>3, <1>4, <1>5 DEF HasFirst, RealTells

LEMMA RealDelivers ==
  ASSUME TypeOK, ChunkInv, FirstGot', NEW f \in Sides, Delivered(f),
         RealEmits \/ RealFails \/ RealDestroyed \/ WriteDone
  PROVE  Delivered(f)'
<1>1. PICK m \in Messages(mode) : RealTells(m)
  BY RealMoves
<1>2. RealStep /\ UNCHANGED <<entry, proxy, routes>>
  BY RealMoves DEF RealStep
<1>3. Steps({"ref", "data"}, {"ref", "data"})
  BY <1>1, <1>2, RealSteps DEF RealTells
<1>4. ASSUME proxy'[f].state # "gone" PROVE lapse' = "none" /\ f \in subs' /\ HasFirst(f)'
  <2>1. lapse = "none" /\ f \in subs /\ HasFirst(f) /\ f # owner /\ proxy[f].state # "gone"
    BY <1>2, <1>4 DEF Delivered
  <2> QED
    BY <1>1, <1>2, <2>1, RealKeepsFirst DEF routes
<1>5. Serves(f)'
  BY <1>2, <1>3, ServesOn
<1> QED
  BY <1>3, <1>4, <1>5, Delivers

LEMMA RealUnderway ==
  ASSUME TypeOK, ChunkInv, NEW f \in Sides, Underway(f),
         RealEmits \/ RealFails \/ RealDestroyed \/ WriteDone
  PROVE  Underway(f)'
<1>1. PICK m \in Messages(mode) : RealTells(m)
  BY RealMoves
<1>2. RealStep /\ UNCHANGED <<owner, entry, proxy, routes, queued>> /\ owner # Host /\ owner \in Workers
  BY RealMoves DEF RealStep, passVars, Underway, TypeOK, Sides
<1>3. /\ Steps({"ref", "data"}, {"ref", "data"})
      /\ toWorker' = toWorker /\ \A w \in Workers \ {owner} : toHost'[w] = toHost[w]
  BY <1>1, <1>2, RealSteps DEF RealTells
<1>4. HasFirst(f)'
  <2>1. HasFirst(f) /\ f # owner /\ proxy[f].state # "gone"
    BY DEF Underway, Unproxied
  <2> QED
    BY <1>1, <1>2, <2>1, RealKeepsFirst
<1>5. /\ toHost[owner] \in Seq(Messages(mode)) /\ RefFirst(toHost[owner]) /\ toHost[owner] # <<>>
      /\ Head(toHost[owner]).kind = "ref" /\ Lacks(toHost[owner], {"close"} \cup Writing)
  BY <1>2 DEF Underway, ChunkInv, PortsOK
<1>6. ~Lacks(toHost[owner], {"ref"})
  BY <1>5, TailIs DEF Lacks
<1>7. Unsaid(owner) = {"ref", "close"} \cup Writing
  BY <1>2 DEF Unsaid, Underway, Sides
<1>8. PortStep(toHost[owner], toHost'[owner], Unsaid(owner), {"ref", "data"})
  BY <1>2, <1>3 DEF Steps
<1>9. /\ RefFirst(toHost'[owner]) /\ Lacks(toHost'[owner], {"close"} \cup Writing)
      /\ ~Lacks(toHost'[owner], {"ref"}) /\ Head(toHost'[owner]) = Head(toHost[owner])
  <2>1. {"close"} \cup Writing \in SUBSET Unsaid(owner) /\ "ref" \in Unsaid(owner)
    BY <1>7
  <2> QED
    BY <1>5, <1>6, <1>8, <2>1, StepLacks
<1>10. toHost'[owner] # <<>>
  BY <1>9 DEF Lacks
<1> QED
  BY <1>2, <1>3, <1>4, <1>9, <1>10 DEF Underway, Unproxied, routes

LEMMA UsesDelivers ==
  ASSUME TypeOK, ChunkInv, FirstGot', NEW f \in Sides, Delivered(f), NEW s \in Sides, Uses(s)
  PROVE  Delivered(f)'
<1>1. Steps({"ref", "data"}, {"ref", "data"})
  BY UsesSteps
<1>2. entry' = entry /\ real' = real /\ UNCHANGED routes
  BY DEF Uses, Use
<1> QED
  BY <1>1, <1>2, DeliversQuietly


\* a worker handles a message
LEMMA WorkerHandlesSteps ==
  ASSUME TypeOK, ChunkInv, NEW w \in Workers, WorkerHandles(w)
  PROVE  /\ Steps({"ref", "data"}, {"ref", "data"} \ {Head(toWorker[w]).kind})
         /\ entry'[Host].kind = entry[Host].kind /\ proxy'[Host] = proxy[Host]
         /\ toWorker[w] # <<>> /\ Head(toWorker[w]).kind # "ref"
         /\ toWorker' = [toWorker EXCEPT ![w] = Tail(@)]
         /\ Up(Host) => Up(Host)'
<1> DEFINE m == Head(toWorker[w])
           T == {"ref", "data"} \ {m.kind}
<1>1. /\ w \in Sides /\ Host \in Sides /\ w # Host /\ m \in Messages(mode) /\ PortsOK
      /\ Answer(w, m) \in Seq(Messages(mode)) /\ toWorker[w] # <<>> /\ m.kind # "ref"
  BY Taken, AnswerTyped, HostAssumption DEF Sides, ChunkInv, WorkerHandles
<1>2. /\ Handle(w, m) /\ UNCHANGED <<owner, mode, queued>> /\ WorkerPosts(w, Answer(w, m))
      /\ toWorker' = [toWorker EXCEPT ![w] = Tail(@)]
  BY DEF WorkerHandles, passVars
<1>3. m.kind \notin T
  OBVIOUS
<1> HIDE DEF m, T
<1>4. \A t \in Sides : StateStep(t)
  BY <1>1, <1>2, HandleSteps
<1>5. Lacks(Answer(w, m), Unsaid(w))
  BY <1>1, <1>2, AnswerUnsaid
<1>6. ASSUME NEW v \in Workers
      PROVE  /\ PortStep(toHost[v], toHost'[v], Unsaid(v), {"ref", "data"})
             /\ PortStep(toWorker[v], toWorker'[v], {"ref"}, T)
  <2>1. /\ v = w => PortStep(toHost[v], toHost'[v], Unsaid(w), {"ref", "data"})
        /\ v # w => toHost'[v] = toHost[v]
    BY <1>1, <1>2, <1>5, WorkerPostsSteps
  <2>2. PortStep(toHost[v], toHost'[v], Unsaid(v), {"ref", "data"})
    BY <1>1, <2>1, PortStepStill
  <2>3. toWorker[v] \in Seq(Messages(mode)) /\ toWorker'[v] = IF v = w THEN Tail(toWorker[v]) ELSE toWorker[v]
    BY <1>1, <1>2 DEF PortsOK
  <2>4. v = w => Head(toWorker[v]) = m /\ toWorker[v] # <<>>
    BY <1>1 DEF m
  <2>5. PortStep(toWorker[v], toWorker'[v], {"ref"}, T)
    BY <1>3, <2>3, <2>4, NothingPosted
  <2> QED
    BY <2>2, <2>5
<1>7. Steps({"ref", "data"}, T)
  BY <1>2, <1>4, <1>6 DEF Steps
<1>8. entry'[Host].kind = entry[Host].kind
  BY <1>1, <1>2, HandleEntry
<1>9. proxy'[Host] = proxy[Host] /\ (Up(Host) => Up(Host)')
  <2>1. proxy'[Host] = proxy[Host]
    BY <1>1, <1>2 DEF Handle, OnRemoteData, OnRemoteEnd, OnRemoteError, OnFlow, OnWrite, OnWriteResult, OnClose, TypeOK
  <2>2. Up(Host) => Up(Host)'
    BY <1>1, <1>2 DEF Handle, OnRemoteData, OnRemoteEnd, OnRemoteError, OnFlow, OnWrite, OnWriteResult, OnClose, Up
  <2> QED
    BY <2>1, <2>2
<1> QED
  BY <1>1, <1>2, <1>7, <1>8, <1>9 DEF m, T

\* where no reference is on its way, its reader was there before
LEMMA ProxyThere ==
  ASSUME TypeOK, ChunkInv, NEW f \in Sides, Delivered(f),
         f = Host \/ (toWorker[f] # <<>> /\ Head(toWorker[f]).kind # "ref")
  PROVE  Open(f) \/ proxy[f].state = "gone"
<1>1. proxy[f].state \in {"none", "open", "gone"}
  BY ProxyIs DEF Proxies
<1>2. ASSUME proxy[f].state = "none" PROVE FALSE
  <2>1. ~Lacks(In(f), {"ref"})
    BY <1>2 DEF Delivered
  <2>2. f # Host
    BY <2>1 DEF In, Lacks
  <2>3. f \in Workers /\ In(f) = toWorker[f] /\ RefFirst(toWorker[f]) /\ toWorker[f] \in Seq(Messages(mode))
    BY <2>2 DEF Sides, In, Delivered, FirstPorts, ChunkInv, PortsOK
  <2> QED
    BY <2>1, <2>2, <2>3, RefIsHead
<1> QED
  BY <1>1, <1>2 DEF Open

LEMMA WorkerHandlesDelivers ==
  ASSUME TypeOK, ChunkInv, FirstGot', NEW f \in Sides, Delivered(f), NEW w \in Workers, WorkerHandles(w)
  PROVE  Delivered(f)'
<1> DEFINE m == Head(toWorker[w])
           TW == {"ref", "data"} \ {m.kind}
<1>1. /\ Steps({"ref", "data"}, TW) /\ entry'[Host].kind = entry[Host].kind
      /\ toWorker[w] # <<>> /\ m.kind # "ref" /\ toWorker' = [toWorker EXCEPT ![w] = Tail(@)]
  BY WorkerHandlesSteps
<1>2. Serves(f)' /\ "ref" \in TW
  BY <1>1, ServesOn
<1>3. UNCHANGED routes
  BY DEF WorkerHandles
<1>4. ASSUME proxy'[f].state # "gone" PROVE lapse' = "none" /\ f \in subs' /\ HasFirst(f)'
  <2>1. StateStep(f)
    BY <1>1 DEF Steps
  <2>2. lapse = "none" /\ f \in subs /\ HasFirst(f) /\ proxy[f].state # "gone"
    BY <1>4, <2>1 DEF StateStep, Delivered
  <2> SUFFICES HasFirst(f)'
    BY <1>3, <2>2 DEF routes
  <2>3. CASE m.kind # "data"
    <3>1. "data" \in TW /\ real'.sent = real.sent
      <4>1. real'.sent = real.sent
        BY <2>3 DEF WorkerHandles, Handle, OnRemoteData, OnRemoteEnd, OnRemoteError, OnFlow, OnWrite, OnWriteResult, OnClose, TypeOK, Reals
      <4> QED
        BY <2>3, <4>1
    <3> QED
      BY <1>1, <1>4, <2>2, <3>1, FirstKept DEF HasFirst, ChunkInv
  <2>4. CASE m.kind = "data"
    <3>1. OnRemoteData(w, m.n) /\ m \in Messages(mode) /\ w \in Sides
      BY <2>4, <1>1, Taken DEF WorkerHandles, Handle, ChunkInv, Sides
    <3>2. m.n \in Nat
      BY <3>1 DEF Messages
    <3>3. /\ IF Open(w) THEN Gains(w, m.n) ELSE proxy'[w] = proxy[w]
          /\ \A t \in Sides \ {w} : proxy'[t] = proxy[t]
          /\ real' = real
      BY <3>1, <3>2, OnDataGains
    <3>4. Ahead' = Ahead
      BY WorkerTakes
    <3>5. CASE f # w
      <4>1. Coming(f)' = Coming(f) /\ Had(f)' = Had(f)
        BY <3>3, <3>5, WorkerTakes DEF QuietIn, Had, Got, Buffered
      <4> QED
        BY <2>2, <3>3, <3>4, <4>1 DEF HasFirst
    <3>6. CASE f = w
      <4>1. Open(f)
        BY <1>1, <2>2, <3>6, ProxyThere
      <4>2. Gains(f, m.n) /\ proxy[f].buffer \in Seq(Nat)
        BY <3>3, <3>6, <4>1, ChunksAre
      <4>3. Range(Append(proxy[f].buffer, m.n)) = Range(proxy[f].buffer) \cup {m.n}
        BY <3>2, <4>2, RangeAppend
      <4>4. Had(f)' = Had(f) \cup {m.n}
        BY <4>2, <4>3 DEF Gains, Had, Got, Buffered
      <4>5. toWorker[w] \in Seq(Messages(mode)) /\ Ordered(toWorker[w]) /\ In(w) = toWorker[w]
        BY <3>1, WorkerTakes DEF ChunkInv, PortsOK, SideOK, OrderOK, InOrdered
      <4>6. DataIn(toWorker[w]) = DataIn(Tail(toWorker[w])) \cup {m.n}
        BY <1>1, <2>4, <4>5, DataTaken
      <4>7. Coming(f) = Coming(f)' \cup {m.n}
        BY <3>6, <4>6, WorkerTakes DEF Coming
      <4> QED
        BY <2>2, <3>3, <3>4, <4>4, <4>7 DEF HasFirst
    <3> QED
      BY <3>5, <3>6
  <2> QED
    BY <2>3, <2>4
<1> QED
  BY <1>1, <1>2, <1>4, Delivers


\* the host handles a message
LEMMA HostHandlesSteps ==
  ASSUME TypeOK, ChunkInv, NEW w \in Workers, HostHandles(w)
  PROVE  LET m == Head(toHost[w]) IN
         /\ Steps({"ref", "data"} \ {m.kind}, {"ref", "data"})
         /\ toHost[w] # <<>> /\ m \in Messages(mode) /\ m.kind # "ref"
         /\ toHost' = [toHost EXCEPT ![w] = Tail(@)]
         /\ m.kind # "close" => entry'[Host].kind = entry[Host].kind /\ UNCHANGED routes
         /\ proxy'[Host].used = proxy[Host].used /\ proxy'[Host].got = proxy[Host].got
         /\ m.kind = "data" => \A v \in subs \cap Workers : m.n \in DataIn(toWorker'[v])
         /\ (m.kind \in Writing /\ owner = Host => IsOwner(Host)) => Up(Host)'
<1> DEFINE m == Head(toHost[w])
           T == {"ref", "data"} \ {m.kind}
           ms == IF Host \in Targets(m) THEN Answer(Host, m) ELSE <<>>
<1>1. /\ w \in Sides /\ Host \in Sides /\ w # Host /\ m \in Messages(mode) /\ PortsOK
      /\ Answer(Host, m) \in Seq(Messages(mode)) /\ toHost[w] # <<>> /\ m.kind # "ref"
  BY Taken, AnswerTyped, HostAssumption DEF Sides, ChunkInv, HostHandles
<1>2. /\ IF Host \in Targets(m) THEN Handle(Host, m) ELSE UNCHANGED <<entry, down, streamVars>>
      /\ UNCHANGED <<owner, mode, queued>> /\ Up(Host) /\ HostPosts(Targets(m), m, ms)
      /\ toHost' = [toHost EXCEPT ![w] = Tail(@)]
      /\ m.kind # "close" => UNCHANGED routes
  BY DEF HostHandles, passVars
<1>3. m.kind \notin T /\ (m.kind = "data" => Targets(m) = subs) /\ (m.kind \in Writing => Targets(m) = {owner})
  BY DEF Targets, Writing
<1>4. Lacks(ms, {"ref"}) /\ ms \in Seq(Messages(mode))
  <2>1. CASE Host \in Targets(m)
    <3>1. Lacks(Answer(Host, m), Unsaid(Host)) /\ "ref" \in Unsaid(Host)
      BY <1>1, <1>2, <2>1, AnswerUnsaid DEF Unsaid, Untold
    <3> QED
      BY <1>1, <2>1, <3>1 DEF Lacks
  <2>2. CASE Host \notin Targets(m)
    BY <2>2 DEF Lacks
  <2> QED
    BY <2>1, <2>2
<1> HIDE DEF m, T, ms
<1>5. \A t \in Sides : StateStep(t)
  <2>1. CASE Host \in Targets(m)
    BY <1>1, <1>2, <2>1, HandleSteps
  <2>2. CASE Host \notin Targets(m)
    BY <1>2, <2>2, StillSteps DEF streamVars
  <2> QED
    BY <2>1, <2>2
<1>6. ASSUME NEW v \in Workers
      PROVE  /\ PortStep(toHost[v], toHost'[v], Unsaid(v), T)
             /\ PortStep(toWorker[v], toWorker'[v], {"ref"}, {"ref", "data"})
             /\ m.kind = "data" /\ v \in subs => m.n \in DataIn(toWorker'[v])
  <2>1. toHost[v] \in Seq(Messages(mode)) /\ toHost'[v] = IF v = w THEN Tail(toHost[v]) ELSE toHost[v]
    BY <1>1, <1>2 DEF PortsOK
  <2>2. v = w => Head(toHost[v]) = m /\ toHost[v] # <<>>
    BY <1>1 DEF m
  <2>3. PortStep(toHost[v], toHost'[v], Unsaid(v), T)
    BY <1>3, <2>1, <2>2, NothingPosted
  <2>4. /\ PortStep(toWorker[v], toWorker'[v], {"ref"}, {"ref", "data"})
        /\ m.kind = "data" /\ v \in Targets(m) => m.n \in DataIn(toWorker'[v])
    BY <1>1, <1>2, <1>4, HostPostsSteps
  <2> QED
    BY <1>3, <2>3, <2>4
<1>7. Steps(T, {"ref", "data"})
  BY <1>2, <1>5, <1>6 DEF Steps
<1>8. /\ m.kind # "close" => entry'[Host].kind = entry[Host].kind
      /\ proxy'[Host].used = proxy[Host].used /\ proxy'[Host].got = proxy[Host].got
  <2>1. CASE Host \in Targets(m)
    BY <1>1, <1>2, <2>1, HandleEntry
  <2>2. CASE Host \notin Targets(m)
    BY <1>2, <2>2 DEF streamVars
  <2> QED
    BY <2>1, <2>2
<1>9. (m.kind \in Writing /\ owner = Host => IsOwner(Host)) => Up(Host)'
  BY <1>1, <1>2, <1>3 DEF Handle, OnRemoteData, OnRemoteEnd, OnRemoteError, OnFlow, OnWrite, OnWriteResult, OnClose, Up, Writing
<1> QED
  BY <1>1, <1>2, <1>6, <1>7, <1>8, <1>9 DEF m, T

\* only f closes the stream, as the last that it says of it
LEMMA HostHandlesClose ==
  ASSUME TypeOK, ChunkInv, FirstGot', NEW f \in Sides, Delivered(f), NEW w \in Workers, HostHandles(w),
         Head(toHost[w]).kind = "close"
  PROVE  Delivered(f)'
<1> DEFINE T == {"ref", "data"} \ {Head(toHost[w]).kind}
<1>1. /\ Steps(T, {"ref", "data"}) /\ toHost[w] # <<>> /\ toHost' = [toHost EXCEPT ![w] = Tail(@)]
      /\ toHost[w] \in Seq(Messages(mode)) /\ "ref" \in T
  BY HostHandlesSteps DEF ChunkInv, PortsOK
<1>2. ~Lacks(toHost[w], {"close"})
  BY <1>1, TailIs DEF Lacks
<1>3. ~Lacks(toHost[w], {"ref", "close"} \cup Writing)
  BY <1>2 DEF Lacks
<1>4. w = f
  BY <1>3 DEF Delivered, OthersIdle
<1>5. proxy[f].state = "gone" /\ CloseLast(toHost[w])
  BY <1>2, <1>4, HostAssumption DEF Delivered, FirstPorts
<1>6. proxy'[f].state = "gone"
  BY <1>1, <1>5 DEF Steps, StateStep
<1>7. Lacks(Tail(toHost[w]), Writing)
  <2> SUFFICES ASSUME NEW i \in DOMAIN Tail(toHost[w]) PROVE Tail(toHost[w])[i].kind \notin Writing
    BY DEF Lacks
  <2>1. i + 1 \in DOMAIN toHost[w] /\ Tail(toHost[w])[i] = toHost[w][i + 1] /\ i \in Nat \ {0}
        /\ 1 \in DOMAIN toHost[w] /\ toHost[w][1] = Head(toHost[w])
    BY <1>1, TailIs
  <2>2. 1 < i + 1
    BY <2>1
  <2> QED
    BY <1>5, <2>1, <2>2 DEF CloseLast
<1>8. Lacks(toHost'[f], Writing)
  <2>1. toHost'[w] = Tail(toHost[w])
    BY <1>1 DEF ChunkInv, PortsOK
  <2> QED
    BY <1>4, <1>7, <2>1
<1>9. Serves(f)'
  BY <1>6, <1>8 DEF Serves
<1> HIDE DEF T
<1> QED
  BY <1>1, <1>6, <1>9, Delivers

LEMMA HostHandlesDelivers ==
  ASSUME TypeOK, ChunkInv, PortsOK', FirstGot', NEW f \in Sides, Delivered(f), NEW w \in Workers, HostHandles(w)
  PROVE  Delivered(f)'
<1> DEFINE m == Head(toHost[w])
           TH == {"ref", "data"} \ {m.kind}
<1>1. /\ Steps(TH, {"ref", "data"})
      /\ toHost[w] # <<>> /\ m \in Messages(mode) /\ m.kind # "ref"
      /\ m.kind # "close" => entry'[Host].kind = entry[Host].kind /\ UNCHANGED routes
      /\ m.kind = "data" => \A v \in subs \cap Workers : m.n \in DataIn(toWorker'[v])
  BY HostHandlesSteps
<1>2. CASE m.kind = "close"
  BY <1>2, HostHandlesClose
<1>3. CASE m.kind # "close"
  <2>1. Serves(f)' /\ "ref" \in TH
    BY <1>1, <1>3, ServesOn
  <2>2. ASSUME proxy'[f].state # "gone" PROVE lapse' = "none" /\ f \in subs' /\ HasFirst(f)'
    <3>1. StateStep(f)
      BY <1>1 DEF Steps
    <3>2. lapse = "none" /\ f \in subs /\ HasFirst(f) /\ proxy[f].state # "gone" /\ f # owner
      BY <2>2, <3>1 DEF StateStep, Delivered
    <3> SUFFICES HasFirst(f)'
      BY <1>1, <1>3, <3>2 DEF routes
    <3>3. real'.sent = real.sent
      BY DEF HostHandles, Handle, OnRemoteData, OnRemoteEnd, OnRemoteError, OnFlow, OnWrite, OnWriteResult, OnClose, TypeOK, Reals, streamVars
    <3>4. CASE m.kind # "data"
      <4>1. "data" \in TH
        BY <3>4
      <4> QED
        BY <1>1, <2>2, <3>2, <3>3, <4>1, FirstKept DEF HasFirst, ChunkInv
    <3>5. CASE m.kind = "data"
      <4>1. m.n \in Nat
        BY <1>1 DEF Messages
      <4>2. owner = w /\ Src = toHost[w] /\ Src' = Tail(toHost[w]) /\ Src \in Seq(Messages(mode)) /\ Ordered(Src)
        BY <3>5, HostTakes DEF PlainMessage
      <4>3. Ahead = Ahead' \cup {m.n}
        BY <1>1, <3>5, <4>2, DataTaken DEF Ahead
      <4>4. 1 \in Had(f) => 1 \in Had(f)'
        BY <2>2, <3>1 DEF StateStep
      <4>5. CASE f = Host
        <5>1. OnRemoteData(Host, m.n) /\ Open(Host)
          <6>1. Host \in Targets(m)
            BY <3>2, <3>5, <4>5 DEF Targets
          <6>2. Open(Host)
            BY <3>2, <4>5, ProxyThere
          <6> QED
            BY <3>5, <6>1, <6>2 DEF HostHandles, Handle
        <5>2. Gains(Host, m.n) /\ proxy[Host].buffer \in Seq(Nat)
          BY <4>1, <4>5, <5>1, OnDataGains, ChunksAre
        <5>3. Range(Append(proxy[Host].buffer, m.n)) = Range(proxy[Host].buffer) \cup {m.n}
          BY <4>1, <5>2, RangeAppend
        <5>4. m.n \in Had(f)'
          BY <4>5, <5>2, <5>3 DEF Gains, Had, Buffered
        <5>5. Coming(f) = {}
          BY <4>5, HostReads
        <5> QED
          BY <3>2, <3>3, <4>3, <4>4, <5>4, <5>5 DEF HasFirst
      <4>6. CASE f # Host
        <5>1. f \in Workers /\ Coming(f) = DataIn(toWorker[f]) /\ Coming(f)' = DataIn(toWorker'[f])
          BY <4>6 DEF Sides, Coming, In
        <5>2. toWorker[f] \in Seq(Messages(mode)) /\ PortStep(toWorker[f], toWorker'[f], {"ref"}, {"ref", "data"})
          BY <1>1, <5>1 DEF Steps, ChunkInv, PortsOK
        <5>3. 1 \in Coming(f) => 1 \in Coming(f)'
          <6>1. {"ref"} \in SUBSET {"ref"} /\ "data" \in {"ref", "data"}
            OBVIOUS
          <6> QED
            BY <5>1, <5>2, <6>1, StepLacks
        <5>4. m.n \in Coming(f)'
          BY <1>1, <3>2, <3>5, <5>1
        <5> QED
          BY <3>2, <3>3, <4>3, <4>4, <5>3, <5>4 DEF HasFirst
      <4> QED
        BY <4>5, <4>6
    <3> QED
      BY <3>4, <3>5
  <2> QED
    BY <1>1, <2>1, <2>2, Delivers
<1> QED
  BY <1>2, <1>3


\* a side gets its proxy
LEMMA CreatesNew ==
  ASSUME TypeOK, NEW s \in Sides, NEW used \in BOOLEAN, CreateProxy(s, used), Unproxied(s)
  PROVE  /\ entry'[s] = Opened("proxy")
         /\ proxy'[s].state = "open" /\ proxy'[s].got = <<>> /\ proxy'[s].buffer = <<>>
         /\ \A t \in Sides \ {s} : proxy'[t] = proxy[t] /\ entry'[t] = entry[t]
BY DEF CreateProxy, Unproxied, NewProxy, TypeOK

LEMMA HadNothing ==
  ASSUME TypeOK, ChunkInv, NEW s \in Sides, Unproxied(s)
  PROVE  Had(s) = {}
<1>1. proxy[s].got = <<>> /\ proxy[s].buffer = <<>>
  BY DEF Unproxied, ChunkInv, SideOK, ProxyOK, Open
<1> QED
  BY <1>1, NothingRead DEF Had, Got, Buffered

LEMMA WorkerGetsRefDelivers ==
  ASSUME TypeOK, ChunkInv, NEW f \in Sides, Delivered(f), NEW w \in Workers, WorkerGetsRef(w)
  PROVE  Delivered(f)'
<1>1. /\ toWorker[w] # <<>> /\ Head(toWorker[w]).kind = "ref" /\ toWorker[w] \in Seq(Messages(mode))
      /\ CreateProxy(w, TRUE) /\ w \in Sides /\ w # Host
      /\ UNCHANGED <<owner, mode, queued, routes, toHost, real>>
      /\ toWorker' = [toWorker EXCEPT ![w] = Tail(@)]
  BY HostAssumption DEF WorkerGetsRef, ChunkInv, PortsOK, Sides, passVars
<1>2. ~Lacks(toWorker[w], {"ref"})
  BY <1>1, TailIs DEF Lacks
<1>3. w = f
  BY <1>2 DEF Delivered, OthersIdle
<1>4. /\ Lacks(toHost[f], {"ref"}) /\ RefFirst(toWorker[f]) /\ Unproxied(f)
      /\ Lacks(toHost[f], {"ref", "close"} \cup Writing)
  BY <1>1, <1>2, <1>3 DEF Delivered, FirstPorts
<1>5. /\ entry'[f] = Opened("proxy")
      /\ proxy'[f].state = "open" /\ proxy'[f].got = <<>> /\ proxy'[f].buffer = <<>>
      /\ \A t \in Sides \ {f} : proxy'[t] = proxy[t] /\ entry'[t] = entry[t]
  BY <1>1, <1>3, <1>4, CreatesNew
<1>6. /\ toWorker'[f] = Tail(toWorker[f])
      /\ \A v \in Workers \ {f} : toWorker'[v] = toWorker[v]
  BY <1>1, <1>3 DEF ChunkInv, PortsOK
<1>7. Lacks(Tail(toWorker[f]), {"ref"}) /\ Tail(toWorker[f]) \in Seq(Messages(mode))
  BY <1>1, <1>3, <1>4, TailLacks
<1>8. OthersIdle(f)'
  <2>1. OthersIdle(f) /\ \A v \in Workers : v \in Sides
    BY DEF Delivered, Sides
  <2> QED
    BY <1>1, <1>5, <1>6, <2>1 DEF OthersIdle, Unproxied
<1>9. FirstPorts(f)'
  <2>1. RefFirst(toWorker'[f]) /\ Lacks(toWorker'[f], {"ref"})
    BY <1>6, <1>7 DEF RefFirst, Lacks
  <2>2. CloseLast(toHost[f]) /\ Lacks(toHost[f], {"close"})
    BY <1>4 DEF CloseLast, Lacks
  <2> QED
    BY <1>1, <1>4, <2>1, <2>2 DEF FirstPorts
<1>10. HasFirst(f)'
  <2>1. HasFirst(f) /\ Had(f) = {}
    BY <1>4, HadNothing DEF Delivered, Unproxied
  <2>2. Ahead' = Ahead
    BY <1>1 DEF Ahead, Src
  <2>3. In(f) = toWorker[f] /\ In(f)' = Tail(toWorker[f])
    BY <1>1, <1>3, <1>6 DEF In
  <2>4. DataIn(Tail(toWorker[f])) = DataIn(toWorker[f])
    BY <1>1, <1>3, TailKept DEF PlainMessage, PortKept
  <2> QED
    BY <1>1, <2>1, <2>2, <2>3, <2>4 DEF HasFirst, Coming
<1>11. lapse = "none" /\ f \in subs /\ f # owner /\ queued = {} /\ Serves(f)
  BY <1>4 DEF Delivered, Unproxied
<1>12. Serves(f)'
  <2>1. entry'[Host] = entry[Host] /\ proxy[f].state # "gone"
    BY <1>1, <1>3, <1>4, <1>5, HostReads DEF Unproxied
  <2> QED
    BY <1>1, <1>11, <2>1 DEF Serves
<1> QED
  BY <1>1, <1>5, <1>8, <1>9, <1>10, <1>11, <1>12 DEF Delivered, routes

\* the host takes the reference from the owner, keeps it or sends it on
LEMMA HostGetsRefDelivers ==
  ASSUME TypeOK, ChunkInv, NEW f \in Sides, Underway(f), NEW w \in Workers, HostGetsRef(w)
  PROVE  Delivered(f)'
<1> DEFINE m == Head(toHost[owner])
<1>1. /\ owner \in Workers /\ owner # Host /\ f # owner /\ toHost[owner] # <<>> /\ RefFirst(toHost[owner])
      /\ toHost[owner] \in Seq(Messages(mode)) /\ m \in Messages(mode)
      /\ m.kind = "ref" /\ m.n = 0 /\ m.side = f
      /\ Lacks(toHost[owner], {"close"} \cup Writing)
      /\ \A v \in Workers : toWorker[v] = <<>> /\ (v # owner => toHost[v] = <<>>)
      /\ \A s \in Sides : Unproxied(s)
      /\ lapse = "none" /\ queued = {} /\ HasFirst(f)
  BY Taken DEF Underway, TypeOK, Sides, ChunkInv, PortsOK
<1>2. w = owner
  BY <1>1 DEF HostGetsRef
<1>3. /\ CreateProxy(Host, f = Host) /\ (f = Host) \in BOOLEAN
      /\ UNCHANGED <<owner, mode, real>>
      /\ toHost' = [toHost EXCEPT ![owner] = Tail(@)]
      /\ IF f # Host THEN /\ Subscribe({Host, owner, f}) /\ HostPosts({f}, m, <<>>) /\ UNCHANGED queued
         ELSE Subscribe({Host}) /\ UNCHANGED <<queued, toWorker>>
  BY <1>1, <1>2, HostReads DEF HostGetsRef, Unproxied
<1> HIDE DEF m
<1>4. /\ entry'[Host] = Opened("proxy")
      /\ proxy'[Host].state = "open" /\ proxy'[Host].got = <<>> /\ proxy'[Host].buffer = <<>>
      /\ \A t \in Sides \ {Host} : proxy'[t] = proxy[t] /\ entry'[t] = entry[t]
  BY <1>1, <1>3, HostReads, CreatesNew
<1>5. /\ toHost'[owner] = Tail(toHost[owner]) /\ \A v \in Workers \ {owner} : toHost'[v] = <<>>
      /\ Lacks(Tail(toHost[owner]), {"ref"}) /\ Lacks(Tail(toHost[owner]), {"close"} \cup Writing)
  BY <1>1, <1>3, TailLacks DEF ChunkInv, PortsOK
<1>6. \A v \in Workers : Lacks(toHost'[v], {"ref", "close"} \cup Writing)
  <2>1. \A p : Lacks(p, {"ref"}) /\ Lacks(p, {"close"} \cup Writing) => Lacks(p, {"ref", "close"} \cup Writing)
    BY DEF Lacks
  <2>2. Lacks(<<>>, {"ref", "close"} \cup Writing)
    BY DEF Lacks
  <2> QED
    BY <1>5, <2>1, <2>2
<1>7. \A v \in Workers : toWorker'[v] = IF v = f THEN <<m>> ELSE <<>>
  <2>1. f = Host => f \notin Workers
    BY HostAssumption
  <2>2. <<>> \o <<>> = <<>> /\ <<>> \o <<m>> = <<m>> /\ <<m>> \o <<>> = <<m>>
    BY <1>1
  <2>3. ASSUME f # Host, NEW v \in Workers PROVE toWorker'[v] = IF v = f THEN <<m>> ELSE <<>>
    <3>1. toWorker[v] = <<>>
      BY <1>1
    <3>2. toWorker'[v] = (<<>> \o (IF v = f THEN <<m>> ELSE <<>>)) \o <<>>
      BY <1>3, <2>3, <3>1 DEF HostPosts
    <3> QED
      BY <2>2, <3>2
  <2> QED
    BY <1>1, <1>3, <2>1, <2>3
<1>8. \A v \in Workers \ {f} : Unproxied(v)'
  BY <1>1, <1>4, HostAssumption DEF Unproxied, Sides
<1>9. OthersIdle(f)'
  BY <1>6, <1>7, <1>8 DEF OthersIdle, Lacks
<1>10. FirstPorts(f)'
  <2> SUFFICES ASSUME f # Host PROVE FirstPorts(f)'
    BY DEF FirstPorts
  <2>1. f \in Workers /\ toHost'[f] = <<>> /\ toWorker'[f] = <<m>> /\ Unproxied(f)'
    BY <1>1, <1>4, <1>5, <1>7, HostReads DEF Sides, Unproxied
  <2> QED
    BY <1>6, <2>1 DEF FirstPorts, Lacks, RefFirst, CloseLast
<1>11. proxy'[f].state = "none" => ~Lacks(In(f), {"ref"})'
  <2> SUFFICES ASSUME proxy'[f].state = "none" PROVE ~Lacks(In(f), {"ref"})'
    OBVIOUS
  <2>1. f # Host
    BY <1>4
  <2>2. In(f)' = <<m>>
    BY <1>7, <2>1 DEF In, Sides
  <2> QED
    BY <1>1, <2>2 DEF Lacks, m
<1>12. lapse' = "none" /\ f \in subs'
  BY <1>1, <1>3 DEF Subscribe
<1>13. HasFirst(f)'
  <2>1. HasFirst(f) /\ Had(f) = {} /\ Coming(f) = {}
    <3>1. In(f) = <<>>
      BY <1>1 DEF In, Sides
    <3> QED
      BY <1>1, <3>1, HadNothing DEF Coming, DataIn
  <2>2. DataIn(Tail(toHost[owner])) = DataIn(toHost[owner])
    BY <1>1, TailKept DEF PlainMessage, PortKept, m
  <2>3. Ahead' = Ahead
    BY <1>1, <1>3, <1>5, <2>2 DEF Ahead, Src
  <2> QED
    BY <1>3, <2>1, <2>3 DEF HasFirst
<1>14. proxy'[f].got = <<>>
  BY <1>1, <1>4, HostReads DEF Unproxied
<1>15. Serves(f)' /\ f # owner' /\ queued' = {}
  BY <1>1, <1>3 DEF Serves
<1> QED
  BY <1>9, <1>10, <1>11, <1>12, <1>13, <1>14, <1>15 DEF Delivered


\* passed on in an argument: the host's own proxy is not used
LEMMA ArgumentSteps ==
  ASSUME TypeOK, ChunkInv, AsArgument, NEW TH, NEW TW, Steps(TH, TW), "ref" \in TH, first' = first,
         proxy'[Host].used = proxy[Host].used, proxy'[Host].got = proxy[Host].got
  PROVE  AsArgument'
<1>1. \A w \in Workers : toHost[w] \in Seq(Messages(mode)) /\ PortStep(toHost[w], toHost'[w], Unsaid(w), TH)
  BY DEF Steps, ChunkInv, PortsOK
<1>2. \A w \in Workers : {"ref"} \in SUBSET Unsaid(w) /\ "ref" \in Unsaid(w)
  BY DEF Unsaid, Untold
<1>3. \A w \in Workers :
        /\ Lacks(toHost[w], {"ref"}) => Lacks(toHost'[w], {"ref"})
        /\ RefFirst(toHost[w]) => RefFirst(toHost'[w])
        /\ RefFirst(toHost[w]) /\ ~Lacks(toHost[w], {"ref"}) => Head(toHost'[w]) = Head(toHost[w])
  BY <1>1, <1>2, StepLacks
<1>4. owner' = owner /\ owner \in Workers
  BY DEF Steps, AsArgument, TypeOK, Sides
<1> QED
  BY <1>3, <1>4 DEF AsArgument

LEMMA ArgumentNext ==
  ASSUME TypeOK, ChunkInv, AsArgument, [Next]_vars, passes' = passes, passes = 1
  PROVE  AsArgument'
<1>1. CASE \E w \in Workers : WorkerHandles(w)
  <2>1. PICK w \in Workers : WorkerHandles(w)
    BY <1>1
  <2>2. /\ Steps({"ref", "data"}, {"ref", "data"} \ {Head(toWorker[w]).kind})
        /\ proxy'[Host] = proxy[Host] /\ first' = first
    BY <2>1, WorkerHandlesSteps DEF WorkerHandles, passVars
  <2> QED
    BY <2>2, ArgumentSteps
<1>2. CASE \E w \in Workers : HostHandles(w)
  <2>1. PICK w \in Workers : HostHandles(w)
    BY <1>2
  <2> DEFINE TH == {"ref", "data"} \ {Head(toHost[w]).kind}
  <2>2. /\ Steps(TH, {"ref", "data"}) /\ "ref" \in TH
        /\ proxy'[Host].used = proxy[Host].used /\ proxy'[Host].got = proxy[Host].got /\ first' = first
    BY <2>1, HostHandlesSteps DEF HostHandles, passVars
  <2> HIDE DEF TH
  <2> QED
    BY <2>2, ArgumentSteps
<1>3. CASE \E w \in Workers : WorkerGetsRef(w)
  <2>1. PICK w \in Workers : WorkerGetsRef(w)
    BY <1>3
  <2>2. UNCHANGED <<owner, toHost, first>> /\ proxy'[Host] = proxy[Host]
    BY <2>1, HostAssumption, HostReads DEF WorkerGetsRef, CreateProxy, passVars, TypeOK
  <2> QED
    BY <2>2 DEF AsArgument
<1>4. CASE \E w \in Workers : HostGetsRef(w)
  <2>1. PICK w \in Workers : HostGetsRef(w)
    BY <1>4
  <2>2. /\ toHost[w] # <<>> /\ Head(toHost[w]).kind = "ref" /\ toHost[w] \in Seq(Messages(mode))
        /\ CreateProxy(Host, Head(toHost[w]).side = Host)
        /\ toHost' = [toHost EXCEPT ![w] = Tail(@)] /\ UNCHANGED <<owner, first>>
    BY <2>1 DEF HostGetsRef, ChunkInv, PortsOK
  <2>3. ~Lacks(toHost[w], {"ref"})
    BY <2>2, TailIs DEF Lacks
  <2>4. w = owner /\ Head(toHost[w]).side # Host /\ RefFirst(toHost[w])
    BY <2>3 DEF AsArgument
  <2>5. proxy'[Host].got = <<>> /\ ~proxy'[Host].used
    <3>1. CreateProxy(Host, FALSE) /\ proxy[Host] \in Proxies /\ proxy[Host].got = <<>> /\ ~proxy[Host].used
      BY <2>2, <2>4, HostReads, ProxyIs DEF AsArgument
    <3>2. CASE entry[Host].kind = "proxy"
      <4>1. proxy' = [proxy EXCEPT ![Host].used = @ \/ FALSE]
        BY <3>1, <3>2 DEF CreateProxy
      <4>2. proxy'[Host] = [proxy[Host] EXCEPT !.used = @ \/ FALSE]
        BY <4>1, HostReads DEF TypeOK
      <4> QED
        BY <3>1, <4>2 DEF Proxies
    <3>3. CASE entry[Host].kind # "proxy"
      <4>1. proxy'[Host] = [NewProxy EXCEPT !.used = FALSE]
        BY <3>1, <3>3, HostReads DEF CreateProxy, TypeOK
      <4> QED
        BY <4>1 DEF NewProxy
    <3> QED
      BY <3>2, <3>3
  <2>6. /\ toHost'[owner] = Tail(toHost[owner]) /\ \A v \in Workers \ {owner} : toHost'[v] = toHost[v]
    BY <2>1, <2>2, <2>4 DEF ChunkInv, PortsOK
  <2>7. Lacks(toHost'[owner], {"ref"})
    BY <2>2, <2>4, <2>6, TailLacks
  <2> QED
    BY <2>2, <2>5, <2>6, <2>7 DEF AsArgument, RefFirst, Lacks
<1>5. CASE \E w \in Workers : MailboxStarts(w)
  BY <1>5 DEF MailboxStarts, streamVars, AsArgument
<1>6. CASE RealEmits \/ RealFails \/ RealDestroyed \/ WriteDone
  <2>1. PICK m \in Messages(mode) : RealTells(m)
    BY <1>6, RealMoves
  <2>2. RealStep /\ proxy' = proxy /\ first' = first
    BY <1>6, RealMoves DEF RealStep, passVars
  <2>3. Steps({"ref", "data"}, {"ref", "data"})
    BY <2>1, <2>2, RealSteps DEF RealTells
  <2> QED
    BY <2>2, <2>3, ArgumentSteps
<1>7. CASE \E s \in Sides : Read(s) \/ SeesEnd(s) \/ Pause(s) \/ Resume(s) \/ Write(s) \/ Stop(s)
  <2>1. PICK s \in Sides : Uses(s)
    BY <1>7, UsesIs
  <2>2. s # Host /\ proxy'[Host] = proxy[Host] /\ first' = first
    BY <2>1, HostReads DEF Uses, Use, AsArgument, passVars
  <2>3. Steps({"ref", "data"}, {"ref", "data"})
    BY <2>1, UsesSteps
  <2> QED
    BY <2>2, <2>3, ArgumentSteps
<1>8. CASE \E w \in Workers : Crash(w)
  BY <1>8 DEF Crash, streamVars, passVars, AsArgument
<1>9. CASE UNCHANGED vars
  BY <1>9 DEF vars, linkVars, streamVars, passVars, AsArgument
<1>10. CASE \E w \in Workers : HostPasses(w) \/ \E t \in Sides, argument \in BOOLEAN : WorkerPasses(w, t, argument)
  BY <1>10 DEF HostPasses, WorkerPasses, Pass, TypeOK
<1> QED
  BY <1>1, <1>2, <1>3, <1>4, <1>5, <1>6, <1>7, <1>8, <1>9, <1>10 DEF Next

LEMMA UnderwayNext ==
  ASSUME TypeOK, ChunkInv, NEW f \in Sides, Underway(f), [Next]_vars, passes' = passes, passes = 1
  PROVE  Underway(f)' \/ Delivered(f)'
<1>1. \A w \in Workers : toWorker[w] = <<>> /\ (toHost[w] = <<>> \/ Head(toHost[w]).kind = "ref")
  BY DEF Underway
<1>2. \A s \in Sides : proxy[s].state = "none"
  BY DEF Underway, Unproxied
<1>3. CASE \E w \in Workers : WorkerHandles(w) \/ HostHandles(w) \/ WorkerGetsRef(w)
  BY <1>1, <1>3 DEF WorkerHandles, HostHandles, WorkerGetsRef
<1>4. CASE \E w \in Workers : HostGetsRef(w)
  BY <1>4, HostGetsRefDelivers
<1>5. CASE \E w \in Workers : MailboxStarts(w)
  BY <1>5 DEF MailboxStarts, Underway
<1>6. CASE RealEmits \/ RealFails \/ RealDestroyed \/ WriteDone
  BY <1>6, RealUnderway
<1>7. CASE \E s \in Sides : Read(s) \/ SeesEnd(s) \/ Pause(s) \/ Resume(s) \/ Write(s) \/ Stop(s)
  BY <1>2, <1>7 DEF Read, SeesEnd, Pause, Resume, Write, Stop, Reads, Use, Open
<1>8. CASE (\E w \in Workers : Crash(w)) \/ UNCHANGED vars
  <2>1. UNCHANGED <<owner, entry, routes, toHost, toWorker, streamVars, passVars>>
    BY <1>8 DEF Crash, vars, linkVars
  <2> QED
    BY <2>1 DEF Underway, Unproxied, HasFirst, Had, Got, Buffered, Coming, In, Ahead, Src, routes, streamVars, passVars
<1>9. CASE \E w \in Workers : HostPasses(w) \/ \E t \in Sides, argument \in BOOLEAN : WorkerPasses(w, t, argument)
  BY <1>9 DEF HostPasses, WorkerPasses, Pass, TypeOK
<1> QED
  BY <1>3, <1>4, <1>5, <1>6, <1>7, <1>8, <1>9 DEF Next

LEMMA DeliveredNext ==
  ASSUME TypeOK, ChunkInv, PortsOK', FirstGot', NEW f \in Sides, Delivered(f), [Next]_vars,
         passes' = passes, passes = 1
  PROVE  Delivered(f)'
<1>1. CASE \E w \in Workers : WorkerHandles(w)
  BY <1>1, WorkerHandlesDelivers
<1>2. CASE \E w \in Workers : HostHandles(w)
  BY <1>2, HostHandlesDelivers
<1>3. CASE \E w \in Workers : WorkerGetsRef(w)
  BY <1>3, WorkerGetsRefDelivers
<1>4. CASE \E w \in Workers : HostGetsRef(w)
  <2>1. PICK w \in Workers : HostGetsRef(w)
    BY <1>4
  <2>2. toHost[w] # <<>> /\ Head(toHost[w]).kind = "ref" /\ toHost[w] \in Seq(Messages(mode))
    BY <2>1 DEF HostGetsRef, ChunkInv, PortsOK
  <2>3. ~Lacks(toHost[w], {"ref"})
    BY <2>2, TailIs DEF Lacks
  <2>4. Lacks(toHost[w], {"ref"})
    BY HostAssumption DEF Delivered, OthersIdle, FirstPorts, Lacks
  <2> QED
    BY <2>3, <2>4
<1>5. CASE \E w \in Workers : MailboxStarts(w)
  BY <1>5 DEF MailboxStarts, Delivered
<1>6. CASE RealEmits \/ RealFails \/ RealDestroyed \/ WriteDone
  BY <1>6, RealDelivers
<1>7. CASE \E s \in Sides : Read(s) \/ SeesEnd(s) \/ Pause(s) \/ Resume(s) \/ Write(s) \/ Stop(s)
  BY <1>7, UsesIs, UsesDelivers
<1>8. CASE (\E w \in Workers : Crash(w)) \/ UNCHANGED vars
  <2>1. UNCHANGED <<owner, entry, routes, toHost, toWorker, streamVars, passVars>>
    BY <1>8 DEF Crash, vars, linkVars
  <2>2. UNCHANGED <<owner, entry, subs, lapse, toHost, toWorker, real, proxy, queued>>
    BY <2>1 DEF routes, streamVars, passVars
  <2>3. (OthersIdle(f) <=> OthersIdle(f)') /\ (FirstPorts(f) <=> FirstPorts(f)') /\ (Serves(f) <=> Serves(f)')
    BY <2>2 DEF OthersIdle, FirstPorts, Serves, Unproxied
  <2>4. (HasFirst(f) <=> HasFirst(f)') /\ Got(f)' = Got(f) /\ In(f)' = In(f)
    BY <2>2 DEF HasFirst, Had, Got, Buffered, Coming, In, Ahead, Src
  <2> QED
    BY <2>2, <2>3, <2>4 DEF Delivered
<1>9. CASE \E w \in Workers : HostPasses(w) \/ \E t \in Sides, argument \in BOOLEAN : WorkerPasses(w, t, argument)
  BY <1>9 DEF HostPasses, WorkerPasses, Pass, TypeOK
<1> QED
  BY <1>1, <1>2, <1>3, <1>4, <1>5, <1>6, <1>7, <1>8, <1>9 DEF Next


\* before the first time the reference is passed nothing else can happen
LEMMA PristineHostPasses ==
  ASSUME TypeOK, ChunkInv, Pristine, passes = 0, NEW w \in Workers, HostPasses(w)
  PROVE  Delivered(first)' /\ Up(Host)'
<1>1. /\ real.sent = 0 /\ (\A s \in Sides : Unproxied(s) /\ entry[s] = NoEntry)
      /\ (\A v \in Workers : toHost[v] = <<>> /\ toWorker[v] = <<>>)
      /\ lapse = "none" /\ queued = {}
  BY DEF Pristine
<1>2. /\ w \in Sides /\ Host \in Sides /\ w # Host /\ owner = Host
      /\ UNCHANGED <<owner, proxy, queued, toHost, down>> /\ first' = w /\ Up(Host)
      /\ lapse' = "none" /\ w \in subs'
      /\ entry' = [entry EXCEPT ![Host] = Opened("local")] /\ real' = [real EXCEPT !.flowing = TRUE]
      /\ toWorker' = [toWorker EXCEPT ![w] = Append(@, MsgOf("ref", 0, w))]
  <2>1. w \in Sides /\ Host \in Sides /\ w # Host
    BY HostAssumption DEF Sides
  <2>2. Holds(Host) /\ TryRegisterLocal(Host) /\ Up(Host) /\ UNCHANGED <<owner, down, proxy, queued>>
        /\ Subscribe({w}) /\ UNCHANGED toHost /\ first' = w
        /\ toWorker' = [toWorker EXCEPT ![w] = Append(@, MsgOf("ref", 0, w))]
    BY DEF HostPasses, Pass
  <2>3. ~Tracks(Host) /\ entry[Host].kind # "proxy"
    BY <1>1, <2>1 DEF Tracks, NoEntry
  <2>4. owner = Host
    BY <2>2, <2>3 DEF Holds
  <2> QED
    BY <1>1, <2>1, <2>2, <2>3, <2>4 DEF TryRegisterLocal, Subscribe
<1>3. /\ entry'[Host].kind = "local" /\ \A s \in Sides \ {Host} : Unproxied(s)'
      /\ real'.sent = 0
  BY <1>1, <1>2 DEF TypeOK, Opened, Unproxied, Reals
<1>4. \A v \in Workers : toWorker'[v] = IF v = w THEN <<MsgOf("ref", 0, w)>> ELSE <<>>
  <2>1. Append(<<>>, MsgOf("ref", 0, w)) = <<MsgOf("ref", 0, w)>>
    OBVIOUS
  <2> QED
    BY <1>1, <1>2, <2>1 DEF ChunkInv, PortsOK
<1>5. OthersIdle(w)' /\ FirstPorts(w)'
  BY <1>1, <1>2, <1>3, <1>4, HostAssumption DEF OthersIdle, FirstPorts, Lacks, RefFirst, CloseLast, Sides
<1>6. ~Lacks(In(w), {"ref"})'
  BY <1>2, <1>4 DEF In, Lacks, MsgOf
<1>7. HasFirst(w)' /\ Serves(w)' /\ proxy'[w].got = <<>>
  BY <1>1, <1>2, <1>3 DEF HasFirst, Serves, Unproxied
<1>8. Delivered(w)'
  BY <1>1, <1>2, <1>5, <1>6, <1>7 DEF Delivered
<1> QED
  BY <1>2, <1>8 DEF Delivered, OthersIdle, FirstPorts, Serves, HasFirst, Unproxied, Had, Got, Buffered, Coming, In, Ahead, Src, Up

LEMMA PristineWorkerPasses ==
  ASSUME TypeOK, ChunkInv, Pristine, passes = 0, NEW w \in Workers, NEW t \in Sides, NEW argument \in BOOLEAN,
         WorkerPasses(w, t, argument)
  PROVE  Underway(first)' \/ AsArgument'
<1> DEFINE r == MsgOf("ref", IF argument THEN 1 ELSE 0, t)
<1>1. /\ real.sent = 0 /\ (\A s \in Sides : Unproxied(s) /\ entry[s] = NoEntry)
      /\ (\A v \in Workers : toHost[v] = <<>> /\ toWorker[v] = <<>>)
      /\ lapse = "none" /\ queued = {} /\ subs = {} /\ first = Host /\ ~proxy[Host].used
  BY HostReads DEF Pristine
<1>2. /\ w \in Sides /\ Host \in Sides /\ w # Host /\ owner = w /\ t # w /\ (argument => t # Host)
      /\ UNCHANGED <<owner, proxy, queued, toWorker, subs, lapse>>
      /\ first' = IF argument THEN Host ELSE t
      /\ entry' = [entry EXCEPT ![w] = Opened("local")] /\ real' = [real EXCEPT !.flowing = TRUE]
      /\ toHost' = [toHost EXCEPT ![w] = @ \o <<r>>]
  <2>1. w \in Sides /\ Host \in Sides /\ w # Host
    BY HostAssumption DEF Sides
  <2>2. /\ Pass(w) /\ t # w /\ (argument => t # Host)
        /\ first' = IF passes = 0 /\ ~argument THEN t ELSE first
        /\ WorkerPosts(w, <<r>>) /\ UNCHANGED <<routes, toWorker>>
    BY DEF WorkerPasses
  <2> HIDE DEF r
  <2>5. first' = IF argument THEN Host ELSE t
    BY <1>1, <2>2, Zenon
  <2>6. /\ Holds(w) /\ TryRegisterLocal(w) /\ UNCHANGED <<owner, proxy, queued, toWorker, subs, lapse>>
        /\ toHost' = [toHost EXCEPT ![w] = @ \o <<r>>]
    BY <2>2 DEF Pass, WorkerPosts, routes
  <2>3. ~Tracks(w) /\ entry[w].kind # "proxy"
    BY <1>1, <2>1 DEF Tracks, NoEntry
  <2>4. owner = w
    BY <2>3, <2>6 DEF Holds
  <2>7. entry' = [entry EXCEPT ![w] = Opened("local")] /\ real' = [real EXCEPT !.flowing = TRUE]
    BY <2>3, <2>6 DEF TryRegisterLocal
  <2> QED
    BY <2>1, <2>2, <2>4, <2>5, <2>6, <2>7
<1>3. r.kind = "ref" /\ r.side = t /\ (~argument => r.n = 0)
  BY DEF MsgOf
<1> HIDE DEF r
<1>4. \A v \in Workers : toHost'[v] = IF v = w THEN <<r>> ELSE <<>>
  <2>1. <<>> \o <<r>> = <<r>>
    OBVIOUS
  <2> QED
    BY <1>1, <1>2, <2>1 DEF ChunkInv, PortsOK
<1>5. RefFirst(<<r>>) /\ Head(<<r>>) = r /\ Lacks(<<r>>, {"close"} \cup Writing) /\ Lacks(<<>>, {"ref"}) /\ <<r>> # <<>>
  BY <1>3 DEF RefFirst, Lacks, Writing
<1>6. (\A s \in Sides : Unproxied(s)') /\ real'.sent = 0
  BY <1>1, <1>2 DEF TypeOK, Opened, Unproxied, Reals
<1>7. CASE argument
  <2>1. proxy[Host].got = <<>>
    BY <1>1, <1>2 DEF Unproxied
  <2>2. first' = Host /\ t # Host /\ ~proxy'[Host].used
    BY <1>1, <1>2, <1>7
  <2>3. \A v \in Workers \ {owner'} : Lacks(toHost'[v], {"ref"})
    BY <1>2, <1>4, <1>5
  <2>4. RefFirst(toHost'[owner']) /\ Head(toHost'[owner']).side # Host
    BY <1>2, <1>3, <1>4, <1>5, <2>2
  <2> QED
    BY <1>2, <2>1, <2>2, <2>3, <2>4 DEF AsArgument
<1>8. CASE ~argument
  <2>1. HasFirst(t)'
    BY <1>6 DEF HasFirst
  <2>2. Underway(t)'
    BY <1>1, <1>2, <1>3, <1>4, <1>5, <1>6, <1>8, <2>1 DEF Underway
  <2> QED
    BY <1>2, <1>8, <2>2 DEF Underway, HasFirst, Had, Got, Buffered, Coming, In, Ahead, Src, Unproxied
<1> QED
  BY <1>7, <1>8


LEMMA PristineNext ==
  ASSUME TypeOK, ChunkInv, Pristine, passes = 0, [Next]_vars
  PROVE  (passes' = 0 /\ Pristine') \/ (passes' = 1 /\ (Underway(first) \/ Delivered(first) \/ AsArgument)')
<1>1. \A w \in Workers : toWorker[w] = <<>> /\ toHost[w] = <<>>
  BY DEF Pristine
<1>2. \A s \in Sides : proxy[s].state = "none"
  BY DEF Pristine, Unproxied
<1>3. CASE \E w \in Workers : WorkerHandles(w) \/ HostHandles(w) \/ WorkerGetsRef(w) \/ HostGetsRef(w) \/ MailboxStarts(w)
  BY <1>1, <1>3 DEF WorkerHandles, HostHandles, WorkerGetsRef, HostGetsRef, MailboxStarts, Pristine
<1>4. CASE RealEmits \/ RealFails \/ RealDestroyed \/ WriteDone
  BY <1>4 DEF RealEmits, RealFails, RealDestroyed, WriteDone, Pristine
<1>5. CASE \E s \in Sides : Read(s) \/ SeesEnd(s) \/ Pause(s) \/ Resume(s) \/ Write(s) \/ Stop(s)
  BY <1>2, <1>5 DEF Read, SeesEnd, Pause, Resume, Write, Stop, Reads, Use, Open
<1>6. CASE (\E w \in Workers : Crash(w)) \/ UNCHANGED vars
  <2>1. UNCHANGED <<owner, entry, routes, toHost, toWorker, streamVars, passVars>>
    BY <1>6 DEF Crash, vars, linkVars
  <2> QED
    BY <2>1 DEF Pristine, Unproxied, routes, streamVars, passVars
<1>7. CASE \E w \in Workers : HostPasses(w)
  <2>1. passes' = 1
    BY <1>7 DEF HostPasses, Pass
  <2> QED
    BY <1>7, <2>1, PristineHostPasses
<1>8. CASE \E w \in Workers, t \in Sides, argument \in BOOLEAN : WorkerPasses(w, t, argument)
  <2>1. passes' = 1
    BY <1>8 DEF WorkerPasses, Pass
  <2> QED
    BY <1>8, <2>1, PristineWorkerPasses
<1> QED
  BY <1>3, <1>4, <1>5, <1>6, <1>7, <1>8 DEF Next

\* no write comes to a host that owns the stream and does not know it
LEMMA HostStays ==
  ASSUME TypeOK, ChunkInv, OnePassInv, passes <= 1, [Next]_vars
  PROVE  Up(Host)'
<1>1. Up(Host) /\ passes \in {0, 1}
  BY StreamAssumption DEF OnePassInv, TypeOK
<1>2. CASE \E w \in Workers : WorkerHandles(w)
  BY <1>1, <1>2, WorkerHandlesSteps
<1>3. CASE \E w \in Workers : HostHandles(w)
  <2>1. PICK w \in Workers : HostHandles(w)
    BY <1>3
  <2> DEFINE m == Head(toHost[w])
  <2>2. /\ toHost[w] # <<>> /\ toHost[w] \in Seq(Messages(mode))
        /\ (m.kind \in Writing /\ owner = Host => IsOwner(Host)) => Up(Host)'
    BY <2>1, HostHandlesSteps DEF ChunkInv, PortsOK
  <2> SUFFICES ASSUME m.kind \in Writing, owner = Host PROVE IsOwner(Host)
    BY <2>2
  <2>3. ~Lacks(toHost[w], Writing)
    BY <2>2, TailIs DEF Lacks
  <2>4. Delivered(first)
    BY <1>1, <2>2 DEF OnePassInv, Pristine, Underway, AsArgument
  <2>5. w = first
    <3>1. ~Lacks(toHost[w], {"ref", "close"} \cup Writing)
      BY <2>3 DEF Lacks
    <3> QED
      BY <2>4, <3>1 DEF Delivered, OthersIdle
  <2> QED
    BY <2>3, <2>4, <2>5 DEF Delivered, Serves, IsOwner
<1>4. CASE \E w \in Workers : Crash(w)
  BY <1>1, <1>4, HostAssumption DEF Crash, Up
<1>5. CASE UNCHANGED down
  BY <1>1, <1>5 DEF Up
<1>6. CASE RealEmits \/ RealFails \/ RealDestroyed \/ WriteDone
  BY <1>5, <1>6 DEF RealEmits, RealFails, RealDestroyed, WriteDone, RealStep
<1>7. CASE \E s \in Sides : Read(s) \/ SeesEnd(s) \/ Pause(s) \/ Resume(s) \/ Write(s) \/ Stop(s)
  BY <1>5, <1>7 DEF Read, SeesEnd, Pause, Resume, Write, Stop, Reads, Use
<1>8. CASE \E w \in Workers : HostPasses(w) \/ WorkerGetsRef(w) \/ HostGetsRef(w) \/ MailboxStarts(w)
                              \/ \E t \in Sides, argument \in BOOLEAN : WorkerPasses(w, t, argument)
  BY <1>5, <1>8 DEF HostPasses, WorkerPasses, Pass, WorkerGetsRef, HostGetsRef, MailboxStarts
<1>9. CASE UNCHANGED vars
  BY <1>5, <1>9 DEF vars, linkVars
<1> QED
  BY <1>2, <1>3, <1>4, <1>6, <1>7, <1>8, <1>9 DEF Next

\* the reference is passed one time more, or as often as before
LEMMA PassesOn ==
  ASSUME TypeOK, [Next]_vars
  PROVE  (passes' = passes + 1) \/ (passes' = passes /\ first' = first)
<1>1. CASE UNCHANGED vars
  BY <1>1 DEF vars, passVars
<1>2. CASE \E w \in Workers : WorkerHandles(w) \/ HostHandles(w) \/ WorkerGetsRef(w) \/ HostGetsRef(w)
                              \/ MailboxStarts(w) \/ Crash(w)
  BY <1>2 DEF WorkerHandles, HostHandles, WorkerGetsRef, HostGetsRef, MailboxStarts, Crash, passVars
<1>3. CASE \E w \in Workers : HostPasses(w) \/ \E t \in Sides, argument \in BOOLEAN : WorkerPasses(w, t, argument)
  BY <1>3 DEF HostPasses, WorkerPasses, Pass
<1>4. CASE RealEmits \/ RealFails \/ RealDestroyed \/ WriteDone
  BY <1>4 DEF RealEmits, RealFails, RealDestroyed, WriteDone, RealStep, passVars
<1>5. CASE \E s \in Sides : Read(s) \/ SeesEnd(s) \/ Pause(s) \/ Resume(s) \/ Write(s) \/ Stop(s)
  BY <1>5 DEF Read, SeesEnd, Pause, Resume, Write, Stop, Reads, Use, passVars
<1> QED
  BY <1>1, <1>2, <1>3, <1>4, <1>5 DEF Next

LEMMA NextOnePass ==
  ASSUME TypeOK, ChunkInv, OnePassInv, PortsOK', FirstGot', [Next]_vars
  PROVE  OnePassInv'
<1>1. passes \in Nat /\ first \in Sides
  BY StreamAssumption DEF TypeOK
<1>2. CASE passes > 1
  <2>1. ~(passes' <= 1)
    BY <1>1, <1>2, PassesOn
  <2> QED
    BY <2>1 DEF OnePassInv
<1>3. CASE passes = 0
  <2>1. Pristine /\ Up(Host)'
    BY <1>3, HostStays DEF OnePassInv
  <2> QED
    BY <1>3, <2>1, PristineNext DEF OnePassInv
<1>4. CASE passes = 1 /\ passes' = passes
  <2>1. first' = first /\ Up(Host)'
    BY <1>1, <1>4, HostStays, PassesOn
  <2>2. Underway(first) \/ Delivered(first) \/ AsArgument
    BY <1>4 DEF OnePassInv
  <2>3. CASE AsArgument
    BY <1>4, <2>1, <2>3, ArgumentNext DEF OnePassInv
  <2>4. CASE Underway(first) \/ Delivered(first)
    <3>1. PICK f \in Sides : f = first
      BY <1>1
    <3>2. Underway(f)' \/ Delivered(f)'
      BY <1>4, <2>4, <3>1, UnderwayNext, DeliveredNext
    <3>3. (Underway(f) <=> Underway(first))' /\ (Delivered(f) <=> Delivered(first))'
      BY <2>1, <3>1 DEF Underway, Delivered, OthersIdle, FirstPorts, Serves, HasFirst, Unproxied, Had, Got, Buffered, Coming, In
    <3> QED
      BY <1>4, <2>1, <3>2, <3>3 DEF OnePassInv
  <2> QED
    BY <2>2, <2>3, <2>4
<1>5. CASE passes = 1 /\ passes' # passes
  BY <1>5, PassesOn DEF OnePassInv
<1> QED
  BY <1>1, <1>2, <1>3, <1>4, <1>5

LEMMA InitOnePass == Init => OnePassInv
<1> SUFFICES ASSUME Init PROVE OnePassInv
  OBVIOUS
<1>1. /\ \A s \in Sides : entry[s] = NoEntry /\ proxy[s] = [NewProxy EXCEPT !.state = "none"]
      /\ subs = {} /\ lapse = "none" /\ queued = {} /\ first = Host /\ passes = 0 /\ down = {}
      /\ real = [state |-> "open", sent |-> 0, flowing |-> FALSE, due |-> <<>>, written |-> <<>>]
      /\ \A w \in Workers : toHost[w] = <<>> /\ toWorker[w] = <<>>
  BY DEF Init, LinksInit
<1>2. \A s \in Sides : Unproxied(s) /\ ~proxy[s].used /\ entry[s] = NoEntry
  BY <1>1 DEF Unproxied, NewProxy, NoEntry
<1> QED
  BY <1>1, <1>2 DEF OnePassInv, Pristine, Up

-----------------------------------------------------------------------------
(* What the first side has got when it sees the end.                        *)

EndHasAll ==
  passes = 1 /\ mode = "readable" /\ proxy[first].saw = "end" => 1..real.sent \subseteq Got(first)

\* a program comes to the end by reading everything that was buffered
EndStep(s) ==
  mode = "readable" /\ proxy'[s].saw = "end" =>
    /\ proxy'[s].got = proxy[s].got
    /\ proxy[s].saw = "end" \/ (Use(s) /\ proxy[s].eof /\ proxy[s].buffer = <<>>)

\* no message makes a reading program see the end
LEMMA HandleSaw ==
  ASSUME TypeOK, mode = "readable", NEW s \in Sides, NEW m \in Messages(mode), Handle(s, m), NEW t \in Sides
  PROVE  proxy'[t].saw = "end" => proxy[t].saw = "end"
<1>1. entry[s] \in Entries /\ proxy[s] \in Proxies
  BY ProxyIs DEF TypeOK
<1>2. \A why \in {"error", "cut"} : Destroyed(s, why).saw = "end" => proxy[s].saw = "end"
  BY <1>1 DEF Destroyed, Proxies
<1>3. CASE OnClose(s)
  BY <1>1, <1>2, <1>3 DEF OnClose, TypeOK
<1>4. CASE OnRemoteError(s)
  BY <1>1, <1>2, <1>4 DEF OnRemoteError, TypeOK
<1>5. CASE OnRemoteData(s, m.n)
  BY <1>1, <1>5 DEF OnRemoteData, TypeOK, Proxies
<1>6. CASE OnRemoteEnd(s)
  BY <1>1, <1>6 DEF OnRemoteEnd, TypeOK, Proxies
<1>7. CASE proxy' = proxy
  BY <1>7
<1>8. m.kind \notin {"write_result", "write_error"}
  BY DEF Messages, WriteKinds
<1> QED
  BY <1>3, <1>4, <1>5, <1>6, <1>7, <1>8 DEF Handle, OnFlow, OnWrite

LEMMA EndSteps ==
  ASSUME TypeOK, ChunkInv, [Next]_vars, NEW s \in Sides
  PROVE  EndStep(s)
<1> SUFFICES ASSUME mode = "readable", proxy'[s].saw = "end"
             PROVE  /\ proxy'[s].got = proxy[s].got
                    /\ proxy[s].saw = "end" \/ (Use(s) /\ proxy[s].eof /\ proxy[s].buffer = <<>>)
  BY DEF EndStep
<1>1. CASE proxy' = proxy
  BY <1>1
<1>2. ASSUME NEW t \in Sides, NEW m \in Messages(mode), Handle(t, m)
      PROVE  proxy'[s].got = proxy[s].got /\ proxy[s].saw = "end"
  BY <1>2, HandleSaw, HandleEntry
<1>3. CASE \E w \in Workers : WorkerHandles(w)
  <2>1. PICK w \in Workers : WorkerHandles(w)
    BY <1>3
  <2>2. toWorker[w] # <<>> /\ toWorker[w] \in Seq(Messages(mode)) /\ w \in Sides
    BY <2>1 DEF WorkerHandles, ChunkInv, PortsOK, Sides
  <2>3. Head(toWorker[w]) \in Messages(mode) /\ Handle(w, Head(toWorker[w]))
    BY <2>1, <2>2 DEF WorkerHandles
  <2> QED
    BY <1>2, <2>2, <2>3
<1>4. CASE \E w \in Workers : HostHandles(w)
  <2>1. PICK w \in Workers : HostHandles(w)
    BY <1>4
  <2>2. toHost[w] # <<>> /\ toHost[w] \in Seq(Messages(mode)) /\ Host \in Sides
    BY <2>1 DEF HostHandles, ChunkInv, PortsOK, Sides
  <2>3. Head(toHost[w]) \in Messages(mode) /\ (Handle(Host, Head(toHost[w])) \/ proxy' = proxy)
    BY <2>1, <2>2 DEF HostHandles, streamVars
  <2> QED
    BY <1>1, <1>2, <2>2, <2>3
<1>5. CASE \E w \in Workers : WorkerGetsRef(w) \/ HostGetsRef(w)
  <2>1. PICK t \in Sides, used \in BOOLEAN : CreateProxy(t, used)
    BY <1>5 DEF WorkerGetsRef, HostGetsRef, Sides
  <2>2. proxy \in [Sides -> Proxies]
    BY DEF TypeOK
  <2>3. CASE entry[t].kind = "proxy"
    <3>1. proxy' = [proxy EXCEPT ![t].used = @ \/ used]
      BY <2>1, <2>3 DEF CreateProxy
    <3>2. proxy'[s].saw = proxy[s].saw /\ proxy'[s].got = proxy[s].got
      BY <2>2, <3>1 DEF Proxies
    <3> QED
      BY <3>2
  <2>4. CASE entry[t].kind # "proxy"
    <3>1. proxy' = [proxy EXCEPT ![t] = [NewProxy EXCEPT !.used = used]]
      BY <2>1, <2>4 DEF CreateProxy
    <3>2. CASE s = t
      BY <2>2, <3>1, <3>2 DEF NewProxy
    <3>3. CASE s # t
      BY <2>2, <3>1, <3>3
    <3> QED
      BY <3>2, <3>3
  <2> QED
    BY <2>3, <2>4
<1>6. CASE \E t \in Sides : Read(t) \/ SeesEnd(t) \/ Pause(t) \/ Resume(t) \/ Write(t) \/ Stop(t)
  <2>1. PICK t \in Sides : Uses(t)
    BY <1>6, UsesIs
  <2>2. CASE s # t
    BY <2>1, <2>2 DEF Uses
  <2>3. CASE s = t
    <3>1. Open(s) /\ Use(s) /\ Lasts(s) /\ proxy[s].saw = "nothing"
      BY <2>1, <2>3 DEF Uses, Use, ChunkInv, SideOK, ProxyOK
    <3> QED
      BY <3>1 DEF Lasts, Same, Gone, Takes
  <2> QED
    BY <2>2, <2>3
<1>7. CASE \E w \in Workers : \/ HostPasses(w) \/ MailboxStarts(w) \/ Crash(w)
                             \/ \E t \in Sides, argument \in BOOLEAN : WorkerPasses(w, t, argument)
  BY <1>1, <1>7 DEF HostPasses, WorkerPasses, Pass, MailboxStarts, Crash, streamVars
<1>8. CASE RealEmits \/ RealFails \/ RealDestroyed \/ WriteDone \/ UNCHANGED vars
  BY <1>1, <1>8 DEF RealEmits, RealFails, RealDestroyed, WriteDone, RealStep, vars, streamVars
<1> QED
  BY <1>3, <1>4, <1>5, <1>6, <1>7, <1>8 DEF Next

\* chunks are emitted by an open stream, and by nothing else
LEMMA SentSteps ==
  ASSUME TypeOK, [Next]_vars
  PROVE  \/ real'.sent = real.sent
         \/ real.state = "open" /\ UNCHANGED <<proxy, passes, first>>
<1> real \in Reals
  BY DEF TypeOK
<1>1. ASSUME NEW s \in Sides, NEW m, Handle(s, m) PROVE real'.sent = real.sent
  BY <1>1 DEF Handle, OnRemoteData, OnRemoteEnd, OnRemoteError, OnFlow, OnWrite, OnWriteResult, OnClose, Reals
<1>2. CASE \E w \in Workers : WorkerHandles(w) \/ HostHandles(w)
  BY <1>1, <1>2 DEF WorkerHandles, HostHandles, streamVars, Sides
<1>3. CASE \E w \in Workers : HostPasses(w) \/ \E t \in Sides, argument \in BOOLEAN : WorkerPasses(w, t, argument)
  BY <1>3 DEF HostPasses, WorkerPasses, Pass, TryRegisterLocal, Reals
<1>4. CASE \E w \in Workers : WorkerGetsRef(w) \/ HostGetsRef(w) \/ MailboxStarts(w) \/ Crash(w)
  BY <1>4 DEF WorkerGetsRef, HostGetsRef, MailboxStarts, Crash, streamVars
<1>5. CASE RealEmits
  BY <1>5 DEF RealEmits, RealStep, passVars
<1>6. CASE RealFails \/ RealDestroyed \/ WriteDone
  BY <1>6 DEF RealFails, RealDestroyed, WriteDone, Reals
<1>7. CASE \E s \in Sides : Read(s) \/ SeesEnd(s) \/ Pause(s) \/ Resume(s) \/ Write(s) \/ Stop(s)
  BY <1>7 DEF Read, SeesEnd, Pause, Resume, Write, Stop, Reads, Use
<1>8. CASE UNCHANGED vars
  BY <1>8 DEF vars, streamVars
<1> QED
  BY <1>2, <1>3, <1>4, <1>5, <1>6, <1>7, <1>8 DEF Next

\* what was delivered to a program that used up its buffer at the end
LEMMA AllRead ==
  ASSUME TypeOK, ChunkInv, OnePassInv, passes = 1, Use(first), proxy[first].eof, proxy[first].buffer = <<>>
  PROVE  1..real.sent \subseteq Got(first)
<1>1. first \in Sides /\ Open(first) /\ proxy[first].used /\ SideOK(first)
  BY DEF Use, TypeOK, ChunkInv
<1>2. Delivered(first)
  BY <1>1 DEF OnePassInv, Underway, Unproxied, AsArgument, Open
<1>3. lapse = "none" /\ HasFirst(first)
  BY <1>1, <1>2 DEF Delivered, Open
<1>4. Coming(first) = {} /\ Ahead = {} /\ Buffered(first) = {}
  BY <1>1, RangeIs DEF SideOK, OrderOK, Told, Buffered, Range
<1>5. Had(first) = Got(first) /\ real.sent \in Nat
  BY <1>1, <1>4, ChunksAre DEF Had
<1>6. CASE real.sent = 0
  BY <1>6
<1>7. CASE 1 \in Got(first)
  <2>1. GaplessOK(first)
    BY <1>1, <1>3 DEF SideOK
  <2>2. real.sent \in Got(first)
    BY <1>1, <1>4, <1>5, <1>7, <2>1 DEF GaplessOK, Told
  <2> QED
    BY <1>5, <1>7, <2>1, <2>2 DEF GaplessOK, Gapless
<1> QED
  BY <1>3, <1>4, <1>5, <1>6, <1>7 DEF HasFirst

LEMMA ModeStays ==
  ASSUME TypeOK, [Next]_vars
  PROVE  mode' = mode
BY DEF Next, vars, WorkerHandles, HostHandles, HostPasses, WorkerPasses, Pass, WorkerGetsRef, HostGetsRef,
       MailboxStarts, Crash, RealEmits, RealFails, RealDestroyed, WriteDone, RealStep,
       Read, SeesEnd, Pause, Resume, Write, Stop, Reads, Use

LEMMA NextEndHasAll ==
  ASSUME TypeOK, ChunkInv, OnePassInv, EndHasAll, [Next]_vars, mode' = mode
  PROVE  EndHasAll'
<1> SUFFICES ASSUME passes' = 1, mode = "readable", proxy'[first'].saw = "end"
             PROVE  1..real'.sent \subseteq Got(first)'
  BY DEF EndHasAll
<1>1. CASE passes' = passes + 1
  <2>1. passes = 0 /\ real.sent = 0
    BY <1>1 DEF TypeOK, OnePassInv, Pristine
  <2> QED
    BY <1>1, <2>1, SentSteps
<1>2. CASE passes' = passes /\ first' = first
  <2>1. EndStep(first) /\ first \in Sides
    BY EndSteps DEF TypeOK
  <2>2. Got(first)' = Got(first)
    BY <1>2, <2>1 DEF EndStep, Got
  <2>3. 1..real.sent \subseteq Got(first)
    BY <1>2, <2>1, AllRead DEF EndStep, EndHasAll
  <2>4. real'.sent = real.sent
    <3>1. proxy' = proxy => real.state = "ended"
      BY <1>2, <2>1 DEF ChunkInv, SideOK, OrderOK
    <3> QED
      BY <3>1, SentSteps
  <2> QED
    BY <2>2, <2>3, <2>4
<1> QED
  BY <1>1, <1>2, PassesOn

\* what a side that got the reference first begins with
LEMMA FirstIsRead ==
  ASSUME TypeOK, ChunkInv, OnePassInv, EndHasAll
  PROVE  FirstMissesNothing /\ HostSurvivesUnshared
<1>1. HostSurvivesUnshared
  BY DEF OnePassInv, HostSurvivesUnshared
<1>2. ASSUME passes = 1, proxy[first].got # <<>> PROVE proxy[first].got[1] = 1
  <2>1. first \in Sides
    BY DEF TypeOK
  <2>2. Delivered(first)
    BY <1>2, <2>1 DEF OnePassInv, Underway, Unproxied, AsArgument
  <2>3. proxy[first].got \in Seq(Nat) /\ proxy[first].got \in Seq(1..Chunks) /\ Ascending(proxy[first].got)
    BY <2>1, ChunksAre DEF ChunkInv, SideOK, ProxyOK
  <2>4. 1 \in Got(first)
    BY <1>2, <2>2 DEF Delivered
  <2>5. PICK i \in DOMAIN proxy[first].got : proxy[first].got[i] = 1
    BY <2>3, <2>4, RangeIs DEF Got
  <2>6. 1 \in DOMAIN proxy[first].got /\ proxy[first].got[1] \in Nat \ {0} /\ i \in Nat /\ i >= 1
    <3> DEFINE q == proxy[first].got
    <3>1. q \in Seq(1..Chunks) /\ q # <<>> /\ i \in DOMAIN q
      BY <1>2, <2>3, <2>5
    <3> HIDE DEF q
    <3>2. DOMAIN q = 1..Len(q) /\ Len(q) \in Nat /\ Len(q) # 0
      BY <3>1
    <3>3. 1 \in DOMAIN q /\ i \in Nat /\ i >= 1
      BY <3>1, <3>2
    <3>4. q[1] \in 1..Chunks
      <4>1. q[1] \in Range(q) /\ Range(q) \subseteq 1..Chunks
        BY <3>1, <3>3, RangeIs
      <4> QED
        BY <4>1
    <3> QED
      BY <3>3, <3>4 DEF q
  <2> QED
    BY <2>3, <2>5, <2>6 DEF Ascending
<1>3. ASSUME passes = 1, mode = "readable", proxy[first].saw = "end", real.sent > 0
      PROVE  proxy[first].got # <<>>
  <2>1. first \in Sides /\ real.sent \in Nat
    BY ChunksAre DEF TypeOK
  <2>2. 1 \in Got(first)
    BY <1>3, <2>1 DEF EndHasAll
  <2>3. Range(<<>>) = {}
    BY RangeIs DEF Range
  <2> QED
    BY <2>2, <2>3 DEF Got
<1> QED
  BY <1>1, <1>2, <1>3 DEF FirstMissesNothing

\* ... and has when it is done
LEMMA AllAreRead ==
  ASSUME TypeOK, ChunkInv, EndHasAll
  PROVE  EndMeansAll
<1>1. EndAfterLast
  BY ChunkInvOrders
<1>2. ASSUME mode = "readable", proxy[first].saw = "end", passes = 1, NEW n \in 1..real.sent
      PROVE  \E i \in DOMAIN proxy[first].got : proxy[first].got[i] = n
  <2>1. first \in Sides /\ proxy[first].got \in Seq(Nat)
    BY ChunksAre DEF TypeOK
  <2>2. n \in Range(proxy[first].got)
    BY <1>2 DEF EndHasAll, Got
  <2> QED
    BY <2>1, <2>2, RangeIs
<1> QED
  BY <1>1, <1>2 DEF EndMeansAll, EndAfterLast

LEMMA OnePassInvHolds == Spec => [](TypeOK /\ ChunkInv /\ OnePassInv /\ EndHasAll)
<1>1. Init => OnePassInv
  BY InitOnePass
<1>2. TypeOK /\ ChunkInv => FirstGot
  BY GotFirst
<1>3. ChunkInv => PortsOK
  BY DEF ChunkInv
<1>4. TypeOK /\ ChunkInv /\ OnePassInv /\ PortsOK' /\ FirstGot' /\ [Next]_vars => OnePassInv'
  BY NextOnePass
<1>5. Init => EndHasAll
  BY DEF Init, EndHasAll
<1>6. [Next]_vars /\ TypeOK => mode' = mode
  BY ModeStays
<1>7. TypeOK /\ ChunkInv /\ OnePassInv /\ EndHasAll /\ mode' = mode /\ [Next]_vars => EndHasAll'
  BY NextEndHasAll
<1> QED
  BY <1>1, <1>2, <1>3, <1>4, <1>5, <1>6, <1>7, ChunkInvHolds, PTL DEF Spec

\* The first side that the owner gives its stream to, as an argument or result, is
\* subscribed before a chunk can pass the StreamRouter: what its program reads
\* begins with the first chunk, however long the reference is on its way, and it
\* does not come to the end without it.
THEOREM FirstMissesNothingHolds == Spec => []FirstMissesNothing
<1>1. TypeOK /\ ChunkInv /\ OnePassInv /\ EndHasAll => FirstMissesNothing
  BY FirstIsRead
<1> QED
  BY <1>1, OnePassInvHolds, PTL

\* While the one side that has the reference keeps it, no write comes to a host
\* whose StreamBridge does not know the stream: write() of a stream that is not a
\* local one would throw in the message handler and end the process.
THEOREM HostSurvivesUnsharedHolds == Spec => []HostSurvivesUnshared
<1>1. TypeOK /\ ChunkInv /\ OnePassInv /\ EndHasAll => HostSurvivesUnshared
  BY FirstIsRead
<1> QED
  BY <1>1, OnePassInvHolds, PTL

\* The first program that is given the stream has got all of its chunks when its
\* proxy ends (push(null)), and any other that got one has got the last, unless the
\* stream was passed on after a close had made the StreamRouter forget its consumers.
THEOREM EndMeansAllHolds == Spec => []EndMeansAll
<1>1. TypeOK /\ ChunkInv /\ OnePassInv /\ EndHasAll => EndMeansAll
  BY AllAreRead
<1> QED
  BY <1>1, OnePassInvHolds, PTL

=============================================================================
