---------------------------- MODULE StreamsProofs ----------------------------
(***************************************************************************)
(* Proofs about Streams for any workers, owner, number of chunks, of passes *)
(* and of upsets, and any high-water mark.                                  *)
(*                                                                          *)
(* The argument: chunks travel from the real stream through the port of its *)
(* owner (Src) and the port of each side (In) to the buffer of its proxy.   *)
(* They are in order in each of these and from one to the next, and         *)
(* what a side that the router knows has still to get, up to the last chunk *)
(* that was emitted, is on its way without a gap (SideOK).  And the result  *)
(* of a write is on its way only after the write was done (AckInv).         *)
(***************************************************************************)
EXTENDS Streams, SequenceTheorems, FiniteSetTheorems, TLAPS

Kinds == {"ref", "data", "end", "error", "pause", "resume", "close"}
WriteKinds == {"write", "write_end", "write_result", "write_error"}

\* a readable stream is not written to
Messages(md) ==
  {m \in [kind : Kinds \cup WriteKinds, n : Nat, side : Sides] :
     /\ m.kind = "data" => m.n \in 1..Chunks
     /\ m.kind \in WriteKinds => m.n \in 1..Writes + 1 /\ md = "writable"}

PortsOK ==
  /\ toHost \in [Workers -> Seq(Messages(mode))]
  /\ toWorker \in [Workers -> Seq(Messages(mode))]
  /\ mode = "readable" => real.due = <<>> /\ \A s \in Sides : proxy[s].pending = 0

\* the chunks in a port, and whether the end is in it
DataIn(port) == {port[i].n : i \in {j \in DOMAIN port : port[j].kind = "data"}}
EndIn(port) == \E i \in DOMAIN port : port[i].kind = "end"

\* in order, and nothing after the end
Ordered(port) ==
  \A i, j \in DOMAIN port : i < j /\ port[j].kind = "data" =>
    /\ port[i].kind # "end"
    /\ port[i].kind = "data" => port[i].n < port[j].n

Ascending(s) == \A i, j \in DOMAIN s : i < j => s[i] < s[j]
Behind(A, B) == \A a \in A, b \in B : a < b
Gapless(A) == \A a, b \in A : a..b \subseteq A

\* the port on which the owner's chunks come to the host, and that of a side
Src == IF owner = Host THEN <<>> ELSE toHost[owner]
In(s) == IF s = Host THEN <<>> ELSE toWorker[s]

\* the chunks that the host has still to pass on, and those on their way to s
Ahead == DataIn(Src)
Coming(s) == DataIn(In(s))
EndAhead == EndIn(Src)
EndComing(s) == EndIn(In(s))
SrcOrdered == Ordered(Src)
InOrdered(s) == Ordered(In(s))

Got(s) == Range(proxy[s].got)
Buffered(s) == Range(proxy[s].buffer)
Had(s) == Got(s) \cup Buffered(s)

SourceOK ==
  /\ \A w \in Workers \ {owner} : DataIn(toHost[w]) = {} /\ ~EndIn(toHost[w])
  /\ SrcOrdered
  /\ \A n \in Ahead : n..real.sent \subseteq Ahead
  /\ Ahead \subseteq 1..real.sent
  /\ EndAhead => real.state = "ended"
  /\ owner = Host => Had(Host) = {}

\* an open proxy is tracked, and only an open proxy gets chunks
ProxyOK(s) ==
  /\ Open(s) => entry[s] = Opened("proxy") /\ proxy[s].saw = "nothing"
  /\ ~Open(s) => proxy[s].buffer = <<>>
  /\ Ascending(proxy[s].got) /\ Ascending(proxy[s].buffer)
  /\ Behind(Got(s), Buffered(s))

\* side s was or will be told of the end
Told(s) == EndComing(s) \/ proxy[s].eof

OrderOK(s) ==
  /\ InOrdered(s)
  /\ Coming(s) \subseteq 1..real.sent /\ Had(s) \subseteq 1..real.sent
  /\ Behind(Coming(s), Ahead) /\ Behind(Had(s), Ahead) /\ Behind(Had(s), Coming(s))
  /\ proxy[s].eof => Coming(s) = {}
  /\ Told(s) => real.state = "ended" /\ Ahead = {}
  /\ mode = "readable" /\ proxy[s].saw = "end" => real.state = "ended"

\* all chunks from those in A on are in A or in B
Onward(A, B) == \A a \in A : a..real.sent \subseteq A \cup B

GaplessOK(s) ==
  /\ Gapless(Coming(s)) /\ Gapless(Had(s))
  /\ Open(s) => Gapless(Had(s) \cup Coming(s))
  /\ s \in subs =>
       /\ Onward(Coming(s), Ahead)
       /\ Open(s) => Onward(Had(s), Coming(s) \cup Ahead)
  /\ lapse = "none" /\ s \notin subs => Coming(s) = {} /\ Had(s) = {}
  /\ lapse = "forgotten" => subs = {}
  /\ Told(s) =>
       /\ Coming(s) # {} => real.sent \in Coming(s)
       /\ Open(s) /\ Had(s) # {} => real.sent \in Had(s) \cup Coming(s)
  /\ mode = "readable" /\ proxy[s].saw = "end" /\ proxy[s].got # <<>> =>
       Last(proxy[s].got) = real.sent

SideOK(s) == ProxyOK(s) /\ OrderOK(s) /\ (lapse # "renewed" => GaplessOK(s))

ChunkInv ==
  /\ PortsOK
  /\ SourceOK
  /\ \A s \in Sides : SideOK(s)

-----------------------------------------------------------------------------
(* Types.                                                                   *)

LEMMA MessageIs ==
  ASSUME NEW kind \in Kinds \ {"data"}, NEW n \in Nat, NEW side \in Sides
  PROVE  \A md : MsgOf(kind, n, side) \in Messages(md) /\ Signal(kind) \in Messages(md)
BY DEF MsgOf, Signal, Msg, Messages, Kinds, WriteKinds, Sides

LEMMA SignalsAre ==
  ASSUME NEW kind \in Kinds \ {"data"}
  PROVE  \A md : <<Signal(kind)>> \in Seq(Messages(md))
BY DEF Signal, Msg, Messages, Kinds, WriteKinds, Sides

\* what ports hold after the host, or a worker, posted
LEMMA HostPostsTyped ==
  ASSUME PortsOK, NEW ws, NEW m \in Messages(mode), NEW ms \in Seq(Messages(mode)),
         HostPosts(ws, m, ms)
  PROVE  toWorker' \in [Workers -> Seq(Messages(mode))]
BY DEF HostPosts, PortsOK

LEMMA WorkerPostsTyped ==
  ASSUME PortsOK, NEW w \in Workers, NEW ms \in Seq(Messages(mode)), WorkerPosts(w, ms)
  PROVE  toHost' \in [Workers -> Seq(Messages(mode))]
BY DEF WorkerPosts, PortsOK

LEMMA ToOwnerTyped ==
  ASSUME PortsOK, NEW s \in Sides, NEW ms \in Seq(Messages(mode)), ToOwner(s, ms)
  PROVE  /\ toHost' \in [Workers -> Seq(Messages(mode))]
         /\ toWorker' \in [Workers -> Seq(Messages(mode))]
<1>1. CASE s = Host
  <2>1. Signal("close") \in Messages(mode)
    BY MessageIs DEF Kinds, Sides
  <2> QED
    BY <1>1, <2>1, HostPostsTyped DEF ToOwner, PortsOK
<1>2. CASE s # Host
  BY <1>2, WorkerPostsTyped DEF ToOwner, PortsOK, Sides
<1> QED
  BY <1>1, <1>2

LEMMA ToConsumersTyped ==
  ASSUME PortsOK, owner \in Sides, NEW m \in Messages(mode), ToConsumers(m)
  PROVE  /\ toHost' \in [Workers -> Seq(Messages(mode))]
         /\ toWorker' \in [Workers -> Seq(Messages(mode))]
<1>1. <<>> \in Seq(Messages(mode)) /\ <<m>> \in Seq(Messages(mode))
  OBVIOUS
<1> QED
  BY <1>1, HostPostsTyped, WorkerPostsTyped DEF ToConsumers, PortsOK, Sides

\* a proxy with some of its fields replaced
LEMMA PendingWith ==
  ASSUME NEW p \in Proxies, NEW n \in 0..Writes + 1
  PROVE  [p EXCEPT !.pending = n] \in Proxies /\ [p EXCEPT !.pending = n, !.begun = n] \in Proxies
<1>1. [p EXCEPT !.pending = n] \in Proxies
  BY DEF Proxies
<1>2. [[p EXCEPT !.pending = n] EXCEPT !.begun = n] \in Proxies
  BY <1>1 DEF Proxies
<1>3. [p EXCEPT !.pending = n, !.begun = n] = [[p EXCEPT !.pending = n] EXCEPT !.begun = n]
  BY DEF Proxies
<1> QED
  BY <1>1, <1>2, <1>3

LEMMA ProxyWith ==
  ASSUME NEW p \in Proxies, NEW b \in Seq(1..Chunks), NEW g \in Seq(1..Chunks),
         NEW x \in BOOLEAN, NEW h \in {"never", "now", "before"},
         NEW y \in {"nothing", "end", "error", "cut", "stopped"}
  PROVE  /\ [p EXCEPT !.used = x] \in Proxies
         /\ [p EXCEPT !.buffer = b, !.reading = x] \in Proxies
         /\ [p EXCEPT !.buffer = b, !.got = g, !.reading = x] \in Proxies
         /\ [p EXCEPT !.eof = TRUE, !.reading = FALSE] \in Proxies
         /\ [p EXCEPT !.held = h] \in Proxies
         /\ [p EXCEPT !.held = h, !.reading = x] \in Proxies
         /\ [p EXCEPT !.state = "gone", !.buffer = <<>>, !.reading = FALSE, !.saw = y] \in Proxies
<1>1. [p EXCEPT !.used = x] \in Proxies
  BY DEF Proxies
<1>2. [p EXCEPT !.buffer = b, !.reading = x] \in Proxies
  BY DEF Proxies
<1>3. [p EXCEPT !.buffer = b, !.got = g, !.reading = x] \in Proxies
  BY DEF Proxies
<1>4. [p EXCEPT !.eof = TRUE, !.reading = FALSE] \in Proxies
  BY DEF Proxies
<1>5. [p EXCEPT !.held = h] \in Proxies
  BY DEF Proxies
<1>7. [p EXCEPT !.held = h, !.reading = x] \in Proxies
  <2>1. [[p EXCEPT !.held = h] EXCEPT !.reading = x] \in Proxies
    BY <1>5 DEF Proxies
  <2>2. [p EXCEPT !.held = h, !.reading = x] = [[p EXCEPT !.held = h] EXCEPT !.reading = x]
    BY DEF Proxies
  <2> QED
    BY <2>1, <2>2
<1>6. [p EXCEPT !.state = "gone", !.buffer = <<>>, !.reading = FALSE, !.saw = y] \in Proxies
  <2>1. <<>> \in Seq(1..Chunks)
    OBVIOUS
  <2>2. [p EXCEPT !.buffer = <<>>, !.reading = FALSE] \in Proxies
    BY <2>1 DEF Proxies
  <2>3. [[p EXCEPT !.buffer = <<>>, !.reading = FALSE] EXCEPT !.state = "gone", !.saw = y] \in Proxies
    BY <2>2 DEF Proxies
  <2>4. [p EXCEPT !.state = "gone", !.buffer = <<>>, !.reading = FALSE, !.saw = y]
        = [[p EXCEPT !.buffer = <<>>, !.reading = FALSE] EXCEPT !.state = "gone", !.saw = y]
    BY DEF Proxies
  <2> QED
    BY <2>3, <2>4
<1> QED
  BY <1>1, <1>2, <1>3, <1>4, <1>5, <1>6, <1>7

LEMMA ProxyIs ==
  ASSUME TypeOK, NEW s \in Sides
  PROVE  /\ proxy[s] \in Proxies
         /\ proxy[s].buffer \in Seq(1..Chunks) /\ proxy[s].got \in Seq(1..Chunks)
         /\ proxy[s].pending \in 0..Writes + 1 /\ proxy[s].begun \in 0..Writes + 1
         /\ proxy[s].reading \in BOOLEAN /\ proxy[s].used \in BOOLEAN /\ proxy[s].eof \in BOOLEAN
         /\ proxy[s].saw \in {"nothing", "end", "error", "cut", "stopped"}
         /\ 0 \in 0..Writes + 1 /\ <<>> \in Seq(1..Chunks)
<1>1. proxy[s] \in Proxies
  BY DEF TypeOK
<1>2. 0 \in 0..Writes + 1 /\ <<>> \in Seq(1..Chunks)
  BY StreamAssumption
<1> QED
  BY <1>1, <1>2 DEF Proxies

\* a proxy that ended is still typed
LEMMA DestroyedTyped ==
  ASSUME TypeOK, NEW s \in Sides, NEW why \in {"end", "error", "cut", "stopped"}
  PROVE  /\ Destroyed(s, why) \in Proxies
         /\ [Destroyed(s, why) EXCEPT !.pending = 0] \in Proxies
<1>1. PICK y \in {"nothing", "end", "error", "cut", "stopped"} :
        y = IF proxy[s].saw = "nothing" THEN why ELSE proxy[s].saw
  BY ProxyIs
<1>2. PICK p \in Proxies : p = proxy[s]
  BY ProxyIs
<1>3. [p EXCEPT !.state = "gone", !.buffer = <<>>, !.reading = FALSE, !.saw = y] \in Proxies
  BY <1>2, ProxyWith, ProxyIs
<1>4. Destroyed(s, why) \in Proxies
  BY <1>1, <1>2, <1>3 DEF Destroyed
<1> QED
  BY <1>4, PendingWith, ProxyIs

LEMMA EntriesAre ==
  /\ Opened("proxy") \in Entries /\ Opened("local") \in Entries /\ NoEntry \in Entries
  /\ \A e \in Entries : [e EXCEPT !.closed = TRUE] \in Entries
BY DEF Opened, NoEntry, Entries

LEMMA CreateProxyTyped ==
  ASSUME TypeOK, NEW s \in Sides, NEW used \in BOOLEAN, CreateProxy(s, used)
  PROVE  entry' \in [Sides -> Entries] /\ proxy' \in [Sides -> Proxies]
<1>1. NewProxy \in Proxies
  BY StreamAssumption DEF NewProxy, Proxies
<1>2. [NewProxy EXCEPT !.used = used] \in Proxies
  BY <1>1, ProxyWith, ProxyIs
<1>3. PICK p \in Proxies : p = proxy[s]
  BY ProxyIs
<1>4. PICK u \in BOOLEAN : u = (proxy[s].used \/ used)
  BY ProxyIs
<1>5. [p EXCEPT !.used = u] \in Proxies
  BY ProxyWith, ProxyIs
<1>6. proxy' = [proxy EXCEPT ![s] = [p EXCEPT !.used = u]]
      \/ proxy' = [proxy EXCEPT ![s] = [NewProxy EXCEPT !.used = used]]
  BY <1>3, <1>4 DEF CreateProxy, TypeOK
<1>7. proxy' \in [Sides -> Proxies]
  BY <1>2, <1>5, <1>6 DEF TypeOK
<1>8. entry' \in [Sides -> Entries]
  BY EntriesAre DEF TypeOK, CreateProxy
<1> QED
  BY <1>7, <1>8

Typed ==
  /\ entry' \in [Sides -> Entries]
  /\ real' \in Reals
  /\ proxy' \in [Sides -> Proxies]
  /\ down' \in SUBSET Sides
  /\ mode = "readable" => real'.due = <<>> /\ \A s \in Sides : proxy'[s].pending = 0

LEMMA HandleTyped ==
  ASSUME TypeOK, PortsOK, NEW s \in Sides, NEW m \in Messages(mode), Handle(s, m)
  PROVE  Typed
<1> USE StreamAssumption
<1>1. CASE m.kind = "data" /\ OnRemoteData(s, m.n)
  <2>1. m.n \in 1..Chunks
    BY <1>1 DEF Messages
  <2>2. PICK b \in Seq(1..Chunks) : b = Append(proxy[s].buffer, m.n)
    <3>1. proxy[s].buffer \in Seq(1..Chunks)
      BY ProxyIs
    <3>2. Append(proxy[s].buffer, m.n) \in Seq(1..Chunks)
      BY <2>1, <3>1
    <3> QED
      BY <3>2
  <2>3. PICK x \in BOOLEAN : x = (Len(proxy[s].buffer) + 1 < HighWater)
    <3>1. (Len(proxy[s].buffer) + 1 < HighWater) \in BOOLEAN
      OBVIOUS
    <3> QED
      BY <3>1, Zenon
  <2>4. PICK p \in Proxies : p = proxy[s]
    BY ProxyIs
  <2>5. PICK q \in Proxies : q = [p EXCEPT !.buffer = b, !.reading = x]
    BY ProxyWith, ProxyIs
  <2>6. proxy' = proxy \/ proxy' = [proxy EXCEPT ![s] = q]
    BY <1>1, <2>2, <2>3, <2>4, <2>5 DEF OnRemoteData, TypeOK
  <2>7. q.pending = proxy[s].pending
    BY <2>4, <2>5 DEF Proxies
  <2> QED
    BY <1>1, <2>6, <2>7 DEF Typed, TypeOK, PortsOK, OnRemoteData
<1>2. CASE m.kind = "end" /\ OnRemoteEnd(s)
  <2>4. PICK p \in Proxies : p = proxy[s]
    BY ProxyIs
  <2>5. PICK q \in Proxies : q = [p EXCEPT !.eof = TRUE, !.reading = FALSE]
    BY ProxyWith, ProxyIs
  <2>6. proxy' = proxy \/ proxy' = [proxy EXCEPT ![s] = q]
    BY <1>2, <2>4, <2>5 DEF OnRemoteEnd, TypeOK
  <2>7. q.pending = proxy[s].pending
    BY <2>4, <2>5 DEF Proxies
  <2>8. proxy' \in [Sides -> Proxies] /\ \A t \in Sides : proxy'[t].pending = proxy[t].pending
    <3>1. proxy \in [Sides -> Proxies]
      BY DEF TypeOK
    <3> QED
      BY <2>6, <2>7, <3>1
  <2>9. UNCHANGED <<entry, real, down>>
    BY <1>2 DEF OnRemoteEnd
  <2> QED
    BY <2>8, <2>9 DEF Typed, TypeOK, PortsOK
<1>3. CASE m.kind = "error" /\ OnRemoteError(s)
  <2>1. Destroyed(s, "error").pending = proxy[s].pending
    BY ProxyIs DEF Destroyed, Proxies
  <2>2. PICK q \in Proxies : q = Destroyed(s, "error")
    BY DestroyedTyped
  <2>3. entry' \in [Sides -> Entries]
    <3>1. entry \in [Sides -> Entries]
      BY DEF TypeOK
    <3>2. entry' = entry \/ entry' = [entry EXCEPT ![s].closed = TRUE]
      BY <1>3 DEF OnRemoteError
    <3> QED
      BY <3>1, <3>2, EntriesAre
  <2>4. proxy' = proxy \/ proxy' = [proxy EXCEPT ![s] = q]
    BY <1>3, <2>2 DEF OnRemoteError
  <2> QED
    BY <1>3, <2>1, <2>2, <2>3, <2>4 DEF Typed, TypeOK, PortsOK, OnRemoteError
<1>4. CASE m.kind = "pause" /\ OnFlow(s, FALSE)
  BY <1>4 DEF Typed, TypeOK, PortsOK, OnFlow, Reals
<1>5. CASE m.kind = "resume" /\ OnFlow(s, TRUE)
  BY <1>5 DEF Typed, TypeOK, PortsOK, OnFlow, Reals
<1>6. CASE m.kind \in {"write", "write_end"} /\ OnWrite(s, m)
  <2>1. m.n \in 1..Writes + 1 /\ m.side \in Sides /\ mode = "writable"
    BY <1>6 DEF Messages, WriteKinds
  <2>2. PICK d \in [n : 1..Writes + 1, side : Sides] : d = [n |-> m.n, side |-> m.side]
    BY <2>1
  <2>3. PICK due \in Seq([n : 1..Writes + 1, side : Sides]) : due = Append(real.due, d)
    <3>1. real.due \in Seq([n : 1..Writes + 1, side : Sides])
      BY DEF TypeOK, Reals
    <3>2. Append(real.due, d) \in Seq([n : 1..Writes + 1, side : Sides])
      BY <3>1
    <3> QED
      BY <3>2
  <2>4. [real EXCEPT !.due = due] \in Reals
    BY DEF TypeOK, Reals
  <2>5. real' = real \/ real' = [real EXCEPT !.due = due]
    BY <1>6, <2>2, <2>3 DEF OnWrite
  <2>6. down' \in SUBSET Sides
    BY <1>6 DEF OnWrite, TypeOK, Sides
  <2> QED
    BY <1>6, <2>1, <2>4, <2>5, <2>6 DEF Typed, TypeOK, OnWrite
<1>7. CASE m.kind \in {"write_result", "write_error"} /\ OnWriteResult(s, m, m.kind = "write_result")
  <2>1. mode = "writable"
    BY <1>7 DEF Messages, WriteKinds
  <2>2. PICK p \in Proxies : p = [proxy[s] EXCEPT !.pending = 0]
    BY PendingWith, ProxyIs
  <2>3. PICK why \in {"end", "error"} : why = IF m.kind = "write_result" THEN "end" ELSE "error"
    OBVIOUS
  <2>4. PICK q \in Proxies : q = [Destroyed(s, why) EXCEPT !.pending = 0]
    BY DestroyedTyped
  <2>5. proxy' \in {proxy, [proxy EXCEPT ![s] = p], [[proxy EXCEPT ![s] = p] EXCEPT ![s] = q]}
    <3>1. [proxy EXCEPT ![s].pending = 0] = [proxy EXCEPT ![s] = p]
      BY <2>2 DEF TypeOK
    <3> QED
      BY <1>7, <2>3, <2>4, <3>1 DEF OnWriteResult
  <2>6. proxy' \in [Sides -> Proxies]
    BY <2>5 DEF TypeOK
  <2> QED
    BY <1>7, <2>1, <2>6 DEF Typed, TypeOK, OnWriteResult
<1>8. CASE m.kind = "close" /\ OnClose(s)
  <2>1. Destroyed(s, "cut").pending = proxy[s].pending
    BY ProxyIs DEF Destroyed, Proxies
  <2>2. PICK q \in Proxies : q = Destroyed(s, "cut")
    BY DestroyedTyped
  <2>3. entry' \in [Sides -> Entries]
    BY <1>8, EntriesAre DEF TypeOK, OnClose
  <2>4. proxy' = proxy \/ proxy' = [proxy EXCEPT ![s] = q]
    BY <1>8, <2>2 DEF OnClose
  <2>5. real' \in Reals /\ real'.due = real.due
    BY <1>8 DEF OnClose, TypeOK, Reals
  <2> QED
    BY <1>8, <2>1, <2>2, <2>3, <2>4, <2>5 DEF Typed, TypeOK, PortsOK, OnClose
<1> QED
  BY <1>1, <1>2, <1>3, <1>4, <1>5, <1>6, <1>7, <1>8 DEF Handle

LEMMA AnswerTyped ==
  ASSUME TypeOK, NEW s \in Sides, NEW m
  PROVE  Answer(s, m) \in Seq(Messages(mode))
<1>1. {<<Signal("resume")>>, <<Signal("pause")>>, <<Signal("close")>>} \subseteq Seq(Messages(mode))
  BY SignalsAre DEF Kinds
<1>2. Answer(s, m) \in {<<>>, <<Signal("resume")>>, <<Signal("pause")>>, <<Signal("close")>>}
  BY Zenon DEF Answer
<1>3. <<>> \in Seq(Messages(mode))
  OBVIOUS
<1> QED
  BY <1>1, <1>2, <1>3

PortsTyped ==
  /\ toHost' \in [Workers -> Seq(Messages(mode))]
  /\ toWorker' \in [Workers -> Seq(Messages(mode))]

RestTyped ==
  /\ owner' = owner /\ mode' = mode
  /\ subs' \in SUBSET Sides /\ lapse' \in {"none", "forgotten", "renewed"}
  /\ queued' \in SUBSET Workers /\ first' \in Sides /\ passes' \in 0..MaxPasses

LEMMA StillTyped ==
  ASSUME TypeOK, Typed, PortsTyped, RestTyped
  PROVE  (TypeOK /\ PortsOK)'
BY DEF TypeOK, PortsOK, Typed, PortsTyped, RestTyped

LEMMA UnchangedTyped ==
  ASSUME TypeOK, PortsOK, UNCHANGED <<entry, down, streamVars>>
  PROVE  Typed
BY DEF TypeOK, PortsOK, Typed, streamVars

LEMMA RestKept ==
  ASSUME TypeOK, UNCHANGED <<owner, mode, passVars>>,
         UNCHANGED routes \/ UnsubscribeAll \/ \E ws \in SUBSET Sides : Subscribe(ws)
  PROVE  RestTyped
BY DEF TypeOK, RestTyped, passVars, routes, UnsubscribeAll, Subscribe

LEMMA Taken ==
  ASSUME PortsOK, NEW w \in Workers
  PROVE  /\ toHost[w] # <<>> =>
              /\ Head(toHost[w]) \in Messages(mode)
              /\ [toHost EXCEPT ![w] = Tail(@)] \in [Workers -> Seq(Messages(mode))]
         /\ toWorker[w] # <<>> =>
              /\ Head(toWorker[w]) \in Messages(mode)
              /\ [toWorker EXCEPT ![w] = Tail(@)] \in [Workers -> Seq(Messages(mode))]
BY DEF PortsOK

LEMMA WorkerHandlesTyped ==
  ASSUME TypeOK, PortsOK, NEW w \in Workers, WorkerHandles(w)
  PROVE  (TypeOK /\ PortsOK)'
<1>1. Handle(w, Head(toWorker[w])) /\ w \in Sides
  BY DEF WorkerHandles, Sides
<1>2. Typed
  BY <1>1, HandleTyped, Taken DEF WorkerHandles
<1>3. PortsTyped
  <2>1. toHost' \in [Workers -> Seq(Messages(mode))]
    BY <1>1, AnswerTyped, WorkerPostsTyped DEF WorkerHandles
  <2> QED
    BY <2>1, Taken DEF WorkerHandles, PortsTyped
<1>4. RestTyped
  BY RestKept DEF WorkerHandles
<1> QED
  BY <1>2, <1>3, <1>4, StillTyped

LEMMA HostHandlesTyped ==
  ASSUME TypeOK, PortsOK, NEW w \in Workers, HostHandles(w)
  PROVE  (TypeOK /\ PortsOK)'
<1> DEFINE m == Head(toHost[w])
<1>1. m \in Messages(mode) /\ Host \in Sides
  BY Taken DEF HostHandles, Sides
<1>2. Typed
  BY <1>1, HandleTyped, UnchangedTyped DEF HostHandles
<1>3. PortsTyped
  <2>1. PICK ms \in Seq(Messages(mode)) : HostPosts(Targets(m), m, ms)
    <3>1. Answer(Host, m) \in Seq(Messages(mode)) /\ <<>> \in Seq(Messages(mode))
      BY <1>1, AnswerTyped
    <3> QED
      BY <3>1 DEF HostHandles
  <2>2. toWorker' \in [Workers -> Seq(Messages(mode))]
    BY <1>1, <2>1, HostPostsTyped
  <2> QED
    BY <2>2, Taken DEF HostHandles, PortsTyped
<1>4. RestTyped
  BY RestKept DEF HostHandles
<1> QED
  BY <1>2, <1>3, <1>4, StillTyped

LEMMA TryRegisterLocalTyped ==
  ASSUME TypeOK, PortsOK, NEW s \in Sides, TryRegisterLocal(s), UNCHANGED <<down, proxy>>
  PROVE  Typed
<1>1. entry' \in [Sides -> Entries]
  BY EntriesAre DEF TypeOK, TryRegisterLocal
<1>2. real' \in Reals /\ real'.due = real.due
  BY DEF TypeOK, TryRegisterLocal, Reals
<1> QED
  BY <1>1, <1>2 DEF TypeOK, PortsOK, Typed

LEMMA RefTyped ==
  ASSUME NEW n \in Nat, NEW s \in Sides
  PROVE  \A md : MsgOf("ref", n, s) \in Messages(md) /\ <<MsgOf("ref", n, s)>> \in Seq(Messages(md))
BY DEF MsgOf, Messages, Kinds, WriteKinds

LEMMA PassTyped ==
  ASSUME TypeOK, PortsOK, NEW s \in Sides, Pass(s), first' \in Sides
  PROVE  /\ Typed
         /\ UNCHANGED routes \/ (\E ws \in SUBSET Sides : Subscribe(ws)) => RestTyped
<1>1. Typed
  BY TryRegisterLocalTyped DEF Pass
<1>2. passes' \in 0..MaxPasses
  BY StreamAssumption DEF Pass, TypeOK
<1> QED
  BY <1>1, <1>2 DEF Pass, TypeOK, RestTyped, routes, Subscribe

LEMMA HostPassesTyped ==
  ASSUME TypeOK, PortsOK, NEW w \in Workers, HostPasses(w)
  PROVE  (TypeOK /\ PortsOK)'
<1>1. Pass(Host) /\ Host \in Sides /\ w \in Sides /\ first' \in Sides
  BY DEF HostPasses, Sides, TypeOK
<1>2. \E ws \in SUBSET Sides : Subscribe(ws)
  <2>1. {w} \in SUBSET Sides
    BY <1>1
  <2> QED
    BY <2>1 DEF HostPasses
<1>3. Typed /\ RestTyped
  BY <1>1, <1>2, PassTyped
<1>4. PortsTyped
  BY <1>1, RefTyped DEF HostPasses, PortsTyped, PortsOK
<1> QED
  BY <1>3, <1>4, StillTyped

LEMMA WorkerPassesTyped ==
  ASSUME TypeOK, PortsOK, NEW w \in Workers, NEW t \in Sides, NEW argument \in BOOLEAN,
         WorkerPasses(w, t, argument)
  PROVE  (TypeOK /\ PortsOK)'
<1>1. Pass(w) /\ w \in Sides /\ first' \in Sides
  BY DEF WorkerPasses, Sides, TypeOK
<1>2. Typed /\ RestTyped
  BY <1>1, PassTyped DEF WorkerPasses, routes
<1>3. PICK n \in Nat : n = IF argument THEN 1 ELSE 0
  OBVIOUS
<1>4. WorkerPosts(w, <<MsgOf("ref", n, t)>>) /\ toWorker' = toWorker
  BY <1>3 DEF WorkerPasses
<1>5. <<MsgOf("ref", n, t)>> \in Seq(Messages(mode))
  BY RefTyped
<1>6. PortsTyped
  BY <1>4, <1>5, WorkerPostsTyped DEF PortsTyped, PortsOK
<1> QED
  BY <1>2, <1>6, StillTyped

LEMMA NewProxyTyped ==
  ASSUME TypeOK, PortsOK, NEW s \in Sides, NEW used \in BOOLEAN, CreateProxy(s, used),
         UNCHANGED <<down, real>>
  PROVE  Typed
<1>1. ASSUME NEW t \in Sides PROVE proxy'[t].pending \in {0, proxy[t].pending}
  <2>1. CASE entry[s].kind = "proxy"
    <3>1. proxy' = [proxy EXCEPT ![s].used = @ \/ used] /\ proxy[s] \in Proxies
      BY <2>1, ProxyIs DEF CreateProxy
    <3>2. t # s => proxy'[t] = proxy[t]
      BY <3>1 DEF TypeOK
    <3>3. proxy'[s].pending = proxy[s].pending
      BY <3>1 DEF TypeOK, Proxies
    <3> QED
      BY <3>2, <3>3
  <2>2. CASE entry[s].kind # "proxy"
    <3>1. proxy' = [proxy EXCEPT ![s] = [NewProxy EXCEPT !.used = used]]
      BY <2>2 DEF CreateProxy
    <3>2. [NewProxy EXCEPT !.used = used].pending = 0
      BY DEF NewProxy
    <3> QED
      BY <3>1, <3>2 DEF TypeOK
  <2> QED
    BY <2>1, <2>2
<1> QED
  BY <1>1, CreateProxyTyped DEF Typed, TypeOK, PortsOK

LEMMA WorkerGetsRefTyped ==
  ASSUME TypeOK, PortsOK, NEW w \in Workers, WorkerGetsRef(w)
  PROVE  (TypeOK /\ PortsOK)'
<1>1. Typed
  BY NewProxyTyped DEF WorkerGetsRef, Sides
<1>2. PortsTyped
  BY Taken DEF WorkerGetsRef, PortsTyped, PortsOK
<1>3. RestTyped
  BY RestKept DEF WorkerGetsRef, routes
<1> QED
  BY <1>1, <1>2, <1>3, StillTyped

LEMMA HostGetsRefTyped ==
  ASSUME TypeOK, PortsOK, NEW w \in Workers, HostGetsRef(w)
  PROVE  (TypeOK /\ PortsOK)'
<1> DEFINE m == Head(toHost[w])
<1>1. m \in Messages(mode) /\ m.side \in Sides /\ Host \in Sides /\ w \in Sides
  BY Taken DEF HostGetsRef, Sides, Messages
<1>2. Typed
  BY <1>1, NewProxyTyped DEF HostGetsRef
<1>3. PortsTyped
  <2>1. toWorker' = toWorker \/ HostPosts({m.side}, m, <<>>)
    BY DEF HostGetsRef
  <2>2. toWorker' \in [Workers -> Seq(Messages(mode))]
    <3>1. PICK ws, ms : ms \in Seq(Messages(mode)) /\ (toWorker' = toWorker \/ HostPosts(ws, m, ms))
      <4>1. <<>> \in Seq(Messages(mode))
        OBVIOUS
      <4> QED
        BY <2>1, <4>1, Zenon
    <3> QED
      BY <1>1, <3>1, HostPostsTyped DEF PortsOK
  <2> QED
    BY <2>2, Taken DEF HostGetsRef, PortsTyped
<1>4. subs' \in SUBSET Sides /\ lapse' \in {"none", "forgotten", "renewed"}
  BY <1>1 DEF HostGetsRef, TypeOK, Subscribe
<1>5. queued' \in SUBSET Workers
  BY <1>1 DEF HostGetsRef, TypeOK, Sides
<1>6. RestTyped
  BY <1>4, <1>5 DEF HostGetsRef, TypeOK, RestTyped
<1> QED
  BY <1>2, <1>3, <1>6, StillTyped

LEMMA MailboxStartsTyped ==
  ASSUME TypeOK, PortsOK, NEW w \in Workers, MailboxStarts(w)
  PROVE  (TypeOK /\ PortsOK)'
<1>1. Typed
  BY UnchangedTyped DEF MailboxStarts
<1>2. PortsTyped
  <2>1. MsgOf("ref", 0, w) \in Messages(mode)
    BY RefTyped DEF Sides
  <2>2. PICK ws, ms :
          ms \in Seq(Messages(mode))
          /\ (toWorker' = toWorker \/ HostPosts(ws, MsgOf("ref", 0, w), ms))
    <3>1. toWorker' = toWorker \/ HostPosts({w}, MsgOf("ref", 0, w), <<>>)
      BY DEF MailboxStarts
    <3>2. <<>> \in Seq(Messages(mode))
      OBVIOUS
    <3> QED
      BY <3>1, <3>2, Zenon
  <2>3. toWorker' \in [Workers -> Seq(Messages(mode))]
    BY <2>1, <2>2, HostPostsTyped DEF PortsOK
  <2> QED
    BY <2>3 DEF MailboxStarts, PortsTyped, PortsOK
<1>3. RestTyped
  BY DEF MailboxStarts, TypeOK, RestTyped, Subscribe, routes, Sides
<1> QED
  BY <1>1, <1>2, <1>3, StillTyped

LEMMA RealStepTyped ==
  ASSUME TypeOK, PortsOK, RealStep,
         real' \in Reals, mode = "readable" => real'.due = <<>>,
         NEW m \in Messages(mode), ToConsumers(m) \/ UNCHANGED <<toHost, toWorker>>
  PROVE  (TypeOK /\ PortsOK)'
<1>1. Typed
  BY DEF RealStep, Typed, TypeOK, PortsOK
<1>2. RestTyped
  BY RestKept DEF RealStep
<1>3. PortsTyped
  BY ToConsumersTyped DEF PortsTyped, PortsOK, TypeOK
<1> QED
  BY <1>1, <1>2, <1>3, StillTyped

LEMMA RealEmitsTyped ==
  ASSUME TypeOK, PortsOK, RealEmits
  PROVE  (TypeOK /\ PortsOK)'
<1> USE StreamAssumption
<1>1. CASE real.sent < Chunks
  <2>1. PICK n \in 1..Chunks : n = real.sent + 1
    BY <1>1 DEF TypeOK, Reals
  <2>2. Msg("data", n) \in Messages(mode)
    BY <2>1 DEF Msg, Messages, Kinds, WriteKinds, Sides
  <2>3. real' \in Reals /\ real'.due = real.due
    <3>1. real' = [real EXCEPT !.sent = n] /\ n \in 0..Chunks
      BY <1>1, <2>1 DEF RealEmits
    <3>2. real \in Reals
      BY DEF TypeOK
    <3> QED
      BY <3>1, <3>2 DEF Reals
  <2> QED
    BY <1>1, <2>1, <2>2, <2>3, RealStepTyped DEF RealEmits, PortsOK
<1>2. CASE ~(real.sent < Chunks)
  <2>1. Signal("end") \in Messages(mode)
    BY MessageIs DEF Kinds, Sides
  <2>2. real' \in Reals /\ real'.due = real.due
    BY <1>2 DEF RealEmits, TypeOK, Reals
  <2> QED
    BY <1>2, <2>1, <2>2, RealStepTyped DEF RealEmits, PortsOK
<1> QED
  BY <1>1, <1>2

LEMMA RealEndsTyped ==
  ASSUME TypeOK, PortsOK, RealFails \/ RealDestroyed
  PROVE  (TypeOK /\ PortsOK)'
<1>1. Signal("error") \in Messages(mode)
  BY MessageIs DEF Kinds, Sides
<1>2. real' \in Reals /\ real'.due = real.due
  BY DEF RealFails, RealDestroyed, TypeOK, Reals
<1> QED
  BY <1>1, <1>2, RealStepTyped DEF RealFails, RealDestroyed, PortsOK

LEMMA WriteDoneTyped ==
  ASSUME TypeOK, PortsOK, WriteDone
  PROVE  (TypeOK /\ PortsOK)'
<1> USE StreamAssumption
<1> DEFINE D == [n : 1..Writes + 1, side : Sides]
<1>1. mode = "writable" /\ real.due \in Seq(D) /\ real.due # <<>>
  BY DEF WriteDone, TypeOK, PortsOK, Reals
<1>2. PICK d \in D : d = Head(real.due)
  <2> HIDE DEF D
  <2>1. Head(real.due) \in D
    BY <1>1
  <2> QED
    BY <2>1
<1>3. PICK due \in Seq(D) : due = Tail(real.due)
  <2> HIDE DEF D
  <2>1. Tail(real.due) \in Seq(D)
    BY <1>1
  <2> QED
    BY <2>1
<1>4. PICK written \in Seq([n : 1..Writes, side : Sides]) :
        written = IF real.state = "open" /\ d.n <= Writes THEN Append(real.written, d)
                  ELSE real.written
  <2>1. real.written \in Seq([n : 1..Writes, side : Sides])
    BY DEF TypeOK, Reals
  <2>2. d.n <= Writes => d \in [n : 1..Writes, side : Sides]
    BY <1>2
  <2>3. d.n <= Writes => Append(real.written, d) \in Seq([n : 1..Writes, side : Sides])
    BY <2>1, <2>2
  <2> QED
    BY <2>1, <2>3
<1>5. PICK st \in {"open", "ended", "failed", "destroyed"} :
        st = IF real.state = "open" /\ d.n > Writes THEN "ended" ELSE real.state
  BY DEF TypeOK, Reals
<1>6. real' = [real EXCEPT !.due = due, !.written = written, !.state = st]
  BY <1>2, <1>3, <1>4, <1>5 DEF WriteDone
<1>7. real' \in Reals
  BY <1>6 DEF TypeOK, Reals
<1>8. PICK kind \in {"write_result", "write_error"} : ToConsumers(Msg(kind, d.n))
  BY <1>2 DEF WriteDone
<1>9. Msg(kind, d.n) \in Messages(mode)
  BY <1>1, <1>2, <1>8 DEF Msg, Messages, Kinds, WriteKinds, Sides
<1> QED
  BY <1>1, <1>7, <1>8, <1>9, RealStepTyped DEF WriteDone

LEMMA SeqParts ==
  ASSUME NEW S, NEW q \in Seq(S), q # <<>>
  PROVE  Tail(q) \in Seq(S) /\ Head(q) \in S
OBVIOUS

\* a step of the program that replaces its proxy by p
LEMMA UseTyped ==
  ASSUME TypeOK, PortsOK, NEW s \in Sides, Use(s),
         NEW p \in Proxies, proxy' = [proxy EXCEPT ![s] = p], mode = "readable" => p.pending = 0,
         NEW ms \in Seq(Messages(mode)), ToOwner(s, ms)
  PROVE  (TypeOK /\ PortsOK)'
<1>1. Typed
  BY DEF Use, Typed, TypeOK, PortsOK
<1>2. RestTyped
  BY RestKept DEF Use
<1>3. PortsTyped
  BY ToOwnerTyped DEF PortsTyped
<1> QED
  BY <1>1, <1>2, <1>3, StillTyped

LEMMA PostsResume ==
  ASSUME NEW more
  PROVE  \A md : (IF more THEN <<Signal("resume")>> ELSE <<>>) \in Seq(Messages(md))
<1>1. \A md : <<Signal("resume")>> \in Seq(Messages(md)) /\ <<>> \in Seq(Messages(md))
  BY SignalsAre DEF Kinds
<1> QED
  BY <1>1

LEMMA ReadTyped ==
  ASSUME TypeOK, PortsOK, NEW s \in Sides, Read(s)
  PROVE  (TypeOK /\ PortsOK)'
<1> DEFINE b == proxy[s].buffer
           more == WantsMore(s, IF b = <<>> THEN 0 ELSE Len(b) - 1)
           buf == IF b = <<>> THEN b ELSE Tail(b)
           got == IF b = <<>> THEN proxy[s].got ELSE Append(proxy[s].got, Head(b))
<1>1. buf \in Seq(1..Chunks) /\ got \in Seq(1..Chunks)
  <2>1. b \in Seq(1..Chunks) /\ proxy[s].got \in Seq(1..Chunks)
    BY ProxyIs
  <2>2. b # <<>> => Tail(b) \in Seq(1..Chunks) /\ Head(b) \in 1..Chunks
    BY <2>1, SeqParts
  <2>3. b # <<>> => Append(proxy[s].got, Head(b)) \in Seq(1..Chunks)
    BY <2>1, <2>2
  <2> QED
    BY <2>1, <2>2, <2>3
<1>2. (proxy[s].reading \/ more) \in BOOLEAN
  OBVIOUS
<1>3. [proxy[s] EXCEPT !.buffer = buf, !.got = got, !.reading = @ \/ more] \in Proxies
  <2>1. PICK p \in Proxies : p = proxy[s]
    BY ProxyIs
  <2> HIDE DEF buf, got, more
  <2>2. PICK x \in BOOLEAN : x = (p.reading \/ more)
    BY Zenon
  <2>3. [p EXCEPT !.buffer = buf, !.got = got, !.reading = x] \in Proxies
    BY <1>1, ProxyWith
  <2> QED
    BY <2>1, <2>2, <2>3
<1>4. PICK p \in Proxies : p = [proxy[s] EXCEPT !.buffer = buf, !.got = got, !.reading = @ \/ more]
  BY <1>3
<1>5. proxy' = [proxy EXCEPT ![s] = p]
  BY <1>4 DEF Read, TypeOK
<1>6. p.pending = proxy[s].pending
  BY <1>4, ProxyIs DEF Proxies
<1>7. PICK ms \in Seq(Messages(mode)) : ToOwner(s, ms)
  BY PostsResume DEF Read
<1> QED
  BY <1>5, <1>6, <1>7, UseTyped DEF Read, Reads, PortsOK

LEMMA SeesEndTyped ==
  ASSUME TypeOK, PortsOK, NEW s \in Sides, SeesEnd(s) \/ Stop(s)
  PROVE  (TypeOK /\ PortsOK)'
<1>1. PICK why \in {"end", "stopped"} : proxy' = [proxy EXCEPT ![s] = Destroyed(s, why)]
  BY DEF SeesEnd, Stop
<1>2. PICK p \in Proxies : p = Destroyed(s, why)
  BY DestroyedTyped
<1>3. p.pending = proxy[s].pending
  BY <1>2, ProxyIs DEF Destroyed, Proxies
<1>4. PICK ms \in Seq(Messages(mode)) : ToOwner(s, ms)
  <2>1. <<Signal("close")>> \in Seq(Messages(mode))
    BY SignalsAre DEF Kinds
  <2> QED
    BY <2>1 DEF SeesEnd, Stop
<1> QED
  BY <1>1, <1>2, <1>3, <1>4, UseTyped DEF SeesEnd, Stop, Reads, PortsOK

LEMMA PauseTyped ==
  ASSUME TypeOK, PortsOK, NEW s \in Sides, Pause(s) \/ Resume(s)
  PROVE  (TypeOK /\ PortsOK)'
<1>1. PICK p \in Proxies : proxy' = [proxy EXCEPT ![s] = p] /\ p.pending = proxy[s].pending
  <2>1. PICK q \in Proxies : q = proxy[s]
    BY ProxyIs
  <2>2. CASE Pause(s)
    <3>1. [q EXCEPT !.held = "now"] \in Proxies /\ [q EXCEPT !.held = "now"].pending = q.pending
      BY DEF Proxies
    <3> QED
      BY <2>1, <2>2, <3>1 DEF Pause, TypeOK
  <2>3. CASE Resume(s)
    <3> DEFINE more == WantsMore(s, Len(proxy[s].buffer))
    <3> HIDE DEF more
    <3>1. PICK x \in BOOLEAN : x = (q.reading \/ more)
      BY Zenon
    <3>2. PICK r \in Proxies : r = [q EXCEPT !.held = "before", !.reading = x]
      BY ProxyWith, ProxyIs
    <3>3. r.pending = q.pending
      BY <3>2 DEF Proxies
    <3>4. proxy' = [proxy EXCEPT ![s] = r]
      BY <2>1, <2>3, <3>1, <3>2 DEF Resume, TypeOK, more
    <3> QED
      BY <2>1, <3>3, <3>4
  <2> QED
    BY <2>2, <2>3
<1>2. PICK ms \in Seq(Messages(mode)) : ToOwner(s, ms)
  <2>1. <<Signal("pause")>> \in Seq(Messages(mode))
    BY SignalsAre DEF Kinds
  <2> QED
    BY <2>1, PostsResume DEF Pause, Resume
<1> QED
  BY <1>1, <1>2, UseTyped DEF Pause, Resume, Reads, PortsOK

LEMMA WriteTyped ==
  ASSUME TypeOK, PortsOK, NEW s \in Sides, Write(s)
  PROVE  (TypeOK /\ PortsOK)'
<1>1. PICK n \in 1..Writes + 1 : n = proxy[s].begun + 1
  <2>1. proxy[s].begun \in 0..Writes + 1 /\ proxy[s].begun <= Writes /\ Writes \in Nat
    BY StreamAssumption, ProxyIs DEF Write
  <2>2. proxy[s].begun + 1 \in 1..Writes + 1
    BY <2>1
  <2> QED
    BY <2>2
<1>2. PICK p \in Proxies : p = [proxy[s] EXCEPT !.pending = n, !.begun = n]
  <2>1. PICK q \in Proxies : q = proxy[s]
    BY ProxyIs
  <2>2. [q EXCEPT !.pending = n, !.begun = n] \in Proxies
    <3>1. n \in 0..Writes + 1
      BY StreamAssumption
    <3> QED
      BY <3>1, PendingWith
  <2> QED
    BY <2>1, <2>2
<1>3. proxy' = [proxy EXCEPT ![s] = p]
  BY <1>1, <1>2 DEF Write, TypeOK
<1>4. PICK kind \in WriteKinds : ToOwner(s, <<MsgOf(kind, n, s)>>)
  BY <1>1 DEF Write, WriteKinds
<1>5. <<MsgOf(kind, n, s)>> \in Seq(Messages(mode))
  BY <1>1 DEF MsgOf, Messages, Kinds, WriteKinds, Write
<1> QED
  BY <1>2, <1>3, <1>4, <1>5, UseTyped DEF Write

LEMMA CrashTyped ==
  ASSUME TypeOK, PortsOK, NEW w \in Workers, Crash(w)
  PROVE  (TypeOK /\ PortsOK)'
BY DEF Crash, TypeOK, PortsOK, passVars, streamVars, routes, Sides

LEMMA NextTyped ==
  ASSUME TypeOK, PortsOK, [Next]_vars
  PROVE  (TypeOK /\ PortsOK)'
<1>1. CASE UNCHANGED vars
  BY <1>1 DEF vars, linkVars, routes, streamVars, passVars, TypeOK, PortsOK
<1>2. CASE \E w \in Workers : WorkerHandles(w) \/ HostHandles(w)
  BY <1>2, WorkerHandlesTyped, HostHandlesTyped
<1>3. CASE \E w \in Workers : HostPasses(w) \/ WorkerGetsRef(w) \/ HostGetsRef(w) \/ MailboxStarts(w)
  BY <1>3, HostPassesTyped, WorkerGetsRefTyped, HostGetsRefTyped, MailboxStartsTyped
<1>4. CASE \E w \in Workers, t \in Sides, argument \in BOOLEAN : WorkerPasses(w, t, argument)
  BY <1>4, WorkerPassesTyped
<1>5. CASE \E w \in Workers : Crash(w)
  BY <1>5, CrashTyped
<1>6. CASE RealEmits \/ RealFails \/ RealDestroyed \/ WriteDone
  BY <1>6, RealEmitsTyped, RealEndsTyped, WriteDoneTyped
<1>7. CASE \E s \in Sides : Read(s) \/ SeesEnd(s) \/ Pause(s) \/ Resume(s) \/ Write(s) \/ Stop(s)
  BY <1>7, ReadTyped, SeesEndTyped, PauseTyped, WriteTyped
<1> QED
  BY <1>1, <1>2, <1>3, <1>4, <1>5, <1>6, <1>7 DEF Next

LEMMA InitTyped == Init => TypeOK /\ PortsOK
<1> SUFFICES ASSUME Init PROVE TypeOK /\ PortsOK
  OBVIOUS
<1>1. [NewProxy EXCEPT !.state = "none"] \in Proxies
  <2>1. NewProxy \in Proxies
    BY StreamAssumption DEF NewProxy, Proxies
  <2> QED
    BY <2>1 DEF Proxies
<1>2. [NewProxy EXCEPT !.state = "none"].pending = 0
  BY DEF NewProxy
<1>3. real \in Reals /\ real.due = <<>>
  BY StreamAssumption DEF Init, Reals
<1> QED
  BY <1>1, <1>2, <1>3, EntriesAre, StreamAssumption DEF Init, LinksInit, TypeOK, PortsOK, Sides

-----------------------------------------------------------------------------
(* Ports.                                                                   *)

\* p and q carry the same chunks and the end, in order if p is
PortKept(p, q) ==
  /\ DataIn(q) = DataIn(p)
  /\ EndIn(q) <=> EndIn(p)
  /\ Ordered(p) => Ordered(q)

PlainMessage(m) == m.kind \notin {"data", "end"}
Plain(ms) == \A i \in DOMAIN ms : PlainMessage(ms[i])

LEMMA DataAt ==
  ASSUME NEW p, NEW i \in DOMAIN p, p[i].kind = "data"
  PROVE  p[i].n \in DataIn(p)
BY DEF DataIn

LEMMA DataFound ==
  ASSUME NEW p, NEW k \in DataIn(p)
  PROVE  \E i \in DOMAIN p : p[i].kind = "data" /\ p[i].n = k
BY DEF DataIn

LEMMA DataIs ==
  ASSUME NEW p, NEW k
  PROVE  k \in DataIn(p) <=> \E i \in DOMAIN p : p[i].kind = "data" /\ p[i].n = k
BY DEF DataIn

\* a port with other places for the same chunks and end
LEMMA SameData ==
  ASSUME NEW p, NEW q,
         \A i \in DOMAIN q : ~PlainMessage(q[i]) => \E j \in DOMAIN p : p[j] = q[i],
         \A i \in DOMAIN p : ~PlainMessage(p[i]) => \E j \in DOMAIN q : q[j] = p[i]
  PROVE  DataIn(q) = DataIn(p) /\ (EndIn(q) <=> EndIn(p))
<1>1. ASSUME NEW k PROVE k \in DataIn(q) <=> k \in DataIn(p)
  BY DataIs DEF PlainMessage
<1>2. EndIn(q) <=> EndIn(p)
  BY DEF EndIn, PlainMessage
<1> QED
  BY <1>1, <1>2

LEMMA AppendKept ==
  ASSUME NEW S, NEW p \in Seq(S), NEW ms \in Seq(S), Plain(ms)
  PROVE  PortKept(p, p \o ms)
<1> DEFINE q == p \o ms
<1>1. /\ q \in Seq(S) /\ DOMAIN q = 1..Len(p) + Len(ms)
      /\ \A i \in 1..Len(p) : q[i] = p[i]
      /\ \A i \in Len(p) + 1..Len(p) + Len(ms) : q[i] = ms[i - Len(p)] /\ i - Len(p) \in DOMAIN ms
      /\ DOMAIN p = 1..Len(p) /\ DOMAIN ms = 1..Len(ms) /\ Len(p) \in Nat /\ Len(ms) \in Nat
  OBVIOUS
<1> HIDE DEF q
<1>2. ASSUME NEW i \in DOMAIN q, ~PlainMessage(q[i]) PROVE i \in DOMAIN p /\ q[i] = p[i]
  <2>1. i \in 1..Len(p) + Len(ms)
    BY <1>1
  <2>2. CASE i \in 1..Len(p)
    BY <1>1, <2>2
  <2>3. CASE i \in Len(p) + 1..Len(p) + Len(ms)
    BY <1>1, <1>2, <2>3 DEF Plain
  <2> QED
    BY <1>1, <2>1, <2>2, <2>3
<1>3. \A i \in DOMAIN p : i \in DOMAIN q /\ q[i] = p[i]
  BY <1>1
<1>4. DataIn(q) = DataIn(p) /\ (EndIn(q) <=> EndIn(p))
  <2>1. \A i \in DOMAIN q : ~PlainMessage(q[i]) => \E j \in DOMAIN p : p[j] = q[i]
    BY <1>2
  <2>2. \A i \in DOMAIN p : ~PlainMessage(p[i]) => \E j \in DOMAIN q : q[j] = p[i]
    BY <1>3
  <2> QED
    BY <2>1, <2>2, SameData
<1>6. Ordered(p) => Ordered(q)
  <2>1. \A i, j \in DOMAIN q : i < j /\ q[j].kind = "data" => i \in DOMAIN p /\ q[i] = p[i] /\ j \in DOMAIN p /\ q[j] = p[j]
    BY <1>1, <1>2 DEF PlainMessage
  <2> QED
    BY <2>1 DEF Ordered
<1> QED
  BY <1>4, <1>6 DEF PortKept, q

LEMMA TailIs ==
  ASSUME NEW S, NEW p \in Seq(S), p # <<>>
  PROVE  /\ Tail(p) \in Seq(S)
         /\ Head(p) = p[1] /\ 1 \in DOMAIN p
         /\ \A i \in DOMAIN Tail(p) : i + 1 \in DOMAIN p /\ Tail(p)[i] = p[i + 1]
         /\ \A i \in DOMAIN p : i # 1 => i - 1 \in DOMAIN Tail(p) /\ Tail(p)[i - 1] = p[i]
         /\ DOMAIN p \subseteq Nat \ {0} /\ DOMAIN Tail(p) \subseteq Nat \ {0}
OBVIOUS

LEMMA TailOrdered ==
  ASSUME NEW S, NEW p \in Seq(S), p # <<>>, Ordered(p)
  PROVE  Ordered(Tail(p))
<1>1. \A i, j \in DOMAIN Tail(p) : i < j => i + 1 < j + 1
  BY TailIs
<1> QED
  BY <1>1, TailIs DEF Ordered

LEMMA TailKept ==
  ASSUME NEW S, NEW p \in Seq(S), p # <<>>, PlainMessage(Head(p))
  PROVE  PortKept(p, Tail(p))
<1>1. \A i \in DOMAIN Tail(p) : \E j \in DOMAIN p : p[j] = Tail(p)[i]
  BY TailIs
<1>2. ASSUME NEW i \in DOMAIN p, ~PlainMessage(p[i])
      PROVE  \E j \in DOMAIN Tail(p) : Tail(p)[j] = p[i]
  <2>1. i # 1
    BY <1>2, TailIs
  <2> QED
    BY <2>1, TailIs
<1>3. DataIn(Tail(p)) = DataIn(p) /\ (EndIn(Tail(p)) <=> EndIn(p))
  BY <1>1, <1>2, SameData
<1> QED
  BY <1>3, TailOrdered DEF PortKept

LEMMA DataTaken ==
  ASSUME NEW S, NEW p \in Seq(S), p # <<>>, Ordered(p), Head(p).kind = "data"
  PROVE  /\ DataIn(p) = DataIn(Tail(p)) \cup {Head(p).n}
         /\ \A k \in DataIn(Tail(p)) : Head(p).n < k
         /\ EndIn(Tail(p)) <=> EndIn(p)
         /\ Ordered(Tail(p))
<1>1. ASSUME NEW k PROVE k \in DataIn(p) <=> k \in DataIn(Tail(p)) \/ k = Head(p).n
  <2>1. ASSUME k \in DataIn(p) PROVE k \in DataIn(Tail(p)) \/ k = Head(p).n
    <3>1. PICK i \in DOMAIN p : p[i].kind = "data" /\ p[i].n = k
      BY <2>1, DataIs
    <3>2. CASE i # 1
      <4>1. PICK j \in DOMAIN Tail(p) : Tail(p)[j] = p[i]
        BY <3>2, TailIs
      <4>2. Tail(p)[j].n \in DataIn(Tail(p))
        BY <3>1, <4>1, DataAt
      <4> QED
        BY <3>1, <4>1, <4>2
    <3>3. CASE i = 1
      BY <3>1, <3>3, TailIs
    <3> QED
      BY <3>2, <3>3
  <2>2. ASSUME k \in DataIn(Tail(p)) PROVE k \in DataIn(p)
    <3>1. PICK i \in DOMAIN Tail(p) : Tail(p)[i].kind = "data" /\ Tail(p)[i].n = k
      BY <2>2, DataIs
    <3>2. i + 1 \in DOMAIN p /\ Tail(p)[i] = p[i + 1]
      BY TailIs
    <3> QED
      BY <3>1, <3>2, DataIs
  <2>3. Head(p).n \in DataIn(p)
    BY TailIs, DataIs
  <2> QED
    BY <2>1, <2>2, <2>3
<1>2. EndIn(Tail(p)) <=> EndIn(p)
  <2>1. ASSUME EndIn(p) PROVE EndIn(Tail(p))
    <3>1. PICK i \in DOMAIN p : p[i].kind = "end"
      BY <2>1 DEF EndIn
    <3>2. i # 1
      BY <3>1, TailIs
    <3>3. PICK j \in DOMAIN Tail(p) : Tail(p)[j] = p[i]
      BY <3>2, TailIs
    <3> QED
      BY <3>1, <3>3 DEF EndIn
  <2>2. ASSUME EndIn(Tail(p)) PROVE EndIn(p)
    BY <2>2, TailIs DEF EndIn
  <2> QED
    BY <2>1, <2>2
<1>3. ASSUME NEW k \in DataIn(Tail(p)) PROVE Head(p).n < k
  <2>1. PICK i \in DOMAIN Tail(p) : Tail(p)[i].kind = "data" /\ Tail(p)[i].n = k
    BY <1>3, DataFound
  <2>2. i + 1 \in DOMAIN p /\ p[i + 1] = Tail(p)[i] /\ 1 < i + 1
    BY <2>1, TailIs
  <2> QED
    BY <2>1, <2>2, TailIs DEF Ordered
<1> QED
  BY <1>1, <1>2, <1>3, TailOrdered

LEMMA EndTaken ==
  ASSUME NEW S, NEW p \in Seq(S), p # <<>>, Ordered(p), Head(p).kind = "end"
  PROVE  DataIn(p) = {} /\ DataIn(Tail(p)) = {} /\ EndIn(p) /\ Ordered(Tail(p))
<1>1. ASSUME NEW i \in DOMAIN p, p[i].kind = "data" PROVE FALSE
  <2>1. 1 < i
    BY <1>1, TailIs
  <2> QED
    BY <1>1, <2>1, TailIs DEF Ordered
<1>2. ASSUME NEW k \in DataIn(p) PROVE FALSE
  <2>1. PICK i \in DOMAIN p : p[i].kind = "data" /\ p[i].n = k
    BY <1>2, DataIs
  <2> QED
    BY <1>1, <2>1
<1>3. ASSUME NEW k \in DataIn(Tail(p)) PROVE FALSE
  <2>1. PICK i \in DOMAIN Tail(p) : Tail(p)[i].kind = "data" /\ Tail(p)[i].n = k
    BY <1>3, DataFound
  <2>2. i + 1 \in DOMAIN p /\ Tail(p)[i] = p[i + 1]
    BY TailIs
  <2> QED
    BY <1>1, <2>1, <2>2
<1> QED
  BY <1>2, <1>3, TailIs, TailOrdered DEF EndIn

LEMMA PostIs ==
  ASSUME NEW S, NEW p \in Seq(S), NEW m \in S
  PROVE  /\ p \o <<m>> \in Seq(S)
         /\ Len(p) + 1 \in DOMAIN (p \o <<m>>) /\ (p \o <<m>>)[Len(p) + 1] = m
         /\ \A i \in DOMAIN p : i \in DOMAIN (p \o <<m>>) /\ (p \o <<m>>)[i] = p[i] /\ i < Len(p) + 1
         /\ \A i \in DOMAIN (p \o <<m>>) : i \in DOMAIN p \/ i = Len(p) + 1
         /\ Len(p) \in Nat /\ DOMAIN p \subseteq Nat
OBVIOUS

LEMMA DataPosted ==
  ASSUME NEW S, NEW p \in Seq(S), NEW m \in S, m.kind = "data",
         Ordered(p), ~EndIn(p), \A k \in DataIn(p) : k < m.n
  PROVE  /\ DataIn(p \o <<m>>) = DataIn(p) \cup {m.n}
         /\ ~EndIn(p \o <<m>>) /\ Ordered(p \o <<m>>)
<1> DEFINE q == p \o <<m>>
<1>1. PICK l \in Nat :
        /\ l \in DOMAIN q /\ q[l] = m
        /\ \A i \in DOMAIN p : i \in DOMAIN q /\ q[i] = p[i] /\ i < l
        /\ \A i \in DOMAIN q : i \in DOMAIN p \/ i = l
        /\ DOMAIN p \subseteq Nat
  BY PostIs
<1> HIDE DEF q
<1>2. DataIn(q) = DataIn(p) \cup {m.n}
  BY <1>1, DataIs
<1>3. ~EndIn(q)
  BY <1>1 DEF EndIn
<1>4. Ordered(q)
  <2> SUFFICES ASSUME NEW i \in DOMAIN q, NEW j \in DOMAIN q, i < j, q[j].kind = "data"
               PROVE  q[i].kind # "end" /\ (q[i].kind = "data" => q[i].n < q[j].n)
    BY DEF Ordered
  <2>1. i \in DOMAIN p /\ q[i] = p[i]
    BY <1>1
  <2>2. CASE j \in DOMAIN p
    BY <1>1, <2>1, <2>2 DEF Ordered
  <2>3. CASE j = l
    BY <1>1, <2>1, <2>3, DataIs DEF EndIn
  <2> QED
    BY <1>1, <2>2, <2>3
<1> QED
  BY <1>2, <1>3, <1>4 DEF q

LEMMA EndPosted ==
  ASSUME NEW S, NEW p \in Seq(S), NEW m \in S, m.kind = "end"
  PROVE  /\ DataIn(p \o <<m>>) = DataIn(p)
         /\ EndIn(p \o <<m>>) /\ (Ordered(p) => Ordered(p \o <<m>>))
<1> DEFINE q == p \o <<m>>
<1>1. PICK l \in Nat :
        /\ l \in DOMAIN q /\ q[l] = m
        /\ \A i \in DOMAIN p : i \in DOMAIN q /\ q[i] = p[i] /\ i < l
        /\ \A i \in DOMAIN q : i \in DOMAIN p \/ i = l
        /\ DOMAIN p \subseteq Nat
  BY PostIs
<1> HIDE DEF q
<1>2. ASSUME NEW k PROVE k \in DataIn(q) <=> k \in DataIn(p)
  BY <1>1, DataIs
<1>3. EndIn(q)
  BY <1>1 DEF EndIn
<1>4. Ordered(p) => Ordered(q)
  BY <1>1 DEF Ordered
<1> QED
  BY <1>2, <1>3, <1>4 DEF q

-----------------------------------------------------------------------------
(* Steps that move no chunk.                                                *)

\* the router after a step
RoutesStep ==
  /\ lapse' \in {"none", "forgotten", "renewed"}
  /\ lapse' # "renewed" => lapse # "renewed"
  /\ lapse' = "none" => lapse = "none" /\ subs \subseteq subs'
  /\ lapse' = "forgotten" => subs' = {}

\* the real stream emits nothing
SourceSame ==
  /\ owner' = owner /\ mode' = mode /\ real'.sent = real.sent
  /\ real.state = "ended" => real'.state = "ended"

PortsQuiet ==
  \A w \in Workers : PortKept(toHost[w], toHost'[w]) /\ PortKept(toWorker[w], toWorker'[w])

\* what a step that moves no chunk may do to the proxy of s: nothing ...
Same(s) ==
  /\ proxy'[s].got = proxy[s].got /\ proxy'[s].buffer = proxy[s].buffer
  /\ proxy'[s].state = proxy[s].state /\ proxy'[s].eof = proxy[s].eof
  /\ proxy'[s].saw = proxy[s].saw
  /\ Open(s) => entry'[s] = entry[s]

\* ... end it, with the end of the stream if all was read ...
Gone(s) ==
  /\ Open(s)
  /\ proxy'[s].got = proxy[s].got /\ proxy'[s].buffer = <<>>
  /\ proxy'[s].state = "gone" /\ proxy'[s].eof = proxy[s].eof
  /\ mode = "readable" /\ proxy'[s].saw = "end" /\ proxy[s].saw # "end" =>
       Open(s) /\ proxy[s].eof /\ proxy[s].buffer = <<>>

\* ... create it ...
Fresh(s) ==
  /\ ~Open(s)
  /\ entry'[s] = Opened("proxy")
  /\ proxy'[s].state = "open" /\ proxy'[s].got = <<>> /\ proxy'[s].buffer = <<>>
  /\ proxy'[s].eof = FALSE /\ proxy'[s].saw = "nothing"

\* ... or hand a chunk to the program
Takes(s) ==
  /\ Open(s) /\ proxy[s].buffer # <<>>
  /\ proxy'[s].got = Append(proxy[s].got, Head(proxy[s].buffer))
  /\ proxy'[s].buffer = Tail(proxy[s].buffer)
  /\ proxy'[s].state = proxy[s].state /\ proxy'[s].eof = proxy[s].eof
  /\ proxy'[s].saw = proxy[s].saw
  /\ entry'[s] = entry[s]

Lasts(s) == Same(s) \/ Gone(s) \/ Takes(s)
QuietProxy(s) == Lasts(s) \/ Fresh(s)

LEMMA QuietPorts ==
  ASSUME PortsQuiet, owner' = owner, owner \in Sides, NEW s \in Sides
  PROVE  /\ Ahead' = Ahead /\ (EndAhead' <=> EndAhead) /\ (SrcOrdered => SrcOrdered')
         /\ Coming(s)' = Coming(s) /\ (EndComing(s)' <=> EndComing(s))
         /\ (InOrdered(s) => InOrdered(s)')
<1>1. Ahead' = Ahead /\ (EndAhead' <=> EndAhead) /\ (SrcOrdered => SrcOrdered')
  BY DEF PortsQuiet, PortKept, Ahead, EndAhead, SrcOrdered, Src, Sides
<1>2. Coming(s)' = Coming(s) /\ (EndComing(s)' <=> EndComing(s)) /\ (InOrdered(s) => InOrdered(s)')
  BY DEF PortsQuiet, PortKept, Coming, EndComing, InOrdered, In, Sides
<1> QED
  BY <1>1, <1>2

\* what the program of a proxy got, and what is buffered, as sets
LEMMA RangeIs ==
  ASSUME NEW S, NEW q \in Seq(S)
  PROVE  /\ \A k : k \in Range(q) <=> \E i \in DOMAIN q : q[i] = k
         /\ Range(q) \subseteq S /\ Range(<<>>) = {}
         /\ q # <<>> => Last(q) \in Range(q) /\ \A i \in DOMAIN q : i <= Len(q)
BY DEF Range, Last

LEMMA RangeTail ==
  ASSUME NEW S, NEW q \in Seq(S), q # <<>>
  PROVE  Range(q) = {Head(q)} \cup Range(Tail(q))
<1>1. ASSUME NEW k \in Range(q) PROVE k = Head(q) \/ k \in Range(Tail(q))
  <2>1. PICK i \in DOMAIN q : q[i] = k
    BY <1>1, RangeIs
  <2>2. CASE i # 1
    <3>1. PICK j \in DOMAIN Tail(q) : Tail(q)[j] = q[i]
      BY <2>2, TailIs
    <3>2. Tail(q) \in Seq(S)
      BY TailIs
    <3> QED
      BY <2>1, <3>1, <3>2, RangeIs
  <2> QED
    BY <2>1, <2>2, TailIs
<1>2. ASSUME NEW k \in Range(Tail(q)) PROVE k \in Range(q)
  <2>1. Tail(q) \in Seq(S)
    BY TailIs
  <2>2. PICK i \in DOMAIN Tail(q) : Tail(q)[i] = k
    BY <1>2, <2>1, RangeIs
  <2> QED
    BY <2>2, TailIs, RangeIs
<1>3. Head(q) \in Range(q)
  BY TailIs, RangeIs
<1>4. ASSUME NEW k PROVE k \in Range(q) <=> k \in {Head(q)} \cup Range(Tail(q))
  BY <1>1, <1>2, <1>3
<1> QED
  BY <1>4

LEMMA RangeAppend ==
  ASSUME NEW S, NEW q \in Seq(S), NEW e \in S
  PROVE  Range(Append(q, e)) = Range(q) \cup {e}
<1>1. /\ DOMAIN Append(q, e) = 1..Len(q) + 1 /\ DOMAIN q = 1..Len(q)
      /\ Append(q, e)[Len(q) + 1] = e
      /\ \A i \in 1..Len(q) : Append(q, e)[i] = q[i]
      /\ Append(q, e) \in Seq(S) /\ Len(q) \in Nat
  OBVIOUS
<1> DEFINE A == Range(Append(q, e))
           B == Range(q) \cup {e}
<1>4. DOMAIN Append(q, e) = DOMAIN q \cup {Len(q) + 1}
  <2>1. \A N \in Nat : 1..N + 1 = (1..N) \cup {N + 1}
    OBVIOUS
  <2> QED
    BY <1>1, <2>1
<1>5. \A k : k \in A <=> \E i \in DOMAIN Append(q, e) : Append(q, e)[i] = k
  BY DEF Range
<1>6. \A k : k \in Range(q) <=> \E i \in DOMAIN q : q[i] = k
  BY RangeIs
<1> HIDE DEF A
<1>2. ASSUME NEW k PROVE k \in A <=> k \in B
  BY <1>1, <1>4, <1>5, <1>6
<1> HIDE DEF B
<1>3. A = B
  BY <1>2
<1> QED
  BY <1>3 DEF A, B

LEMMA AscendingTail ==
  ASSUME NEW q \in Seq(Nat), q # <<>>, Ascending(q)
  PROVE  /\ Ascending(Tail(q))
         /\ \A k \in Range(Tail(q)) : Head(q) < k
<1>1. \A i, j \in DOMAIN Tail(q) : i < j => i + 1 < j + 1
  BY TailIs
<1>2. Ascending(Tail(q))
  BY <1>1, TailIs DEF Ascending
<1>3. ASSUME NEW k \in Range(Tail(q)) PROVE Head(q) < k
  <2>1. Tail(q) \in Seq(Nat)
    BY TailIs
  <2>2. PICK i \in DOMAIN Tail(q) : Tail(q)[i] = k
    BY <1>3, <2>1, RangeIs
  <2>3. i + 1 \in DOMAIN q /\ Tail(q)[i] = q[i + 1] /\ 1 < i + 1
    BY TailIs
  <2> QED
    BY <2>2, <2>3, TailIs DEF Ascending
<1> QED
  BY <1>2, <1>3

LEMMA AscendingAppend ==
  ASSUME NEW q \in Seq(Nat), NEW e \in Nat, Ascending(q), \A k \in Range(q) : k < e
  PROVE  Ascending(Append(q, e))
<1>1. /\ DOMAIN Append(q, e) = 1..Len(q) + 1 /\ DOMAIN q = 1..Len(q)
      /\ Append(q, e)[Len(q) + 1] = e
      /\ \A i \in 1..Len(q) : Append(q, e)[i] = q[i] /\ q[i] \in Range(q)
      /\ Len(q) \in Nat
  BY RangeIs
<1> QED
  BY <1>1 DEF Ascending

\* the last of ascending numbers is the greatest
LEMMA LastIsGreatest ==
  ASSUME NEW q \in Seq(Nat), Ascending(q), NEW n \in Range(q), \A k \in Range(q) : k <= n
  PROVE  Last(q) = n
<1>1. PICK i \in DOMAIN q : q[i] = n
  BY RangeIs
<1>2. Len(q) \in DOMAIN q /\ i <= Len(q) /\ q[Len(q)] \in Range(q) /\ Len(q) \in Nat /\ i \in Nat
  BY <1>1, RangeIs
<1>3. CASE i < Len(q)
  BY <1>1, <1>2, <1>3 DEF Ascending
<1> QED
  BY <1>1, <1>2, <1>3 DEF Last

LEMMA ChunksAre ==
  ASSUME TypeOK, NEW s \in Sides
  PROVE  /\ proxy[s].got \in Seq(Nat) /\ proxy[s].buffer \in Seq(Nat)
         /\ proxy[s].got \in Seq(1..Chunks) /\ proxy[s].buffer \in Seq(1..Chunks)
         /\ Got(s) \subseteq Nat /\ Buffered(s) \subseteq Nat /\ Had(s) \subseteq Nat
         /\ proxy[s].eof \in BOOLEAN /\ real.sent \in 0..Chunks /\ real.sent \in Nat /\ Chunks \in Nat
<1>1. proxy[s].got \in Seq(1..Chunks) /\ proxy[s].buffer \in Seq(1..Chunks)
  BY ProxyIs
<1>2. proxy[s].got \in Seq(Nat) /\ proxy[s].buffer \in Seq(Nat)
  BY <1>1, StreamAssumption
<1>3. Got(s) \subseteq Nat /\ Buffered(s) \subseteq Nat
  BY <1>2, RangeIs DEF Got, Buffered
<1>4. real.sent \in 0..Chunks /\ Chunks \in Nat
  BY StreamAssumption DEF TypeOK, Reals
<1> QED
  BY <1>1, <1>2, <1>3, <1>4, ProxyIs DEF Had

LEMMA NothingRead == Range(<<>>) = {} /\ Ascending(<<>>)
BY DEF Range, Ascending

\* what a step that moves no chunk leaves of what a side had
Left(s) ==
  /\ ProxyOK(s)'
  /\ Had(s)' \subseteq Had(s)
  /\ Open(s)' => Had(s)' = {} \/ (Had(s)' = Had(s) /\ Open(s))
  /\ Gapless(Had(s)) => Gapless(Had(s)')
  /\ proxy'[s].eof => proxy[s].eof

LEMMA SameLeaves ==
  ASSUME TypeOK, NEW s \in Sides, ProxyOK(s), Same(s)
  PROVE  Left(s)
<1>1. Got(s)' = Got(s) /\ Buffered(s)' = Buffered(s) /\ Had(s)' = Had(s) /\ (Open(s)' <=> Open(s))
  BY DEF Same, Got, Buffered, Had, Open
<1>2. ProxyOK(s)'
  BY <1>1 DEF Same, ProxyOK, Open
<1> QED
  BY <1>1, <1>2 DEF Left, Same

LEMMA GoneLeaves ==
  ASSUME TypeOK, NEW s \in Sides, ProxyOK(s), Gone(s)
  PROVE  Left(s) /\ Had(s)' = Got(s)
<1>1. Got(s)' = Got(s) /\ Buffered(s)' = {} /\ ~Open(s)'
  BY NothingRead DEF Gone, Got, Buffered, Open
<1>2. Had(s)' = Got(s) /\ Got(s) \subseteq Had(s)
  BY <1>1 DEF Had
<1>3. ProxyOK(s)'
  BY <1>1, NothingRead DEF Gone, ProxyOK, Behind, Open
<1>4. Gapless(Had(s)) => Gapless(Got(s))
  <2> SUFFICES ASSUME Gapless(Had(s)), NEW a \in Got(s), NEW b \in Got(s), NEW k \in a..b
               PROVE  k \in Got(s)
    BY DEF Gapless
  <2>1. k \in Had(s)
    BY DEF Gapless, Had
  <2>2. ASSUME k \in Buffered(s) PROVE FALSE
    BY <2>2, ChunksAre DEF ProxyOK, Behind
  <2> QED
    BY <2>1, <2>2 DEF Had
<1> QED
  BY <1>1, <1>2, <1>3, <1>4 DEF Left, Gone

LEMMA FreshLeaves ==
  ASSUME TypeOK, NEW s \in Sides, ProxyOK(s), Fresh(s)
  PROVE  Left(s) /\ Had(s)' = {}
<1>1. Got(s)' = {} /\ Buffered(s)' = {} /\ Open(s)'
  BY NothingRead DEF Fresh, Got, Buffered, Open
<1>2. Had(s)' = {}
  BY <1>1 DEF Had
<1>3. ProxyOK(s)'
  BY <1>1, NothingRead DEF Fresh, ProxyOK, Behind, Open
<1>4. Gapless({}) /\ proxy'[s].eof = FALSE
  BY DEF Gapless, Fresh
<1> QED
  BY <1>2, <1>3, <1>4 DEF Left

LEMMA TakesLeaves ==
  ASSUME TypeOK, NEW s \in Sides, ProxyOK(s), Takes(s)
  PROVE  Left(s) /\ Had(s)' = Had(s)
<1> DEFINE g == proxy[s].got
           b == proxy[s].buffer
<1>1. /\ g \in Seq(Nat) /\ b \in Seq(Nat) /\ b # <<>> /\ Head(b) \in Nat /\ Tail(b) \in Seq(Nat)
      /\ Ascending(g) /\ Ascending(b)
      /\ \A x \in Range(g), y \in Range(b) : x < y
  BY ChunksAre, SeqParts DEF Takes, ProxyOK, Behind, Got, Buffered
<1>2. proxy'[s].got = Append(g, Head(b)) /\ proxy'[s].buffer = Tail(b)
  BY DEF Takes
<1> HIDE DEF g, b
<1>3. Range(b) = {Head(b)} \cup Range(Tail(b))
  BY <1>1, RangeTail
<1>4. Range(Append(g, Head(b))) = Range(g) \cup {Head(b)}
  BY <1>1, RangeAppend
<1>5. Ascending(Append(g, Head(b)))
  BY <1>1, <1>3, AscendingAppend
<1>6. Ascending(Tail(b)) /\ \A k \in Range(Tail(b)) : Head(b) < k
  BY <1>1, AscendingTail
<1>7. Behind(Range(g) \cup {Head(b)}, Range(Tail(b)))
  BY <1>1, <1>3, <1>6 DEF Behind
<1>8. Got(s)' = Range(g) \cup {Head(b)} /\ Buffered(s)' = Range(Tail(b))
  BY <1>2, <1>4 DEF Got, Buffered
<1>9. Had(s)' = Had(s)
  BY <1>3, <1>8 DEF Had, Got, Buffered, g, b
<1>10. Open(s)' /\ Open(s)
  BY DEF Takes, Open
<1>11. ProxyOK(s)'
  BY <1>2, <1>5, <1>6, <1>7, <1>8, <1>10 DEF ProxyOK, Takes, Open
<1> QED
  BY <1>9, <1>10, <1>11 DEF Left, Takes

LEMMA QuietLeaves ==
  ASSUME TypeOK, NEW s \in Sides, ProxyOK(s), QuietProxy(s)
  PROVE  Left(s)
BY SameLeaves, GoneLeaves, FreshLeaves, TakesLeaves DEF QuietProxy, Lasts

\* a proxy that comes to the end of what it has had the last chunk
LEMMA EndSeen ==
  ASSUME TypeOK, NEW s \in Sides, SideOK(s), Open(s), proxy[s].eof, proxy[s].buffer = <<>>
  PROVE  /\ real.state = "ended"
         /\ lapse # "renewed" /\ proxy[s].got # <<>> => Last(proxy[s].got) = real.sent
<1>1. real.state = "ended"
  BY DEF SideOK, OrderOK, Told
<1>2. ASSUME lapse # "renewed", proxy[s].got # <<>> PROVE Last(proxy[s].got) = real.sent
  <2>1. Had(s) = Got(s)
    BY NothingRead DEF Had, Buffered
  <2>2. Got(s) # {}
    BY <1>2, ChunksAre, RangeIs DEF Got
  <2>3. real.sent \in Got(s)
    BY <1>2, <2>1, <2>2 DEF SideOK, OrderOK, GaplessOK, Told
  <2>4. \A k \in Got(s) : k <= real.sent
    BY <2>1, ChunksAre DEF SideOK, OrderOK
  <2> QED
    BY <2>3, <2>4, ChunksAre, LastIsGreatest DEF Got, SideOK, ProxyOK
<1> QED
  BY <1>1, <1>2

LEMMA QuietSees ==
  ASSUME TypeOK, NEW s \in Sides, SideOK(s), QuietProxy(s), SourceSame,
         mode = "readable", proxy'[s].saw = "end"
  PROVE  /\ real.state = "ended"
         /\ lapse # "renewed" /\ proxy'[s].got # <<>> => Last(proxy'[s].got) = real.sent
<1>1. CASE proxy[s].saw = "end"
  <2>1. ~Open(s)
    BY <1>1 DEF SideOK, ProxyOK
  <2>2. proxy'[s].got = proxy[s].got
    BY <2>1 DEF QuietProxy, Lasts, Same, Gone, Fresh, Takes
  <2> QED
    BY <1>1, <2>2 DEF SideOK, OrderOK, GaplessOK
<1>2. CASE proxy[s].saw # "end"
  <2>1. Gone(s) /\ proxy'[s].got = proxy[s].got
    BY <1>2 DEF QuietProxy, Lasts, Same, Gone, Fresh, Takes
  <2> QED
    BY <1>2, <2>1, EndSeen DEF Gone
<1> QED
  BY <1>1, <1>2

\* nothing changes in the ports that s reads from, or that the host reads from
QuietIn(s) ==
  /\ Ahead' = Ahead /\ Coming(s)' = Coming(s)
  /\ EndComing(s)' <=> EndComing(s)
  /\ InOrdered(s)'

LEMMA QuietSide ==
  ASSUME TypeOK, SourceSame, RoutesStep, NEW s \in Sides, SideOK(s), QuietIn(s), QuietProxy(s)
  PROVE  SideOK(s)'
<1>1. /\ Ahead' = Ahead /\ Coming(s)' = Coming(s) /\ (EndComing(s)' <=> EndComing(s))
      /\ InOrdered(s)'
  BY DEF QuietIn
<1>2. Left(s)
  BY QuietLeaves DEF SideOK
<1>3. Told(s)' => Told(s)
  BY <1>1, <1>2 DEF Told, Left
<1>4. OrderOK(s)'
  <2>1. Coming(s)' \subseteq 1..real'.sent /\ Had(s)' \subseteq 1..real'.sent
    BY <1>1, <1>2 DEF SideOK, OrderOK, Left, SourceSame
  <2>2. Behind(Coming(s), Ahead)' /\ Behind(Had(s), Ahead)' /\ Behind(Had(s), Coming(s))'
    BY <1>1, <1>2 DEF SideOK, OrderOK, Left, Behind
  <2>3. proxy'[s].eof => Coming(s)' = {}
    BY <1>1, <1>2 DEF SideOK, OrderOK, Left
  <2>4. Told(s)' => real'.state = "ended" /\ Ahead' = {}
    BY <1>1, <1>3 DEF SideOK, OrderOK, SourceSame
  <2>5. mode' = "readable" /\ proxy'[s].saw = "end" => real'.state = "ended"
    BY QuietSees DEF SourceSame
  <2> QED
    BY <1>1, <2>1, <2>2, <2>3, <2>4, <2>5 DEF OrderOK
<1>5. ASSUME lapse' # "renewed" PROVE GaplessOK(s)'
  <2>1. GaplessOK(s)
    BY <1>5 DEF SideOK, RoutesStep
  <2>2. Gapless(Coming(s))' /\ Gapless(Had(s))' /\ (Open(s)' => Gapless(Had(s) \cup Coming(s))')
    BY <1>1, <1>2, <2>1 DEF GaplessOK, Left, Gapless
  <2>3. s \in subs' => /\ Onward(Coming(s), Ahead)'
                       /\ Open(s)' => Onward(Had(s), Coming(s) \cup Ahead)'
    <3> SUFFICES ASSUME s \in subs'
                 PROVE  Onward(Coming(s), Ahead)' /\ (Open(s)' => Onward(Had(s), Coming(s) \cup Ahead)')
      OBVIOUS
    <3>1. lapse = "none"
      BY <1>5 DEF RoutesStep
    <3>2. s \in subs \/ (Coming(s) = {} /\ Had(s) = {})
      BY <2>1, <3>1 DEF GaplessOK
    <3> QED
      BY <1>1, <1>2, <2>1, <3>2 DEF GaplessOK, Left, Onward, SourceSame
  <2>4. lapse' = "none" /\ s \notin subs' => Coming(s)' = {} /\ Had(s)' = {}
    BY <1>1, <1>2, <2>1 DEF GaplessOK, Left, RoutesStep
  <2>5. Told(s)' => /\ Coming(s)' # {} => real'.sent \in Coming(s)'
                    /\ Open(s)' /\ Had(s)' # {} => real'.sent \in Had(s)' \cup Coming(s)'
    BY <1>1, <1>2, <1>3, <2>1 DEF GaplessOK, Left, SourceSame
  <2>6. mode' = "readable" /\ proxy'[s].saw = "end" /\ proxy'[s].got # <<>> =>
          Last(proxy'[s].got) = real'.sent
    BY <1>5, QuietSees DEF SourceSame, RoutesStep
  <2> QED
    BY <2>2, <2>3, <2>4, <2>5, <2>6 DEF GaplessOK, RoutesStep
<1> QED
  BY <1>2, <1>4, <1>5 DEF SideOK, Left

LEMMA RoutesAfter ==
  ASSUME TypeOK, ChunkInv,
         UNCHANGED routes \/ UnsubscribeAll \/ \E ws : Subscribe(ws)
  PROVE  RoutesStep
<1>1. lapse = "forgotten" => subs = {}
  BY DEF ChunkInv, SideOK, GaplessOK, Sides
<1> QED
  BY <1>1 DEF RoutesStep, Subscribe, UnsubscribeAll, routes, TypeOK

LEMMA QuietSource ==
  ASSUME TypeOK, SourceOK, SourceSame,
         \A w \in Workers : PortKept(toHost[w], toHost'[w]),
         owner = Host => Had(Host)' \subseteq Had(Host)
  PROVE  SourceOK' /\ Ahead' = Ahead
<1>1. Ahead' = Ahead /\ (EndAhead' <=> EndAhead) /\ (SrcOrdered => SrcOrdered')
  BY DEF TypeOK, SourceSame, PortKept, Ahead, EndAhead, SrcOrdered, Src, Sides
<1>2. \A w \in Workers \ {owner'} : DataIn(toHost'[w]) = {} /\ ~EndIn(toHost'[w])
  BY DEF SourceOK, SourceSame, PortKept
<1>3. owner' = Host => Had(Host)' = {}
  BY DEF SourceOK, SourceSame
<1>4. /\ \A n \in Ahead' : n..real'.sent \subseteq Ahead'
      /\ Ahead' \subseteq 1..real'.sent
      /\ EndAhead' => real'.state = "ended"
  BY <1>1 DEF SourceOK, SourceSame
<1> QED
  BY <1>1, <1>2, <1>3, <1>4 DEF SourceOK

LEMMA QuietStep ==
  ASSUME TypeOK, ChunkInv, PortsOK', SourceSame, RoutesStep, PortsQuiet,
         \A s \in Sides : QuietProxy(s)
  PROVE  ChunkInv'
<1>1. ASSUME NEW s \in Sides PROVE SideOK(s)'
  <2>1. QuietIn(s)
    BY QuietPorts DEF QuietIn, SourceSame, TypeOK, ChunkInv, SideOK, OrderOK
  <2> QED
    BY <2>1, QuietSide DEF ChunkInv
<1>2. Had(Host)' \subseteq Had(Host)
  BY QuietLeaves DEF Left, ChunkInv, SideOK, Sides
<1>3. SourceOK'
  BY <1>2, QuietSource DEF ChunkInv, PortsQuiet
<1> QED
  BY <1>1, <1>3 DEF ChunkInv

LEMMA PortSame == \A p : PortKept(p, p)
BY DEF PortKept

LEMMA PortKeptOn ==
  ASSUME NEW p, NEW q, NEW r, PortKept(p, q), PortKept(q, r)
  PROVE  PortKept(p, r)
BY DEF PortKept

LEMMA PlainOnes ==
  ASSUME NEW m
  PROVE  Plain(<<>>) /\ (PlainMessage(m) => Plain(<<m>>))
BY DEF Plain

LEMMA PlainSignals ==
  ASSUME NEW kind, kind \notin {"data", "end"}
  PROVE  Plain(<<Signal(kind)>>) /\ \A n, s : PlainMessage(MsgOf(kind, n, s)) /\ PlainMessage(Msg(kind, n))
BY DEF Plain, PlainMessage, Signal, MsgOf, Msg

LEMMA HostPostsQuiet ==
  ASSUME PortsOK, NEW ws, NEW m \in Messages(mode), PlainMessage(m),
         NEW ms \in Seq(Messages(mode)), Plain(ms), HostPosts(ws, m, ms), NEW w \in Workers
  PROVE  PortKept(toWorker[w], toWorker'[w])
<1>1. PICK a \in Seq(Messages(mode)) : Plain(a) /\ a = IF w \in ws THEN <<m>> ELSE <<>>
  <2>1. <<m>> \in Seq(Messages(mode)) /\ <<>> \in Seq(Messages(mode))
    OBVIOUS
  <2> QED
    BY <2>1, PlainOnes
<1>2. PICK b \in Seq(Messages(mode)) : Plain(b) /\ b = IF w = owner THEN ms ELSE <<>>
  <2>1. <<>> \in Seq(Messages(mode))
    OBVIOUS
  <2> QED
    BY <2>1, PlainOnes
<1>3. toWorker'[w] = (toWorker[w] \o a) \o b /\ toWorker[w] \in Seq(Messages(mode))
  BY <1>1, <1>2 DEF HostPosts, PortsOK
<1>4. toWorker[w] \o a \in Seq(Messages(mode))
  BY <1>3
<1>5. PortKept(toWorker[w], toWorker[w] \o a)
  BY <1>1, <1>3, AppendKept
<1>6. PortKept(toWorker[w] \o a, (toWorker[w] \o a) \o b)
  BY <1>2, <1>4, AppendKept
<1> QED
  BY <1>3, <1>5, <1>6, PortKeptOn

LEMMA WorkerPostsQuiet ==
  ASSUME PortsOK, NEW v \in Workers, NEW ms \in Seq(Messages(mode)), Plain(ms),
         WorkerPosts(v, ms), NEW w \in Workers
  PROVE  PortKept(toHost[w], toHost'[w])
<1>1. CASE w = v
  BY <1>1, AppendKept DEF WorkerPosts, PortsOK
<1>2. CASE w # v
  BY <1>2, PortSame DEF WorkerPosts, PortsOK
<1> QED
  BY <1>1, <1>2

LEMMA TakenQuiet ==
  ASSUME PortsOK, NEW v \in Workers, NEW w \in Workers
  PROVE  /\ toHost[v] # <<>> /\ PlainMessage(Head(toHost[v]))
              /\ toHost' = [toHost EXCEPT ![v] = Tail(@)] =>
            PortKept(toHost[w], toHost'[w])
         /\ toWorker[v] # <<>> /\ PlainMessage(Head(toWorker[v]))
              /\ toWorker' = [toWorker EXCEPT ![v] = Tail(@)] =>
            PortKept(toWorker[w], toWorker'[w])
<1> toHost[w] \in Seq(Messages(mode)) /\ toWorker[w] \in Seq(Messages(mode))
  BY DEF PortsOK
<1>1. /\ toHost[w] # <<>> /\ PlainMessage(Head(toHost[w])) => PortKept(toHost[w], Tail(toHost[w]))
      /\ toWorker[w] # <<>> /\ PlainMessage(Head(toWorker[w])) => PortKept(toWorker[w], Tail(toWorker[w]))
  BY TailKept
<1> QED
  BY <1>1, PortSame DEF PortsOK

LEMMA ToOwnerQuiet ==
  ASSUME PortsOK, NEW s \in Sides, NEW ms \in Seq(Messages(mode)), Plain(ms), ToOwner(s, ms)
  PROVE  PortsQuiet
<1>1. CASE s = Host
  <2>1. Signal("close") \in Messages(mode) /\ PlainMessage(Signal("close"))
    BY MessageIs DEF Kinds, Sides, PlainMessage, Signal, Msg
  <2>2. HostPosts({}, Signal("close"), ms) /\ toHost' = toHost
    BY <1>1 DEF ToOwner
  <2> QED
    BY <2>1, <2>2, HostPostsQuiet, PortSame DEF PortsQuiet
<1>2. CASE s # Host
  BY <1>2, WorkerPostsQuiet, PortSame DEF ToOwner, PortsQuiet, Sides
<1> QED
  BY <1>1, <1>2

LEMMA ToConsumersQuiet ==
  ASSUME PortsOK, owner \in Sides, NEW m \in Messages(mode), PlainMessage(m), ToConsumers(m)
  PROVE  PortsQuiet
<1>1. <<>> \in Seq(Messages(mode)) /\ <<m>> \in Seq(Messages(mode))
  OBVIOUS
<1>2. Plain(<<m>>) /\ Plain(<<>>)
  BY PlainOnes
<1>3. CASE owner = Host
  BY <1>1, <1>2, <1>3, HostPostsQuiet, PortSame DEF ToConsumers, PortsQuiet
<1>4. CASE owner # Host
  BY <1>1, <1>2, <1>4, WorkerPostsQuiet, PortSame DEF ToConsumers, PortsQuiet, Sides
<1> QED
  BY <1>3, <1>4

\* the proxies and entries other than those of s stay as they are
OthersKept(s) == \A t \in Sides \ {s} : proxy'[t] = proxy[t] /\ entry'[t] = entry[t]

LEMMA OnlyOne ==
  ASSUME NEW s \in Sides, OthersKept(s)
  PROVE  /\ QuietProxy(s) => \A t \in Sides : QuietProxy(t)
         /\ Lasts(s) => \A t \in Sides : Lasts(t)
BY DEF OthersKept, QuietProxy, Lasts, Same

LEMMA DestroyedGone ==
  ASSUME TypeOK, NEW s \in Sides, NEW why, Open(s), proxy' = [proxy EXCEPT ![s] = Destroyed(s, why)],
         why = "end" /\ mode = "readable" => proxy[s].eof /\ proxy[s].buffer = <<>>
  PROVE  Gone(s) /\ \A t \in Sides \ {s} : proxy'[t] = proxy[t]
<1>1. proxy[s] \in Proxies
  BY ProxyIs
<1>2. proxy'[s] = Destroyed(s, why)
  BY DEF TypeOK
<1>3. /\ proxy'[s].got = proxy[s].got /\ proxy'[s].buffer = <<>> /\ proxy'[s].state = "gone"
      /\ proxy'[s].eof = proxy[s].eof
      /\ proxy'[s].saw = IF proxy[s].saw = "nothing" THEN why ELSE proxy[s].saw
  <2>1. PICK p \in Proxies : p = proxy[s]
    BY <1>1
  <2> DEFINE y == IF p.saw = "nothing" THEN why ELSE p.saw
             q == [p EXCEPT !.state = "gone", !.buffer = <<>>, !.reading = FALSE, !.saw = y]
  <2>2. proxy'[s] = q
    BY <1>2, <2>1 DEF Destroyed
  <2> HIDE DEF y
  <2>3. q.got = p.got /\ q.buffer = <<>> /\ q.state = "gone" /\ q.eof = p.eof /\ q.saw = y
    BY <2>1 DEF Proxies
  <2> HIDE DEF q
  <2> QED
    BY <2>1, <2>2, <2>3 DEF y
<1>4. Gone(s)
  BY <1>3 DEF Gone
<1> QED
  BY <1>4 DEF TypeOK

LEMMA HandleQuiet ==
  ASSUME TypeOK, ChunkInv, NEW s \in Sides, NEW m \in Messages(mode), PlainMessage(m),
         Handle(s, m), owner' = owner, mode' = mode
  PROVE  SourceSame /\ \A t \in Sides : Lasts(t)
<1>1. proxy[s] \in Proxies /\ entry[s] \in Entries /\ real \in Reals
  BY ProxyIs DEF TypeOK
<1>2. Open(s) => entry[s] = Opened("proxy") /\ Receives(s) /\ Tracks(s) /\ ~IsOwner(s)
  BY DEF ChunkInv, SideOK, ProxyOK, Receives, Tracks, IsOwner, Opened
<1>3. CASE OnRemoteError(s)
  <2>1. SourceSame
    BY <1>3 DEF OnRemoteError, SourceSame
  <2>2. \A t \in Sides \ {s} : entry'[t] = entry[t]
    BY <1>3 DEF OnRemoteError, TypeOK
  <2>3. CASE Open(s)
    <3>1. proxy' = [proxy EXCEPT ![s] = Destroyed(s, "error")] \/ UNCHANGED <<entry, proxy>>
      BY <1>2, <1>3, <2>3 DEF OnRemoteError
    <3>2. Lasts(s) /\ \A t \in Sides \ {s} : proxy'[t] = proxy[t]
      BY <3>1, <2>3, DestroyedGone DEF Lasts, Same
    <3> QED
      BY <2>1, <2>2, <3>2, OnlyOne DEF OthersKept
  <2>4. CASE ~Open(s)
    <3>1. proxy' = proxy
      BY <1>3, <2>4 DEF OnRemoteError
    <3>2. Lasts(s)
      BY <2>4, <3>1 DEF Lasts, Same
    <3> QED
      BY <2>1, <2>2, <3>1, <3>2, OnlyOne DEF OthersKept
  <2> QED
    BY <2>3, <2>4
<1>4. CASE OnFlow(s, TRUE) \/ OnFlow(s, FALSE)
  <2>1. SourceSame
    BY <1>1, <1>4 DEF OnFlow, SourceSame, Reals
  <2>2. UNCHANGED <<entry, proxy>>
    BY <1>4 DEF OnFlow
  <2> QED
    BY <2>1, <2>2 DEF Lasts, Same
<1>5. CASE OnWrite(s, m)
  <2>1. SourceSame
    BY <1>1, <1>5 DEF OnWrite, SourceSame, Reals
  <2>2. UNCHANGED <<entry, proxy>>
    BY <1>5 DEF OnWrite
  <2> QED
    BY <2>1, <2>2 DEF Lasts, Same
<1>6. CASE \E ok \in BOOLEAN : m.kind \in WriteKinds /\ OnWriteResult(s, m, ok)
  <2>1. SourceSame /\ UNCHANGED entry
    BY <1>6 DEF OnWriteResult, SourceSame
  <2>2. mode = "writable"
    BY <1>6 DEF Messages
  <2>3. /\ proxy'[s].got = proxy[s].got /\ proxy'[s].eof = proxy[s].eof
        /\ \/ /\ proxy'[s].buffer = proxy[s].buffer /\ proxy'[s].state = proxy[s].state
              /\ proxy'[s].saw = proxy[s].saw
           \/ proxy'[s].buffer = <<>> /\ proxy'[s].state = "gone" /\ Open(s)
        /\ \A t \in Sides \ {s} : proxy'[t] = proxy[t]
    BY <1>1, <1>6 DEF OnWriteResult, Destroyed, Open, TypeOK, Proxies
  <2>4. Same(s) \/ Gone(s)
    BY <2>1, <2>2, <2>3 DEF Same, Gone
  <2> QED
    BY <2>1, <2>3, <2>4, OnlyOne DEF OthersKept, Lasts
<1>7. CASE OnClose(s)
  <2>1. SourceSame
    BY <1>1, <1>7 DEF OnClose, SourceSame, Reals
  <2>2. \A t \in Sides \ {s} : entry'[t] = entry[t]
    BY <1>7 DEF OnClose, TypeOK
  <2>3. CASE Open(s)
    <3>1. proxy' = [proxy EXCEPT ![s] = Destroyed(s, "cut")] \/ UNCHANGED <<entry, proxy>>
      BY <1>2, <1>7, <2>3 DEF OnClose
    <3>2. Lasts(s) /\ \A t \in Sides \ {s} : proxy'[t] = proxy[t]
      BY <3>1, <2>3, DestroyedGone DEF Lasts, Same
    <3> QED
      BY <2>1, <2>2, <3>2, OnlyOne DEF OthersKept
  <2>4. CASE ~Open(s)
    <3>1. proxy' = proxy
      BY <1>7, <2>4 DEF OnClose
    <3>2. Lasts(s)
      BY <2>4, <3>1 DEF Lasts, Same
    <3> QED
      BY <2>1, <2>2, <3>1, <3>2, OnlyOne DEF OthersKept
  <2> QED
    BY <2>3, <2>4
<1> QED
  BY <1>3, <1>4, <1>5, <1>6, <1>7 DEF Handle, PlainMessage, WriteKinds

LEMMA HandleUnchanged ==
  ASSUME UNCHANGED <<entry, streamVars>>, owner' = owner, mode' = mode
  PROVE  SourceSame /\ \A t \in Sides : Lasts(t)
BY DEF SourceSame, Lasts, Same, streamVars

\* answers carry no chunk
LEMMA AnswerPlain ==
  ASSUME NEW s, NEW m
  PROVE  Plain(Answer(s, m))
BY PlainSignals, PlainOnes DEF Answer

LEMMA WorkerHandlesQuiet ==
  ASSUME TypeOK, ChunkInv, PortsOK', NEW w \in Workers, WorkerHandles(w),
         PlainMessage(Head(toWorker[w]))
  PROVE  ChunkInv'
<1> DEFINE m == Head(toWorker[w])
<1>1. w \in Sides /\ m \in Messages(mode) /\ PortsOK /\ Answer(w, m) \in Seq(Messages(mode))
  BY Taken, AnswerTyped DEF Sides, ChunkInv, WorkerHandles
<1>2. Handle(w, m) /\ owner' = owner /\ mode' = mode
  BY DEF WorkerHandles
<1> HIDE DEF m
<1>3. SourceSame /\ \A t \in Sides : Lasts(t)
  BY <1>1, <1>2, HandleQuiet DEF m
<1>4. RoutesStep
  BY RoutesAfter DEF WorkerHandles
<1>5. \A v \in Workers : PortKept(toHost[v], toHost'[v])
  BY <1>1, AnswerPlain, WorkerPostsQuiet DEF WorkerHandles, m
<1>6. \A v \in Workers : PortKept(toWorker[v], toWorker'[v])
  BY <1>1, TakenQuiet DEF WorkerHandles
<1> QED
  BY <1>3, <1>4, <1>5, <1>6, QuietStep DEF PortsQuiet, QuietProxy

LEMMA HostHandlesQuiet ==
  ASSUME TypeOK, ChunkInv, PortsOK', NEW w \in Workers, HostHandles(w),
         PlainMessage(Head(toHost[w]))
  PROVE  ChunkInv'
<1> DEFINE m == Head(toHost[w])
           ms == IF Host \in Targets(m) THEN Answer(Host, m) ELSE <<>>
<1>1. Host \in Sides /\ m \in Messages(mode) /\ PortsOK /\ ms \in Seq(Messages(mode))
  <2>1. <<>> \in Seq(Messages(mode))
    OBVIOUS
  <2> QED
    BY <2>1, Taken, AnswerTyped DEF Sides, ChunkInv, HostHandles
<1>2. /\ Handle(Host, m) \/ UNCHANGED <<entry, streamVars>>
      /\ HostPosts(Targets(m), m, ms)
      /\ owner' = owner /\ mode' = mode
  BY DEF HostHandles
<1>3. Plain(ms)
  BY AnswerPlain, PlainOnes
<1>4. RoutesStep
  BY RoutesAfter DEF HostHandles
<1>5. \A v \in Workers : PortKept(toHost[v], toHost'[v])
  BY <1>1, TakenQuiet DEF HostHandles
<1> HIDE DEF ms
<1>6. \A v \in Workers : PortKept(toWorker[v], toWorker'[v])
  BY <1>1, <1>2, <1>3, HostPostsQuiet
<1> HIDE DEF m
<1>7. SourceSame /\ \A t \in Sides : Lasts(t)
  BY <1>1, <1>2, HandleQuiet, HandleUnchanged DEF m
<1> QED
  BY <1>4, <1>5, <1>6, <1>7, QuietStep DEF PortsQuiet, QuietProxy

LEMMA CreateProxyQuiet ==
  ASSUME TypeOK, ChunkInv, NEW s \in Sides, NEW used \in BOOLEAN, CreateProxy(s, used)
  PROVE  \A t \in Sides : QuietProxy(t)
<1>1. proxy[s] \in Proxies
  BY ProxyIs
<1>2. OthersKept(s)
  BY DEF CreateProxy, OthersKept, TypeOK
<1>3. CASE entry[s].kind = "proxy"
  <2>1. proxy' = [proxy EXCEPT ![s].used = @ \/ used] /\ entry' = entry
    BY <1>3 DEF CreateProxy
  <2>2. Same(s)
    BY <1>1, <2>1 DEF Same, TypeOK, Proxies
  <2> QED
    BY <1>2, <2>2, OnlyOne DEF QuietProxy, Lasts
<1>4. CASE entry[s].kind # "proxy"
  <2>1. ~Open(s)
    BY <1>4 DEF ChunkInv, SideOK, ProxyOK, Opened
  <2>2. entry'[s] = Opened("proxy") /\ proxy'[s] = [NewProxy EXCEPT !.used = used]
    BY <1>4 DEF CreateProxy, TypeOK
  <2>3. Fresh(s)
    BY <2>1, <2>2 DEF Fresh, NewProxy
  <2> QED
    BY <1>2, <2>3, OnlyOne DEF QuietProxy
<1> QED
  BY <1>3, <1>4

LEMMA PassQuiet ==
  ASSUME TypeOK, ChunkInv, NEW s \in Sides, Pass(s)
  PROVE  SourceSame /\ \A t \in Sides : QuietProxy(t)
<1>1. real \in Reals /\ proxy' = proxy /\ owner' = owner /\ mode' = mode
  BY DEF Pass, TypeOK
<1>2. SourceSame
  BY <1>1 DEF SourceSame, Pass, TryRegisterLocal, Reals
<1>3. OthersKept(s)
  BY <1>1 DEF OthersKept, Pass, TryRegisterLocal, TypeOK
<1>4. Open(s) => entry' = entry
  BY DEF Pass, TryRegisterLocal, Tracks, ChunkInv, SideOK, ProxyOK, Opened
<1>5. Same(s)
  BY <1>1, <1>4 DEF Same
<1> QED
  BY <1>2, <1>3, <1>5, OnlyOne DEF QuietProxy, Lasts

LEMMA RefPlain == \A n, s : PlainMessage(MsgOf("ref", n, s))
BY DEF PlainMessage, MsgOf

\* references on their way
LEMMA RefPostsQuiet ==
  ASSUME PortsOK, NEW w \in Workers, NEW n \in Nat, NEW s \in Sides,
         toWorker' = [toWorker EXCEPT ![w] = Append(@, MsgOf("ref", n, s))]
  PROVE  \A v \in Workers : PortKept(toWorker[v], toWorker'[v])
<1>1. toWorker[w] \in Seq(Messages(mode)) /\ MsgOf("ref", n, s) \in Messages(mode)
  BY RefTyped DEF PortsOK
<1>2. PICK m \in Messages(mode) : m = MsgOf("ref", n, s) /\ PlainMessage(m)
  BY <1>1, RefPlain
<1>3. Append(toWorker[w], m) = toWorker[w] \o <<m>> /\ <<m>> \in Seq(Messages(mode))
  BY <1>1
<1>4. PortKept(toWorker[w], Append(toWorker[w], m))
  BY <1>1, <1>2, <1>3, AppendKept, PlainOnes
<1> QED
  BY <1>2, <1>4, PortSame DEF PortsOK

LEMMA HostPassesQuiet ==
  ASSUME TypeOK, ChunkInv, PortsOK', NEW w \in Workers, HostPasses(w)
  PROVE  ChunkInv'
<1>1. SourceSame /\ \A t \in Sides : QuietProxy(t)
  BY PassQuiet DEF HostPasses, Sides
<1>2. RoutesStep
  BY RoutesAfter DEF HostPasses
<1>3. \A v \in Workers : PortKept(toWorker[v], toWorker'[v])
  BY RefPostsQuiet DEF HostPasses, ChunkInv, Sides
<1>4. toHost' = toHost
  BY DEF HostPasses
<1> QED
  BY <1>1, <1>2, <1>3, <1>4, PortSame, QuietStep DEF PortsQuiet

LEMMA WorkerPassesQuiet ==
  ASSUME TypeOK, ChunkInv, PortsOK', NEW w \in Workers, NEW t \in Sides, NEW argument \in BOOLEAN,
         WorkerPasses(w, t, argument)
  PROVE  ChunkInv'
<1>1. SourceSame /\ \A v \in Sides : QuietProxy(v)
  BY PassQuiet DEF WorkerPasses, Sides
<1>2. RoutesStep
  BY RoutesAfter DEF WorkerPasses
<1>3. PICK n \in Nat : WorkerPosts(w, <<MsgOf("ref", n, t)>>)
  BY DEF WorkerPasses
<1>4. <<MsgOf("ref", n, t)>> \in Seq(Messages(mode)) /\ Plain(<<MsgOf("ref", n, t)>>)
  BY RefTyped, RefPlain, PlainOnes
<1>5. \A v \in Workers : PortKept(toHost[v], toHost'[v])
  BY <1>3, <1>4, WorkerPostsQuiet DEF ChunkInv
<1>6. toWorker' = toWorker
  BY DEF WorkerPasses
<1> QED
  BY <1>1, <1>2, <1>5, <1>6, PortSame, QuietStep DEF PortsQuiet

LEMMA WorkerGetsRefQuiet ==
  ASSUME TypeOK, ChunkInv, PortsOK', NEW w \in Workers, WorkerGetsRef(w)
  PROVE  ChunkInv'
<1>1. \A t \in Sides : QuietProxy(t)
  BY CreateProxyQuiet DEF WorkerGetsRef, Sides
<1>2. RoutesStep
  BY RoutesAfter DEF WorkerGetsRef
<1>3. \A v \in Workers : PortKept(toWorker[v], toWorker'[v])
  BY TakenQuiet DEF WorkerGetsRef, ChunkInv, PlainMessage
<1>4. toHost' = toHost /\ SourceSame
  BY DEF WorkerGetsRef, SourceSame
<1> QED
  BY <1>1, <1>2, <1>3, <1>4, PortSame, QuietStep DEF PortsQuiet

LEMMA HostGetsRefQuiet ==
  ASSUME TypeOK, ChunkInv, PortsOK', NEW w \in Workers, HostGetsRef(w)
  PROVE  ChunkInv'
<1> DEFINE m == Head(toHost[w])
<1>1. m \in Messages(mode) /\ PlainMessage(m) /\ PortsOK /\ Host \in Sides
  BY Taken DEF HostGetsRef, ChunkInv, PlainMessage, Sides
<1>2. PICK x \in BOOLEAN : CreateProxy(Host, x)
  <2>1. CreateProxy(Host, m.side = Host) /\ (m.side = Host) \in BOOLEAN
    BY DEF HostGetsRef
  <2> QED
    BY <2>1, Zenon
<1>3. \A t \in Sides : QuietProxy(t)
  BY <1>1, <1>2, CreateProxyQuiet
<1>4. RoutesStep
  <2>1. Subscribe({Host, w, m.side}) \/ Subscribe({Host})
    BY DEF HostGetsRef
  <2> QED
    BY <2>1, RoutesAfter
<1>5. \A v \in Workers : PortKept(toHost[v], toHost'[v])
  BY <1>1, TakenQuiet DEF HostGetsRef
<1>6. SourceSame
  BY DEF HostGetsRef, SourceSame
<1>7. \A v \in Workers : PortKept(toWorker[v], toWorker'[v])
  <2>0. <<>> \in Seq(Messages(mode))
    OBVIOUS
  <2>1. PICK ms \in Seq(Messages(mode)) : ms = <<>>
    BY <2>0, Zenon
  <2>2. HostPosts({m.side}, m, ms) \/ toWorker' = toWorker
    BY <2>1 DEF HostGetsRef
  <2>3. Plain(ms)
    BY <2>1, PlainOnes
  <2> HIDE DEF m
  <2>4. CASE HostPosts({m.side}, m, ms)
    BY <1>1, <2>3, <2>4, HostPostsQuiet
  <2> QED
    BY <2>2, <2>4, PortSame
<1> QED
  BY <1>3, <1>4, <1>5, <1>6, <1>7, QuietStep DEF PortsQuiet

LEMMA MailboxStartsQuiet ==
  ASSUME TypeOK, ChunkInv, PortsOK', NEW w \in Workers, MailboxStarts(w)
  PROVE  ChunkInv'
<1>1. /\ toHost' = toHost /\ SourceSame /\ UNCHANGED <<entry, proxy>>
      /\ UNCHANGED routes \/ Subscribe({w})
  BY DEF MailboxStarts, SourceSame, streamVars
<1>2. RoutesStep
  BY <1>1, RoutesAfter
<1>3. \A v \in Workers : PortKept(toWorker[v], toWorker'[v])
  <2>0. <<>> \in Seq(Messages(mode))
    OBVIOUS
  <2>1. PICK ms \in Seq(Messages(mode)) : ms = <<>>
    BY <2>0, Zenon
  <2>2. PICK m \in Messages(mode) : m = MsgOf("ref", 0, w) /\ PlainMessage(m)
    BY RefTyped, RefPlain DEF Sides
  <2>3. HostPosts({w}, m, ms) \/ toWorker' = toWorker
    BY <2>1, <2>2 DEF MailboxStarts
  <2>4. Plain(ms)
    BY <2>1, PlainOnes
  <2>5. CASE HostPosts({w}, m, ms)
    BY <2>2, <2>4, <2>5, HostPostsQuiet DEF ChunkInv
  <2> QED
    BY <2>3, <2>5, PortSame
<1>4. \A t \in Sides : QuietProxy(t)
  BY <1>1 DEF QuietProxy, Lasts, Same
<1> QED
  BY <1>1, <1>2, <1>3, <1>4, PortSame, QuietStep DEF PortsQuiet

LEMMA RealQuiet ==
  ASSUME TypeOK, ChunkInv, PortsOK', RealStep, PortsQuiet, real'.sent = real.sent,
         real.state = "ended" => real'.state = "ended"
  PROVE  ChunkInv'
<1>1. RoutesStep
  BY RoutesAfter DEF RealStep
<1>2. SourceSame /\ \A t \in Sides : QuietProxy(t)
  BY DEF RealStep, SourceSame, QuietProxy, Lasts, Same
<1> QED
  BY <1>1, <1>2, QuietStep

LEMMA RealFailsQuiet ==
  ASSUME TypeOK, ChunkInv, PortsOK', RealFails
  PROVE  ChunkInv'
<1>1. real'.sent = real.sent /\ real.state # "ended" /\ RealStep
  BY DEF RealFails, TypeOK, Reals
<1>2. Signal("error") \in Messages(mode) /\ PlainMessage(Signal("error")) /\ ToConsumers(Signal("error"))
  BY MessageIs DEF Kinds, Sides, PlainMessage, Signal, Msg, RealFails
<1>3. PortsQuiet
  BY <1>2, ToConsumersQuiet DEF ChunkInv, TypeOK
<1> QED
  BY <1>1, <1>3, RealQuiet

LEMMA RealDestroyedQuiet ==
  ASSUME TypeOK, ChunkInv, PortsOK', RealDestroyed
  PROVE  ChunkInv'
<1>1. real'.sent = real.sent /\ real.state # "ended" /\ RealStep
  BY DEF RealDestroyed, TypeOK, Reals
<1>2. PortsQuiet
  BY PortSame DEF RealDestroyed, PortsQuiet
<1> QED
  BY <1>1, <1>2, RealQuiet

LEMMA WriteDoneQuiet ==
  ASSUME TypeOK, ChunkInv, PortsOK', WriteDone
  PROVE  ChunkInv'
<1> DEFINE d == Head(real.due)
           k == IF real.state = "open" THEN "write_result" ELSE "write_error"
<1>1. real \in Reals /\ RealStep /\ real.due # <<>> /\ mode # "readable"
  BY DEF WriteDone, TypeOK, ChunkInv, PortsOK
<1>2. d.n \in 1..Writes + 1
  <2>1. real.due \in Seq([n : 1..Writes + 1, side : Sides])
    BY <1>1 DEF Reals
  <2>2. d \in [n : 1..Writes + 1, side : Sides]
    BY <1>1, <2>1, SeqParts
  <2> QED
    BY <2>2
<1>3. Msg(k, d.n) \in Messages(mode) /\ PlainMessage(Msg(k, d.n)) /\ ToConsumers(Msg(k, d.n))
  <2>1. mode = "writable"
    BY <1>1 DEF TypeOK
  <2>2. d.n \in Nat
    BY <1>2, StreamAssumption
  <2>3. ToConsumers(Msg(k, d.n))
    BY DEF WriteDone
  <2> HIDE DEF d
  <2>4. Msg(k, d.n) \in Messages(mode)
    BY <1>2, <2>1, <2>2 DEF Messages, Msg, WriteKinds, Sides
  <2>5. PlainMessage(Msg(k, d.n))
    BY DEF PlainMessage, Msg
  <2> QED
    BY <2>3, <2>4, <2>5
<1>4. PortsQuiet
  BY <1>3, ToConsumersQuiet DEF ChunkInv, TypeOK
<1>5. real'.sent = real.sent /\ (real.state = "ended" => real'.state = "ended")
  BY <1>1 DEF WriteDone, Reals
<1> QED
  BY <1>1, <1>4, <1>5, RealQuiet

\* kinds of messages that a port lacks
Lacks(port, kinds) == \A i \in DOMAIN port : port[i].kind \notin kinds
Writing == {"write", "write_end"}

\* what s does not post: references, a close while its proxy is there, and a
\* write once it is gone
Untold(s) == {"ref"} \cup (IF proxy'[s].state = "gone" THEN Writing ELSE {"close"})

\* the program that holds the proxy of s uses it
Uses(s) ==
  /\ Use(s)
  /\ Lasts(s) /\ \A t \in Sides \ {s} : proxy'[t] = proxy[t]
  /\ \E ms \in Seq(Messages(mode)) : Plain(ms) /\ Lacks(ms, Untold(s)) /\ ToOwner(s, ms)

LEMMA UseQuiet ==
  ASSUME TypeOK, ChunkInv, PortsOK', NEW s \in Sides, Uses(s)
  PROVE  ChunkInv'
<1>1. RoutesStep
  BY RoutesAfter DEF Uses, Use
<1>2. SourceSame
  BY DEF Uses, Use, SourceSame
<1>3. \A t \in Sides : QuietProxy(t)
  BY OnlyOne DEF OthersKept, Uses, Use, QuietProxy
<1>4. PortsQuiet
  BY ToOwnerQuiet DEF ChunkInv, Uses
<1> QED
  BY <1>1, <1>2, <1>3, <1>4, QuietStep

LEMMA OneSignal ==
  ASSUME NEW kind \in Kinds \ {"data", "end"}, NEW K, kind \notin K
  PROVE  /\ <<Signal(kind)>> \in Seq(Messages(mode)) /\ Plain(<<Signal(kind)>>)
         /\ Lacks(<<Signal(kind)>>, K)
<1>1. <<Signal(kind)>> \in Seq(Messages(mode)) /\ Plain(<<Signal(kind)>>)
  BY SignalsAre, PlainSignals
<1>2. Signal(kind).kind = kind
  BY DEF Signal, Msg
<1> HIDE DEF Signal
<1>3. Lacks(<<Signal(kind)>>, K)
  BY <1>2 DEF Lacks
<1> QED
  BY <1>1, <1>3

LEMMA ResumesOnly ==
  ASSUME NEW more, NEW s
  PROVE  LET ms == IF more THEN <<Signal("resume")>> ELSE <<>> IN
           ms \in Seq(Messages(mode)) /\ Plain(ms) /\ Lacks(ms, Untold(s))
<1>1. "resume" \in Kinds \ {"data", "end"} /\ "resume" \notin Untold(s)
  BY DEF Kinds, Untold, Writing
<1>2. /\ <<Signal("resume")>> \in Seq(Messages(mode)) /\ Plain(<<Signal("resume")>>)
      /\ Lacks(<<Signal("resume")>>, Untold(s))
  BY <1>1, OneSignal
<1>3. <<>> \in Seq(Messages(mode)) /\ Plain(<<>>) /\ Lacks(<<>>, Untold(s))
  <2>1. <<>> \in Seq(Messages(mode))
    OBVIOUS
  <2> QED
    BY <2>1 DEF Plain, Lacks
<1> QED
  BY <1>2, <1>3

LEMMA ReadUses ==
  ASSUME TypeOK, NEW s \in Sides, Read(s)
  PROVE  Uses(s)
<1> DEFINE b == proxy[s].buffer
           more == WantsMore(s, IF b = <<>> THEN 0 ELSE Len(b) - 1)
           ms == IF more THEN <<Signal("resume")>> ELSE <<>>
<1>1. ToOwner(s, ms) /\ Use(s) /\ Open(s) /\ entry' = entry
  BY DEF Read, Reads, Use
<1>2. PICK p \in Proxies : p = proxy[s]
  BY ProxyIs
<1>3. proxy' = [proxy EXCEPT ![s].buffer = IF b = <<>> THEN b ELSE Tail(b),
                             ![s].got = IF b = <<>> THEN @ ELSE Append(@, Head(b)),
                             ![s].reading = @ \/ more]
  BY DEF Read
<1>4. ms \in Seq(Messages(mode)) /\ Plain(ms) /\ Lacks(ms, Untold(s))
  BY ResumesOnly
<1> HIDE DEF ms, more
<1>5. proxy'[s] = [p EXCEPT !.buffer = IF b = <<>> THEN b ELSE Tail(b),
                            !.got = IF b = <<>> THEN @ ELSE Append(@, Head(b)),
                            !.reading = @ \/ more]
  BY <1>2, <1>3 DEF TypeOK
<1>6. /\ proxy'[s].buffer = IF b = <<>> THEN b ELSE Tail(b)
      /\ proxy'[s].got = IF b = <<>> THEN p.got ELSE Append(p.got, Head(b))
      /\ proxy'[s].state = p.state /\ proxy'[s].eof = p.eof /\ proxy'[s].saw = p.saw
  BY <1>2, <1>5 DEF Proxies
<1>7. Same(s) \/ Takes(s)
  BY <1>1, <1>2, <1>6 DEF Same, Takes
<1>8. \A t \in Sides \ {s} : proxy'[t] = proxy[t]
  BY <1>3 DEF TypeOK
<1> QED
  BY <1>1, <1>4, <1>7, <1>8 DEF Uses, Lasts

LEMMA CloseUses ==
  ASSUME TypeOK, NEW s \in Sides, SeesEnd(s) \/ Stop(s)
  PROVE  Uses(s)
<1>1. Use(s) /\ Open(s) /\ ToOwner(s, <<Signal("close")>>)
  BY DEF SeesEnd, Stop, Reads, Use
<1>2. Gone(s) /\ \A t \in Sides \ {s} : proxy'[t] = proxy[t]
  <2>1. CASE SeesEnd(s)
    BY <1>1, <2>1, DestroyedGone DEF SeesEnd
  <2>2. CASE Stop(s)
    BY <1>1, <2>2, DestroyedGone DEF Stop
  <2> QED
    BY <2>1, <2>2
<1>3. "close" \in Kinds \ {"data", "end"} /\ "close" \notin Untold(s)
  BY <1>2 DEF Kinds, Untold, Writing, Gone
<1>4. /\ <<Signal("close")>> \in Seq(Messages(mode)) /\ Plain(<<Signal("close")>>)
      /\ Lacks(<<Signal("close")>>, Untold(s))
  BY <1>3, OneSignal
<1> QED
  BY <1>1, <1>2, <1>4 DEF Uses, Lasts

LEMMA PauseUses ==
  ASSUME TypeOK, NEW s \in Sides, Pause(s)
  PROVE  Uses(s)
<1>1. Use(s) /\ ToOwner(s, <<Signal("pause")>>) /\ entry' = entry
      /\ proxy' = [proxy EXCEPT ![s].held = "now"]
  BY DEF Pause, Reads, Use
<1>2. "pause" \in Kinds \ {"data", "end"} /\ "pause" \notin Untold(s)
  BY DEF Kinds, Untold, Writing
<1>3. /\ <<Signal("pause")>> \in Seq(Messages(mode)) /\ Plain(<<Signal("pause")>>)
      /\ Lacks(<<Signal("pause")>>, Untold(s))
  BY <1>2, OneSignal
<1>4. proxy[s] \in Proxies
  BY ProxyIs
<1>5. Same(s) /\ \A t \in Sides \ {s} : proxy'[t] = proxy[t]
  BY <1>1, <1>4 DEF Same, TypeOK, Proxies
<1> QED
  BY <1>1, <1>3, <1>5 DEF Uses, Lasts

LEMMA ResumeUses ==
  ASSUME TypeOK, NEW s \in Sides, Resume(s)
  PROVE  Uses(s)
<1> DEFINE more == WantsMore(s, Len(proxy[s].buffer))
           ms == IF more THEN <<Signal("resume")>> ELSE <<>>
<1>1. Use(s) /\ ToOwner(s, ms) /\ entry' = entry
      /\ proxy' = [proxy EXCEPT ![s].held = "before", ![s].reading = @ \/ more]
  BY DEF Resume, Use
<1>2. ms \in Seq(Messages(mode)) /\ Plain(ms) /\ Lacks(ms, Untold(s))
  BY ResumesOnly
<1> HIDE DEF ms, more
<1>3. PICK p \in Proxies : p = proxy[s]
  BY ProxyIs
<1>4. proxy'[s] = [p EXCEPT !.held = "before", !.reading = @ \/ more]
      /\ \A t \in Sides \ {s} : proxy'[t] = proxy[t]
  BY <1>1, <1>3 DEF TypeOK
<1>5. PICK x : x = (p.reading \/ more)
  OBVIOUS
<1> DEFINE q == [p EXCEPT !.held = "before", !.reading = x]
<1>6. proxy'[s] = q
  BY <1>3, <1>4, <1>5
<1>7. q.got = p.got /\ q.buffer = p.buffer /\ q.state = p.state /\ q.eof = p.eof /\ q.saw = p.saw
  BY <1>3 DEF Proxies
<1> HIDE DEF q
<1>8. Same(s)
  BY <1>1, <1>3, <1>6, <1>7 DEF Same
<1> QED
  BY <1>1, <1>2, <1>4, <1>8 DEF Uses, Lasts

LEMMA WriteUses ==
  ASSUME TypeOK, NEW s \in Sides, Write(s)
  PROVE  Uses(s)
<1> DEFINE n == proxy[s].begun + 1
           k == IF n <= Writes THEN "write" ELSE "write_end"
           m == MsgOf(k, n, s)
<1>1. Use(s) /\ Open(s) /\ ToOwner(s, <<m>>) /\ entry' = entry /\ mode = "writable"
      /\ proxy[s].begun <= Writes
      /\ proxy' = [proxy EXCEPT ![s].pending = n, ![s].begun = n]
  BY DEF Write, Use
<1>2. n \in 1..Writes + 1 /\ n \in Nat
  <2>1. proxy[s].begun \in 0..Writes + 1 /\ Writes \in Nat
    BY ProxyIs, StreamAssumption
  <2> QED
    BY <1>1, <2>1
<1>3. m \in Messages(mode) /\ PlainMessage(m) /\ m.kind \in Writing
  BY <1>1, <1>2 DEF MsgOf, Messages, WriteKinds, PlainMessage, Writing
<1> HIDE DEF m, n
<1>4. PICK p \in Proxies : p = proxy[s]
  BY ProxyIs
<1>5. proxy'[s] = [p EXCEPT !.pending = n, !.begun = n]
      /\ \A t \in Sides \ {s} : proxy'[t] = proxy[t]
  BY <1>1, <1>4 DEF TypeOK
<1> DEFINE q == [p EXCEPT !.pending = n, !.begun = n]
<1>6. q.got = p.got /\ q.buffer = p.buffer /\ q.state = p.state /\ q.eof = p.eof /\ q.saw = p.saw
  BY <1>4 DEF Proxies
<1>7. proxy'[s] = q
  BY <1>5
<1> HIDE DEF q
<1>8. Same(s)
  BY <1>1, <1>4, <1>6, <1>7 DEF Same
<1>9. m.kind \notin Untold(s)
  BY <1>1, <1>3, <1>8 DEF Untold, Same, Open, Writing
<1>10. <<m>> \in Seq(Messages(mode)) /\ Plain(<<m>>) /\ Lacks(<<m>>, Untold(s))
  BY <1>3, <1>9, PlainOnes DEF Lacks
<1> QED
  BY <1>1, <1>5, <1>8, <1>10 DEF Uses, Lasts

LEMMA UsesIs ==
  ASSUME TypeOK, NEW s \in Sides,
         Read(s) \/ SeesEnd(s) \/ Pause(s) \/ Resume(s) \/ Write(s) \/ Stop(s)
  PROVE  Uses(s)
BY ReadUses, CloseUses, PauseUses, ResumeUses, WriteUses

LEMMA StillQuiet ==
  ASSUME TypeOK, ChunkInv, PortsOK',
         UNCHANGED <<owner, entry, routes, toHost, toWorker, mode, streamVars>>
  PROVE  ChunkInv'
<1>1. RoutesStep
  BY RoutesAfter
<1>2. SourceSame /\ \A t \in Sides : QuietProxy(t)
  BY DEF SourceSame, QuietProxy, Lasts, Same, streamVars
<1> QED
  BY <1>1, <1>2, PortSame, QuietStep DEF PortsQuiet

-----------------------------------------------------------------------------
(* Steps that move a chunk.                                                 *)

\* nothing but the ports and the proxies
OnlyMoves == UNCHANGED <<owner, routes, mode, real>>

\* the open proxy of s gets the chunk k
Gains(s, k) ==
  /\ proxy'[s].got = proxy[s].got /\ proxy'[s].buffer = Append(proxy[s].buffer, k)
  /\ proxy'[s].state = proxy[s].state /\ proxy'[s].eof = proxy[s].eof
  /\ proxy'[s].saw = proxy[s].saw
  /\ entry'[s] = entry[s]

LEMMA GainsHad ==
  ASSUME TypeOK, NEW s \in Sides, ProxyOK(s), Open(s), NEW k \in Nat,
         \A h \in Had(s) : h < k, Gains(s, k)
  PROVE  /\ ProxyOK(s)' /\ Open(s)'
         /\ Had(s)' = Had(s) \cup {k}
<1> DEFINE b == proxy[s].buffer
<1>1. b \in Seq(Nat) /\ Ascending(b) /\ \A x \in Range(b) : x < k
  BY ChunksAre DEF ProxyOK, Had, Buffered
<1>2. Range(Append(b, k)) = Range(b) \cup {k} /\ Ascending(Append(b, k))
  BY <1>1, RangeAppend, AscendingAppend
<1>3. Buffered(s)' = Buffered(s) \cup {k} /\ Got(s)' = Got(s)
  BY <1>2 DEF Gains, Buffered, Got
<1>4. Had(s)' = Had(s) \cup {k}
  BY <1>3 DEF Had
<1>5. Behind(Got(s), Buffered(s) \cup {k})
  BY DEF ProxyOK, Had, Behind
<1>6. Open(s)'
  BY DEF Gains, Open
<1>7. ProxyOK(s)'
  BY <1>2, <1>3, <1>5, <1>6 DEF ProxyOK, Gains, Open
<1> QED
  BY <1>4, <1>6, <1>7

LEMMA GaplessRest ==
  ASSUME NEW A \in SUBSET Nat, NEW B, NEW k \in Nat, A = B \cup {k}, \A b \in B : k < b, Gapless(A)
  PROVE  Gapless(B)
<1> SUFFICES ASSUME NEW a \in B, NEW b \in B, NEW x \in a..b PROVE x \in B
  BY DEF Gapless
<1>1. x \in A /\ k < x
  BY DEF Gapless
<1> QED
  BY <1>1

\* all up to the least number of C
LEMMA GaplessUpTo ==
  ASSUME NEW A \in SUBSET Nat, NEW C \in SUBSET Nat, NEW B, NEW k \in Nat,
         C = B \cup {k}, \A b \in B : k < b, \A a \in A : a < k, Gapless(A \cup C)
  PROVE  Gapless(A \cup {k})
<1> SUFFICES ASSUME NEW a \in A \cup {k}, NEW b \in A \cup {k}, NEW x \in a..b PROVE x \in A \cup {k}
  BY DEF Gapless
<1>1. x \in A \cup C /\ x <= k
  BY DEF Gapless
<1> QED
  BY <1>1

\* worker s takes the chunk k from its port
LEMMA SideTakesChunk ==
  ASSUME TypeOK, OnlyMoves, NEW s \in Sides, SideOK(s), NEW k \in 1..real.sent,
         Ahead' = Ahead, Coming(s) = Coming(s)' \cup {k}, \A c \in Coming(s)' : k < c,
         EndComing(s)' => EndComing(s), InOrdered(s)',
         IF Open(s) THEN Gains(s, k) ELSE proxy'[s] = proxy[s]
  PROVE  SideOK(s)'
<1>1. k \in Nat /\ real.sent \in Nat /\ Had(s) \subseteq Nat /\ ~proxy[s].eof /\ \A h \in Had(s) : h < k
  BY ChunksAre DEF SideOK, OrderOK, Behind
<1>5. Coming(s) \in SUBSET Nat
  BY <1>1 DEF SideOK, OrderOK
<1>2. real' = real /\ mode' = mode /\ subs' = subs /\ lapse' = lapse
  BY DEF OnlyMoves, routes
<1>3. CASE ~Open(s)
  <2>1. ~Open(s)' /\ Had(s)' = Had(s) /\ proxy'[s] = proxy[s] /\ ProxyOK(s)'
    BY <1>3 DEF Open, Had, Got, Buffered, SideOK, ProxyOK
  <2>2. OrderOK(s)'
    BY <1>2, <2>1 DEF SideOK, OrderOK, Told, Behind
  <2>3. ASSUME lapse # "renewed" PROVE GaplessOK(s)'
    <3>1. GaplessOK(s)
      BY <2>3 DEF SideOK
    <3>2. Gapless(Coming(s)')
      BY <1>1, <3>1, <1>5, GaplessRest DEF GaplessOK
    <3>3. s \in subs => Onward(Coming(s)', Ahead)
      BY <1>1, <3>1 DEF GaplessOK, Onward, SideOK, OrderOK
    <3>4. Told(s)' => (Coming(s)' # {} => real.sent \in Coming(s)')
      BY <1>1, <2>1, <3>1 DEF GaplessOK, Told, SideOK, OrderOK
    <3> QED
      BY <1>2, <2>1, <3>1, <3>2, <3>3, <3>4 DEF GaplessOK, Onward
  <2> QED
    BY <1>2, <2>1, <2>2, <2>3 DEF SideOK
<1>4. CASE Open(s)
  <2>1. ProxyOK(s)' /\ Open(s)' /\ Had(s)' = Had(s) \cup {k} /\ Gains(s, k)
    BY <1>1, <1>4, GainsHad DEF SideOK
  <2>2. OrderOK(s)'
    <3>1. Behind(Had(s)', Coming(s)') /\ Behind(Had(s)', Ahead) /\ Behind(Coming(s)', Ahead)
      BY <2>1 DEF SideOK, OrderOK, Behind
    <3>2. Coming(s)' \subseteq 1..real.sent /\ Had(s)' \subseteq 1..real.sent
      BY <2>1 DEF SideOK, OrderOK
    <3>3. Told(s)' => Told(s)
      BY <2>1 DEF Told, Gains
    <3> QED
      BY <1>1, <1>2, <2>1, <3>1, <3>2, <3>3 DEF SideOK, OrderOK, Gains
  <2>3. ASSUME lapse # "renewed" PROVE GaplessOK(s)'
    <3>1. GaplessOK(s)
      BY <2>3 DEF SideOK
    <3>2. Gapless(Coming(s)') /\ Gapless(Had(s)')
      BY <1>1, <1>4, <2>1, <3>1, <1>5, GaplessRest, GaplessUpTo DEF GaplessOK
    <3>3. Had(s)' \cup Coming(s)' = Had(s) \cup Coming(s)
      BY <2>1
    <3>4. s \in subs => Onward(Coming(s)', Ahead) /\ Onward(Had(s)', Coming(s)' \cup Ahead)
      BY <1>1, <1>4, <2>1, <3>1 DEF GaplessOK, Onward, SideOK, OrderOK
    <3>5. Told(s)' => Told(s) /\ real.sent \in Coming(s)
      BY <2>1, <3>1 DEF GaplessOK, Told, Gains
    <3>6. Coming(s)' # {} /\ real.sent \in Coming(s) => real.sent \in Coming(s)'
      BY <1>1 DEF SideOK, OrderOK
    <3>7. lapse = "none" => s \in subs
      BY <3>1 DEF GaplessOK
    <3>8. mode = "readable" /\ proxy'[s].saw = "end" /\ proxy'[s].got # <<>> =>
            Last(proxy'[s].got) = real.sent
      BY <2>1, <3>1 DEF GaplessOK, Gains
    <3>9. Open(s)' => Gapless(Had(s)' \cup Coming(s)')
      BY <1>4, <3>1, <3>3 DEF GaplessOK
    <3>10. Told(s)' => /\ Coming(s)' # {} => real'.sent \in Coming(s)'
                       /\ Open(s)' /\ Had(s)' # {} => real'.sent \in Had(s)' \cup Coming(s)'
      BY <1>2, <3>3, <3>5, <3>6
    <3>11. s \in subs' => /\ Onward(Coming(s), Ahead)'
                          /\ Open(s)' => Onward(Had(s), Coming(s) \cup Ahead)'
      BY <1>2, <3>4 DEF Onward
    <3> QED
      BY <1>2, <3>1, <3>2, <3>7, <3>8, <3>9, <3>10, <3>11 DEF GaplessOK
  <2> QED
    BY <1>2, <2>1, <2>2, <2>3 DEF SideOK
<1> QED
  BY <1>3, <1>4

\* side s learns of the end, or loses a message that tells of it
LEMMA SideTold ==
  ASSUME TypeOK, UNCHANGED <<owner, routes, mode>>, NEW s \in Sides, SideOK(s),
         real'.state = "ended", real'.sent = real.sent,
         Ahead = {}, Ahead' = {}, Coming(s)' = Coming(s), InOrdered(s)',
         s \in subs \/ (Told(s)' => Told(s)),
         proxy'[s].eof => proxy[s].eof \/ Coming(s) = {},
         proxy'[s].got = proxy[s].got, proxy'[s].buffer = proxy[s].buffer,
         proxy'[s].state = proxy[s].state, proxy'[s].saw = proxy[s].saw,
         entry'[s] = entry[s]
  PROVE  SideOK(s)'
<1>1. Had(s)' = Had(s) /\ Got(s)' = Got(s) /\ Buffered(s)' = Buffered(s) /\ (Open(s)' <=> Open(s))
  BY DEF Had, Got, Buffered, Open
<1>2. mode' = mode /\ subs' = subs /\ lapse' = lapse
  BY DEF routes
<1>3. ProxyOK(s)'
  BY <1>1 DEF SideOK, ProxyOK
<1>4. OrderOK(s)'
  BY <1>1, <1>2 DEF SideOK, OrderOK, Behind
<1>5. ASSUME lapse # "renewed" PROVE GaplessOK(s)'
  <2>1. GaplessOK(s)
    BY <1>5 DEF SideOK
  <2>2. real.sent \in Nat /\ Coming(s) \subseteq 1..real.sent /\ Had(s) \subseteq 1..real.sent
    BY ChunksAre DEF SideOK, OrderOK
  <2>3. ASSUME s \in subs
        PROVE  /\ Coming(s) # {} => real.sent \in Coming(s)
               /\ Open(s) /\ Had(s) # {} => real.sent \in Had(s) \cup Coming(s)
    <3>1. ASSUME NEW c \in Coming(s) PROVE real.sent \in Coming(s)
      BY <2>1, <2>2, <2>3 DEF GaplessOK, Onward
    <3>2. ASSUME Open(s), NEW h \in Had(s) PROVE real.sent \in Had(s) \cup Coming(s)
      BY <2>1, <2>2, <2>3, <3>2 DEF GaplessOK, Onward
    <3> QED
      BY <3>1, <3>2
  <2>4. Told(s)' => /\ Coming(s) # {} => real.sent \in Coming(s)
                    /\ Open(s) /\ Had(s) # {} => real.sent \in Had(s) \cup Coming(s)
    BY <2>1, <2>3 DEF GaplessOK
  <2>5. s \in subs' => /\ Onward(Coming(s), Ahead)'
                       /\ Open(s)' => Onward(Had(s), Coming(s) \cup Ahead)'
    BY <1>1, <1>2, <2>1 DEF GaplessOK, Onward
  <2> QED
    BY <1>1, <1>2, <2>1, <2>4, <2>5 DEF GaplessOK
<1> QED
  BY <1>2, <1>3, <1>4, <1>5 DEF SideOK

\* the host passes the chunk k on, to the port of s if s is a consumer
LEMMA SideIsSent ==
  ASSUME TypeOK, OnlyMoves, NEW s \in Sides, SideOK(s), NEW k \in 1..real.sent,
         Ahead \subseteq Nat, Ahead = Ahead' \cup {k}, \A a \in Ahead' : k < a, k..real.sent \subseteq Ahead,
         Coming(s)' = IF s \in subs THEN Coming(s) \cup {k} ELSE Coming(s),
         EndComing(s)' => EndComing(s), InOrdered(s)',
         proxy'[s] = proxy[s], entry'[s] = entry[s]
  PROVE  SideOK(s)'
<1>1. Had(s)' = Had(s) /\ Got(s)' = Got(s) /\ Buffered(s)' = Buffered(s) /\ (Open(s)' <=> Open(s))
  BY DEF Had, Got, Buffered, Open
<1>2. real' = real /\ mode' = mode /\ subs' = subs /\ lapse' = lapse
  BY DEF OnlyMoves, routes
<1>3. /\ k \in Nat /\ real.sent \in Nat /\ Coming(s) \in SUBSET Nat /\ Had(s) \in SUBSET Nat
      /\ \A c \in Coming(s) : c < k
      /\ \A h \in Had(s) : h < k
      /\ ~Told(s)
  BY ChunksAre DEF SideOK, OrderOK, Behind
<1>4. ~Told(s)' /\ ~proxy'[s].eof
  BY <1>3 DEF Told
<1>5. ProxyOK(s)'
  BY <1>1 DEF SideOK, ProxyOK
<1>6. OrderOK(s)'
  <2>1. Behind(Coming(s)', Ahead') /\ Behind(Had(s), Ahead') /\ Behind(Had(s), Coming(s)')
    BY <1>3 DEF Behind, SideOK, OrderOK
  <2>2. Coming(s)' \subseteq 1..real.sent
    BY DEF SideOK, OrderOK
  <2> QED
    BY <1>1, <1>2, <1>4, <2>1, <2>2 DEF SideOK, OrderOK
<1>7. ASSUME lapse # "renewed" PROVE GaplessOK(s)'
  <2>1. GaplessOK(s)
    BY <1>7 DEF SideOK
  <2>2. ASSUME s \in subs
        PROVE  /\ Gapless(Coming(s)')
               /\ Open(s) => Gapless(Had(s) \cup Coming(s)')
               /\ Onward(Coming(s)', Ahead')
               /\ Open(s) => Onward(Had(s), Coming(s)' \cup Ahead')
    <3>1. Onward(Coming(s), Ahead) /\ (Open(s) => Onward(Had(s), Coming(s) \cup Ahead))
      BY <2>1, <2>2 DEF GaplessOK
    <3>2. \A a \in Ahead : a \in Nat /\ (a = k \/ k < a)
      BY <1>3
    <3>3. \A a \in Coming(s) : a..k \subseteq Coming(s) \cup {k}
      BY <1>3, <3>1, <3>2 DEF Onward
    <3>4. Gapless(Coming(s) \cup {k})
      BY <1>3, <2>1, <3>3 DEF GaplessOK, Gapless
    <3>5. ASSUME Open(s) PROVE Gapless(Had(s) \cup Coming(s) \cup {k})
      <4>1. \A h \in Had(s) \cup Coming(s) : h..k \subseteq Had(s) \cup Coming(s) \cup {k}
        BY <1>3, <3>1, <3>2, <3>3, <3>5 DEF Onward
      <4>2. Gapless(Had(s) \cup Coming(s))
        BY <2>1, <3>5 DEF GaplessOK
      <4> QED
        BY <1>3, <4>1, <4>2 DEF Gapless
    <3>6. Onward(Coming(s) \cup {k}, Ahead')
      BY <3>1 DEF Onward
    <3>7. Open(s) => Onward(Had(s), Coming(s) \cup {k} \cup Ahead')
      BY <3>1 DEF Onward
    <3>8. Coming(s)' = Coming(s) \cup {k}
      BY <2>2
    <3>9. Had(s) \cup Coming(s)' = Had(s) \cup Coming(s) \cup {k}
      BY <3>8
    <3> QED
      BY <3>4, <3>5, <3>6, <3>7, <3>8, <3>9
  <2>3. s \notin subs => Coming(s)' = Coming(s)
    OBVIOUS
  <2>4. Gapless(Coming(s)') /\ (Open(s) => Gapless(Had(s) \cup Coming(s)'))
    BY <2>1, <2>2, <2>3 DEF GaplessOK
  <2>5. s \in subs' => /\ Onward(Coming(s), Ahead)'
                       /\ Open(s)' => Onward(Had(s), Coming(s) \cup Ahead)'
    BY <1>1, <1>2, <2>2 DEF Onward
  <2> QED
    BY <1>1, <1>2, <1>4, <2>1, <2>3, <2>4, <2>5 DEF GaplessOK
<1> QED
  BY <1>2, <1>5, <1>6, <1>7 DEF SideOK

\* the host passes the chunk k on to its own proxy, at once
LEMMA SideTakesAtOnce ==
  ASSUME TypeOK, OnlyMoves, NEW s \in Sides, SideOK(s), NEW k \in 1..real.sent, s \in subs,
         Ahead \subseteq Nat, Ahead = Ahead' \cup {k}, \A a \in Ahead' : k < a, k..real.sent \subseteq Ahead,
         Coming(s) = {}, Coming(s)' = {},
         EndComing(s)' => EndComing(s), InOrdered(s)',
         IF Open(s) THEN Gains(s, k) ELSE proxy'[s] = proxy[s]
  PROVE  SideOK(s)'
<1>2. real' = real /\ mode' = mode /\ subs' = subs /\ lapse' = lapse
  BY DEF OnlyMoves, routes
<1>3. /\ k \in Nat /\ real.sent \in Nat /\ Had(s) \in SUBSET Nat
      /\ \A h \in Had(s) : h < k
      /\ ~Told(s)
  BY ChunksAre DEF SideOK, OrderOK, Behind
<1>4. CASE ~Open(s)
  <2>1. ~Open(s)' /\ Had(s)' = Had(s) /\ proxy'[s] = proxy[s] /\ ProxyOK(s)' /\ ~Told(s)'
    BY <1>3, <1>4 DEF Open, Had, Got, Buffered, SideOK, ProxyOK, Told
  <2>2. OrderOK(s)'
    BY <1>2, <2>1 DEF SideOK, OrderOK, Behind
  <2>3. ASSUME lapse # "renewed" PROVE GaplessOK(s)'
    <3>1. GaplessOK(s)
      BY <2>3 DEF SideOK
    <3>2. Onward(Coming(s), Ahead)'
      BY DEF Onward
    <3> QED
      BY <1>2, <2>1, <3>1, <3>2 DEF GaplessOK
  <2> QED
    BY <1>2, <2>1, <2>2, <2>3 DEF SideOK
<1>5. CASE Open(s)
  <2>1. ProxyOK(s)' /\ Open(s)' /\ Had(s)' = Had(s) \cup {k} /\ Gains(s, k)
    BY <1>3, <1>5, GainsHad DEF SideOK
  <2>2. ~Told(s)' /\ ~proxy'[s].eof
    BY <1>3, <2>1 DEF Told, Gains
  <2>3. OrderOK(s)'
    <3>1. Behind(Had(s)', Coming(s)') /\ Behind(Had(s)', Ahead') /\ Behind(Coming(s)', Ahead')
      BY <1>3, <2>1 DEF SideOK, OrderOK, Behind
    <3>2. Coming(s)' \subseteq 1..real.sent /\ Had(s)' \subseteq 1..real.sent
      BY <2>1 DEF SideOK, OrderOK
    <3> QED
      BY <1>2, <2>1, <2>2, <3>1, <3>2 DEF SideOK, OrderOK, Gains
  <2>4. ASSUME lapse # "renewed" PROVE GaplessOK(s)'
    <3>1. GaplessOK(s)
      BY <2>4 DEF SideOK
    <3>2. Onward(Had(s), Ahead) /\ Gapless(Had(s)) /\ Coming(s) \cup Ahead = Ahead
      BY <1>5, <3>1 DEF GaplessOK
    <3>3. \A a \in Ahead : a \in Nat /\ (a = k \/ k < a)
      BY <1>3
    <3>4. \A h \in Had(s) : h..k \subseteq Had(s) \cup {k}
      BY <1>3, <3>2, <3>3 DEF Onward
    <3>5. Gapless(Had(s) \cup {k})
      BY <1>3, <3>2, <3>4 DEF Gapless
    <3>6. Onward(Had(s) \cup {k}, Ahead')
      BY <3>2 DEF Onward
    <3>7. Gapless(Coming(s))' /\ Onward(Coming(s), Ahead)' /\ Had(s)' \cup Coming(s)' = Had(s) \cup {k}
      BY <2>1 DEF Gapless, Onward
    <3>8. Onward(Had(s), Coming(s) \cup Ahead)'
      BY <1>2, <2>1, <3>6 DEF Onward
    <3>9. Gapless(Had(s))' /\ Gapless(Had(s) \cup Coming(s))'
      BY <2>1, <3>5, <3>7 DEF Gapless
    <3>10. mode = "readable" /\ proxy'[s].saw = "end" /\ proxy'[s].got # <<>> =>
            Last(proxy'[s].got) = real.sent
      BY <2>1, <3>1 DEF GaplessOK, Gains
    <3> QED
      BY <1>2, <2>1, <2>2, <3>1, <3>7, <3>8, <3>9, <3>10 DEF GaplessOK
  <2> QED
    BY <1>2, <2>1, <2>3, <2>4 DEF SideOK
<1> QED
  BY <1>4, <1>5

\* the owner emits the next chunk: a worker to the host, the host to its consumers
LEMMA SideIsAhead ==
  ASSUME TypeOK, UNCHANGED <<owner, routes, mode>>, NEW s \in Sides, SideOK(s),
         mode = "readable", real.state = "open", real'.sent = real.sent + 1,
         \/ Ahead' = Ahead \cup {real.sent + 1} /\ Coming(s)' = Coming(s)
         \/ /\ Ahead = {} /\ Ahead' = {}
            /\ Coming(s)' = IF s \in subs THEN Coming(s) \cup {real.sent + 1} ELSE Coming(s)
         \/ Ahead = {} /\ Ahead' = {} /\ Coming(s) = {} /\ Coming(s)' = {} /\ Had(s) = {},
         EndComing(s)' => EndComing(s), InOrdered(s)',
         proxy'[s] = proxy[s], entry'[s] = entry[s]
  PROVE  SideOK(s)'
<1> DEFINE n == real.sent + 1
<1>1. Had(s)' = Had(s) /\ Got(s)' = Got(s) /\ Buffered(s)' = Buffered(s) /\ (Open(s)' <=> Open(s))
  BY DEF Had, Got, Buffered, Open
<1>2. mode' = mode /\ subs' = subs /\ lapse' = lapse
  BY DEF routes
<1>3. /\ n \in Nat /\ real.sent \in Nat
      /\ Coming(s) \subseteq 1..real.sent /\ Had(s) \subseteq 1..real.sent
      /\ ~Told(s) /\ proxy[s].saw # "end"
      /\ \A x \in Nat : x..n \subseteq x..real.sent \cup {n}
  BY ChunksAre DEF SideOK, OrderOK
<1>4. ~Told(s)' /\ ~proxy'[s].eof
  BY <1>3 DEF Told
<1>5. ProxyOK(s)'
  BY <1>1 DEF SideOK, ProxyOK
<1> HIDE DEF n
<1>6. OrderOK(s)'
  <2>1. Behind(Coming(s)', Ahead') /\ Behind(Had(s), Ahead') /\ Behind(Had(s), Coming(s)')
    BY <1>3 DEF Behind, SideOK, OrderOK, n
  <2>2. Coming(s)' \subseteq 1..n /\ Had(s) \subseteq 1..n
    BY <1>3 DEF n
  <2> QED
    BY <1>1, <1>2, <1>3, <1>4, <2>1, <2>2 DEF SideOK, OrderOK, n
<1>7. ASSUME lapse # "renewed" PROVE GaplessOK(s)'
  <2>1. GaplessOK(s)
    BY <1>7 DEF SideOK
  <2>2. CASE Coming(s)' = Coming(s)
    <3>1. s \in subs => \/ Ahead' = Ahead \cup {n}
                        \/ Coming(s) = {} /\ Had(s) = {}
      BY <1>3, <2>2 DEF n
    <3>2. s \in subs' => /\ Onward(Coming(s), Ahead)'
                         /\ Open(s)' => Onward(Had(s), Coming(s) \cup Ahead)'
      BY <1>1, <1>2, <1>3, <2>1, <2>2, <3>1 DEF GaplessOK, Onward, n
    <3> QED
      BY <1>1, <1>2, <1>3, <1>4, <2>1, <2>2, <3>2 DEF GaplessOK
  <2>3. CASE s \in subs /\ Ahead = {} /\ Ahead' = {} /\ Coming(s)' = Coming(s) \cup {n}
    <3>1. Onward(Coming(s), {}) /\ (Open(s) => Onward(Had(s), Coming(s)))
      BY <2>1, <2>3 DEF GaplessOK, Onward
    <3>2. \A c \in Coming(s) : c..n \subseteq Coming(s) \cup {n}
      BY <1>3, <3>1 DEF Onward
    <3>3. Open(s) => \A h \in Had(s) : h..n \subseteq Had(s) \cup Coming(s) \cup {n}
      BY <1>3, <3>1 DEF Onward
    <3>4. Gapless(Coming(s) \cup {n})
      BY <1>3, <2>1, <3>2 DEF GaplessOK, Gapless, n
    <3>5. Open(s) => Gapless(Had(s) \cup Coming(s) \cup {n})
      BY <1>3, <2>1, <3>2, <3>3 DEF GaplessOK, Gapless, n
    <3>6. Onward(Coming(s), Ahead)' /\ (Open(s) => Onward(Had(s), Coming(s) \cup Ahead)')
      BY <1>1, <1>3, <2>3, <3>2, <3>3 DEF Onward, n
    <3>7. Had(s)' \cup Coming(s)' = Had(s) \cup Coming(s) \cup {n}
      BY <1>1, <2>3
    <3>8. Gapless(Coming(s))' /\ (Open(s) => Gapless(Had(s) \cup Coming(s))')
      BY <2>3, <3>4, <3>5, <3>7 DEF Gapless
    <3> QED
      BY <1>1, <1>2, <1>3, <1>4, <2>1, <2>3, <3>6, <3>8 DEF GaplessOK
  <2> QED
    BY <2>2, <2>3 DEF n
<1> QED
  BY <1>2, <1>5, <1>6, <1>7 DEF SideOK

LEMMA OnDataGains ==
  ASSUME TypeOK, ChunkInv, NEW s \in Sides, NEW k \in Nat, OnRemoteData(s, k)
  PROVE  /\ IF Open(s) THEN Gains(s, k) ELSE proxy'[s] = proxy[s]
         /\ \A t \in Sides \ {s} : proxy'[t] = proxy[t]
         /\ entry' = entry /\ real' = real
<1>1. Open(s) => Receives(s)
  BY DEF ChunkInv, SideOK, ProxyOK, Receives, Opened
<1>2. proxy[s] \in Proxies
  BY ProxyIs
<1>3. CASE Open(s)
  <2>1. proxy' = [proxy EXCEPT ![s].buffer = Append(@, k),
                               ![s].reading = Len(proxy[s].buffer) + 1 < HighWater]
    BY <1>1, <1>3 DEF OnRemoteData
  <2>2. entry' = entry /\ real' = real
    BY DEF OnRemoteData
  <2>3. Gains(s, k)
    BY <1>2, <2>1, <2>2 DEF Gains, TypeOK, Proxies
  <2> QED
    BY <1>3, <2>1, <2>2, <2>3 DEF TypeOK
<1>4. CASE ~Open(s)
  BY <1>4 DEF OnRemoteData
<1> QED
  BY <1>3, <1>4

\* what the end of the stream does to a proxy
LEMMA OnEndIs ==
  ASSUME TypeOK, ChunkInv, NEW s \in Sides, OnRemoteEnd(s)
  PROVE  /\ proxy'[s].got = proxy[s].got /\ proxy'[s].buffer = proxy[s].buffer
         /\ proxy'[s].state = proxy[s].state /\ proxy'[s].saw = proxy[s].saw
         /\ proxy'[s].eof = (Open(s) \/ proxy[s].eof)
         /\ \A t \in Sides \ {s} : proxy'[t] = proxy[t]
         /\ entry' = entry /\ real' = real
<1>1. Open(s) => Receives(s)
  BY DEF ChunkInv, SideOK, ProxyOK, Receives, Opened
<1>2. proxy[s] \in Proxies
  BY ProxyIs
<1>3. CASE Open(s)
  <2> DEFINE q == [proxy[s] EXCEPT !.eof = TRUE, !.reading = FALSE]
  <2>1. proxy' = [proxy EXCEPT ![s].eof = TRUE, ![s].reading = FALSE]
    BY <1>1, <1>3 DEF OnRemoteEnd
  <2>2. proxy' = [proxy EXCEPT ![s] = q]
    BY <2>1 DEF TypeOK
  <2>3. /\ q.got = proxy[s].got /\ q.buffer = proxy[s].buffer
        /\ q.state = proxy[s].state /\ q.saw = proxy[s].saw /\ q.eof = TRUE
    BY <1>2 DEF Proxies
  <2> HIDE DEF q
  <2>4. proxy'[s] = q /\ \A t \in Sides \ {s} : proxy'[t] = proxy[t]
    BY <2>2 DEF TypeOK
  <2> QED
    BY <1>3, <2>3, <2>4 DEF OnRemoteEnd
<1>4. CASE ~Open(s)
  BY <1>2, <1>4 DEF OnRemoteEnd, Proxies
<1> QED
  BY <1>3, <1>4

LEMMA OthersQuiet ==
  ASSUME TypeOK, ChunkInv, OnlyMoves, NEW s \in Sides, QuietIn(s),
         proxy'[s] = proxy[s], entry'[s] = entry[s]
  PROVE  SideOK(s)'
<1>1. RoutesStep
  BY RoutesAfter DEF OnlyMoves
<1>2. SourceSame /\ QuietProxy(s)
  BY DEF OnlyMoves, SourceSame, QuietProxy, Lasts, Same
<1> QED
  BY <1>1, <1>2, QuietSide DEF ChunkInv

\* the ports of the sides other than worker w when w takes a message
LEMMA WorkerTakes ==
  ASSUME TypeOK, ChunkInv, NEW w \in Workers, WorkerHandles(w)
  PROVE  /\ \A v \in Workers : PortKept(toHost[v], toHost'[v])
         /\ Ahead' = Ahead
         /\ \A s \in Sides \ {w} : QuietIn(s)
         /\ In(w) = toWorker[w] /\ In(w)' = Tail(toWorker[w])
<1>1. w \in Sides /\ PortsOK /\ Answer(w, Head(toWorker[w])) \in Seq(Messages(mode))
  BY AnswerTyped DEF Sides, ChunkInv
<1>2. \A v \in Workers : PortKept(toHost[v], toHost'[v])
  BY <1>1, AnswerPlain, WorkerPostsQuiet DEF WorkerHandles
<1>3. Ahead' = Ahead
  BY <1>2 DEF Ahead, Src, PortKept, TypeOK, Sides, WorkerHandles
<1>4. \A v \in Workers : toWorker'[v] = IF v = w THEN Tail(toWorker[w]) ELSE toWorker[v]
  BY <1>1 DEF WorkerHandles, PortsOK
<1>5. ASSUME NEW s \in Sides \ {w} PROVE QuietIn(s)
  <2>1. In(s)' = In(s)
    BY <1>4, <1>5 DEF In, Sides
  <2>2. InOrdered(s)
    BY DEF ChunkInv, SideOK, OrderOK
  <2> QED
    BY <1>3, <2>1, <2>2 DEF QuietIn, Coming, EndComing, InOrdered
<1> QED
  BY <1>2, <1>3, <1>4, <1>5, HostAssumption DEF In

LEMMA WorkerHandlesData ==
  ASSUME TypeOK, ChunkInv, PortsOK', NEW w \in Workers, WorkerHandles(w),
         Head(toWorker[w]).kind = "data"
  PROVE  ChunkInv'
<1> DEFINE m == Head(toWorker[w])
           p == toWorker[w]
           k == m.n
<1>1. w \in Sides /\ PortsOK /\ p \in Seq(Messages(mode)) /\ p # <<>> /\ m \in Messages(mode)
  BY Taken DEF Sides, ChunkInv, WorkerHandles, PortsOK
<1>2. OnRemoteData(w, k) /\ OnlyMoves
  BY DEF WorkerHandles, Handle, OnRemoteData, OnlyMoves
<1>3. SideOK(w) /\ Ordered(p)
  BY <1>1, WorkerTakes DEF ChunkInv, SideOK, OrderOK, InOrdered
<1>4. /\ DataIn(p) = DataIn(Tail(p)) \cup {k}
      /\ \A c \in DataIn(Tail(p)) : k < c
      /\ EndIn(Tail(p)) <=> EndIn(p)
      /\ Ordered(Tail(p))
  BY <1>1, <1>3, DataTaken
<1>5. /\ Coming(w) = Coming(w)' \cup {k} /\ \A c \in Coming(w)' : k < c
      /\ EndComing(w)' => EndComing(w)
      /\ InOrdered(w)' /\ Ahead' = Ahead
  BY <1>4, WorkerTakes DEF Coming, EndComing, InOrdered
<1> HIDE DEF k, p, m
<1>6. k \in 1..real.sent /\ k \in Nat
  <2>1. k \in Coming(w) /\ Coming(w) \subseteq 1..real.sent /\ real.sent \in Nat
    BY <1>1, <1>3, <1>5, ChunksAre DEF SideOK, OrderOK
  <2> QED
    BY <2>1
<1>7. /\ IF Open(w) THEN Gains(w, k) ELSE proxy'[w] = proxy[w]
      /\ \A t \in Sides \ {w} : proxy'[t] = proxy[t]
      /\ entry' = entry /\ real' = real
  BY <1>1, <1>2, <1>6, OnDataGains
<1>8. SideOK(w)'
  BY <1>1, <1>2, <1>3, <1>5, <1>6, <1>7, SideTakesChunk
<1>9. \A s \in Sides \ {w} : SideOK(s)'
  BY <1>2, <1>7, WorkerTakes, OthersQuiet
<1>10. SourceOK'
  <2>1. SourceSame /\ Host \in Sides \ {w}
    BY <1>2, HostAssumption DEF OnlyMoves, SourceSame, Sides
  <2>2. Had(Host)' = Had(Host)
    BY <1>7, <2>1 DEF Had, Got, Buffered
  <2> QED
    BY <2>1, <2>2, WorkerTakes, QuietSource DEF ChunkInv
<1> QED
  BY <1>8, <1>9, <1>10 DEF ChunkInv

LEMMA WorkerHandlesEnd ==
  ASSUME TypeOK, ChunkInv, PortsOK', NEW w \in Workers, WorkerHandles(w),
         Head(toWorker[w]).kind = "end"
  PROVE  ChunkInv'
<1> DEFINE p == toWorker[w]
<1>1. w \in Sides /\ PortsOK /\ p \in Seq(Messages(mode)) /\ p # <<>>
  BY DEF Sides, ChunkInv, WorkerHandles, PortsOK
<1>2. OnRemoteEnd(w) /\ OnlyMoves
  BY DEF WorkerHandles, Handle, OnRemoteEnd, OnlyMoves
<1>3. SideOK(w) /\ Ordered(p)
  BY <1>1, WorkerTakes DEF ChunkInv, SideOK, OrderOK, InOrdered
<1>4. DataIn(p) = {} /\ DataIn(Tail(p)) = {} /\ EndIn(p) /\ Ordered(Tail(p))
  BY <1>1, <1>3, EndTaken
<1>5. Coming(w) = {} /\ Coming(w)' = {} /\ EndComing(w) /\ InOrdered(w)' /\ Ahead' = Ahead
  BY <1>4, WorkerTakes DEF Coming, EndComing, InOrdered
<1>6. Told(w) /\ real.state = "ended" /\ Ahead = {}
  BY <1>3, <1>5 DEF SideOK, OrderOK, Told
<1>7. /\ proxy'[w].got = proxy[w].got /\ proxy'[w].buffer = proxy[w].buffer
      /\ proxy'[w].state = proxy[w].state /\ proxy'[w].saw = proxy[w].saw
      /\ \A t \in Sides \ {w} : proxy'[t] = proxy[t]
      /\ entry' = entry /\ real' = real
  BY <1>1, <1>2, OnEndIs
<1>8. SideOK(w)'
  BY <1>1, <1>2, <1>3, <1>5, <1>6, <1>7, SideTold DEF OnlyMoves
<1>9. \A s \in Sides \ {w} : SideOK(s)'
  BY <1>2, <1>7, WorkerTakes, OthersQuiet
<1>10. SourceOK'
  <2>1. SourceSame /\ Host \in Sides \ {w}
    BY <1>2, HostAssumption DEF OnlyMoves, SourceSame, Sides
  <2>2. Had(Host)' = Had(Host)
    BY <1>7, <2>1 DEF Had, Got, Buffered
  <2> QED
    BY <2>1, <2>2, WorkerTakes, QuietSource DEF ChunkInv
<1> QED
  BY <1>8, <1>9, <1>10 DEF ChunkInv

\* the host posts a chunk, or the end, to the workers ws, and then ms
LEMMA HostSends ==
  ASSUME PortsOK, NEW ws, NEW m \in Messages(mode), NEW ms \in Seq(Messages(mode)), Plain(ms),
         HostPosts(ws, m, ms), NEW w \in Workers, Ordered(toWorker[w])
  PROVE  /\ m.kind = "data" /\ ~EndIn(toWorker[w]) /\ (\A k \in DataIn(toWorker[w]) : k < m.n) =>
              /\ DataIn(toWorker'[w]) = DataIn(toWorker[w]) \cup (IF w \in ws THEN {m.n} ELSE {})
              /\ ~EndIn(toWorker'[w]) /\ Ordered(toWorker'[w])
         /\ m.kind = "end" =>
              /\ DataIn(toWorker'[w]) = DataIn(toWorker[w]) /\ Ordered(toWorker'[w])
              /\ EndIn(toWorker'[w]) <=> EndIn(toWorker[w]) \/ w \in ws
<1> DEFINE p == toWorker[w]
           q == IF w \in ws THEN p \o <<m>> ELSE p
<1>1. p \in Seq(Messages(mode)) /\ q \in Seq(Messages(mode))
  <2>1. p \in Seq(Messages(mode))
    BY DEF PortsOK
  <2>2. p \o <<m>> \in Seq(Messages(mode))
    BY <2>1
  <2> QED
    BY <2>1, <2>2
<1>2. PICK b \in Seq(Messages(mode)) : Plain(b) /\ b = IF w = owner THEN ms ELSE <<>>
  <2>1. <<>> \in Seq(Messages(mode))
    OBVIOUS
  <2> QED
    BY <2>1, PlainOnes
<1>3. toWorker'[w] = q \o b
  <2>1. toWorker'[w] = p \o (IF w \in ws THEN <<m>> ELSE <<>>) \o b
    BY <1>2 DEF HostPosts
  <2>2. p \o <<>> = p
    BY <1>1
  <2> QED
    BY <2>1, <2>2
<1>4. PortKept(q, toWorker'[w])
  BY <1>1, <1>2, <1>3, AppendKept
<1>5. ASSUME m.kind = "data", ~EndIn(p), \A k \in DataIn(p) : k < m.n
      PROVE  DataIn(q) = DataIn(p) \cup (IF w \in ws THEN {m.n} ELSE {}) /\ ~EndIn(q) /\ Ordered(q)
  BY <1>1, <1>5, DataPosted
<1>6. ASSUME m.kind = "end"
      PROVE  /\ DataIn(q) = DataIn(p) /\ Ordered(q)
             /\ EndIn(q) <=> EndIn(p) \/ w \in ws
  BY <1>1, <1>6, EndPosted
<1> HIDE DEF q
<1> QED
  BY <1>4, <1>5, <1>6 DEF PortKept

LEMMA WorkersRead == \A w \in Workers : w \in Sides /\ In(w) = toWorker[w]
BY HostAssumption DEF In, Sides

LEMMA HostReads ==
  /\ Host \in Sides /\ In(Host) = <<>> /\ Coming(Host) = {} /\ ~EndComing(Host) /\ InOrdered(Host)
BY DEF In, Sides, Coming, EndComing, InOrdered, DataIn, EndIn, Ordered

\* chunks and the end come to the host from the owner
LEMMA HostTakes ==
  ASSUME TypeOK, ChunkInv, PortsOK', NEW w \in Workers, HostHandles(w),
         ~PlainMessage(Head(toHost[w]))
  PROVE  /\ owner = w /\ Src = toHost[w] /\ Src' = Tail(toHost[w])
         /\ Src \in Seq(Messages(mode)) /\ Src # <<>> /\ Ordered(Src)
         /\ \A v \in Workers \ {w} : toHost'[v] = toHost[v]
<1>1. PortsOK /\ toHost[w] \in Seq(Messages(mode)) /\ toHost[w] # <<>>
  BY DEF ChunkInv, PortsOK, HostHandles
<1>2. DataIn(toHost[w]) # {} \/ EndIn(toHost[w])
  <2>1. Head(toHost[w]) = toHost[w][1] /\ 1 \in DOMAIN toHost[w]
    BY <1>1, TailIs
  <2>2. CASE Head(toHost[w]).kind = "data"
    BY <2>1, <2>2, DataAt
  <2>3. CASE Head(toHost[w]).kind = "end"
    BY <2>1, <2>3 DEF EndIn
  <2> QED
    BY <2>2, <2>3 DEF PlainMessage
<1>3. owner = w /\ Ordered(Src) /\ owner' = owner
  BY <1>2 DEF ChunkInv, SourceOK, SrcOrdered, HostHandles
<1>4. toHost' = [toHost EXCEPT ![w] = Tail(@)]
  BY DEF HostHandles
<1> QED
  BY <1>1, <1>3, <1>4, HostAssumption DEF Src, PortsOK

LEMMA HostHandlesEnd ==
  ASSUME TypeOK, ChunkInv, PortsOK', NEW w \in Workers, HostHandles(w),
         Head(toHost[w]).kind = "end"
  PROVE  ChunkInv'
<1> DEFINE m == Head(toHost[w])
           ms == IF Host \in Targets(m) THEN Answer(Host, m) ELSE <<>>
<1>1. m \in Messages(mode) /\ PortsOK /\ ms \in Seq(Messages(mode)) /\ Plain(ms)
  <2>1. <<>> \in Seq(Messages(mode))
    OBVIOUS
  <2> QED
    BY <2>1, Taken, AnswerTyped, AnswerPlain, PlainOnes, HostReads DEF ChunkInv, HostHandles
<1>2. HostPosts(subs, m, ms) /\ OnlyMoves /\ UNCHANGED routes
  <2>1. Targets(m) = subs /\ (Handle(Host, m) => OnRemoteEnd(Host))
    BY DEF Targets, Handle
  <2> QED
    BY <2>1 DEF HostHandles, OnlyMoves, OnRemoteEnd, streamVars
<1>3. IF Host \in subs THEN OnRemoteEnd(Host) ELSE UNCHANGED <<entry, proxy>>
  BY DEF HostHandles, Targets, Handle, streamVars
<1>4. owner = w /\ Src = toHost[w] /\ Src' = Tail(toHost[w])
      /\ Src \in Seq(Messages(mode)) /\ Src # <<>> /\ Ordered(Src)
      /\ \A v \in Workers \ {w} : toHost'[v] = toHost[v]
  BY HostTakes DEF PlainMessage
<1>5. Ahead = {} /\ Ahead' = {} /\ EndAhead /\ SrcOrdered' /\ real.state = "ended" /\ real' = real
  <2>1. Ahead = {} /\ Ahead' = {} /\ EndAhead /\ SrcOrdered'
    BY <1>4, EndTaken DEF Ahead, EndAhead, SrcOrdered
  <2> QED
    BY <1>2, <2>1 DEF ChunkInv, SourceOK, OnlyMoves
<1>6. /\ proxy'[Host].got = proxy[Host].got /\ proxy'[Host].buffer = proxy[Host].buffer
      /\ proxy'[Host].state = proxy[Host].state /\ proxy'[Host].saw = proxy[Host].saw
      /\ \A t \in Sides \ {Host} : proxy'[t] = proxy[t]
      /\ entry' = entry
      /\ Host \notin subs => proxy' = proxy
  BY <1>3, HostReads, OnEndIs
<1>10. m.kind = "end"
  OBVIOUS
<1> HIDE DEF m, ms
<1>7. ASSUME NEW s \in Workers PROVE SideOK(s)'
  <2>1. s \in Sides /\ s # Host /\ In(s) = toWorker[s] /\ In(s)' = toWorker'[s] /\ SideOK(s) /\ Ordered(toWorker[s])
    BY WorkersRead, HostAssumption DEF ChunkInv, SideOK, OrderOK, InOrdered, In
  <2>2. Coming(s)' = Coming(s) /\ InOrdered(s)' /\ (EndComing(s)' <=> EndComing(s) \/ s \in subs)
    <3>1. /\ DataIn(toWorker'[s]) = DataIn(toWorker[s]) /\ Ordered(toWorker'[s])
          /\ EndIn(toWorker'[s]) <=> EndIn(toWorker[s]) \/ s \in subs
      BY <1>1, <1>2, <1>10, <2>1, HostSends
    <3> QED
      BY <2>1, <3>1 DEF Coming, InOrdered, EndComing
  <2>3. s \in subs \/ (Told(s)' => Told(s))
    BY <1>6, <2>1, <2>2 DEF Told
  <2> QED
    BY <1>2, <1>5, <1>6, <2>1, <2>2, <2>3, SideTold DEF OnlyMoves
<1>8. SideOK(Host)'
  <2>1. SideOK(Host) /\ Coming(Host)' = {} /\ InOrdered(Host)' /\ ~EndComing(Host)'
    BY HostReads DEF ChunkInv, In, Coming, EndComing, InOrdered, DataIn, EndIn, Ordered
  <2>2. Host \in subs \/ (Told(Host)' => Told(Host))
    BY <1>6, <2>1 DEF Told
  <2> QED
    BY <1>2, <1>5, <1>6, <2>1, <2>2, HostReads, SideTold DEF OnlyMoves
<1>9. SourceOK'
  <2>1. Had(Host)' = Had(Host)
    BY <1>6 DEF Had, Got, Buffered
  <2> QED
    BY <1>2, <1>4, <1>5, <2>1 DEF ChunkInv, SourceOK, OnlyMoves
<1> QED
  BY <1>7, <1>8, <1>9 DEF ChunkInv, Sides

LEMMA HostHandlesData ==
  ASSUME TypeOK, ChunkInv, PortsOK', NEW w \in Workers, HostHandles(w),
         Head(toHost[w]).kind = "data"
  PROVE  ChunkInv'
<1> DEFINE m == Head(toHost[w])
           ms == IF Host \in Targets(m) THEN Answer(Host, m) ELSE <<>>
           k == m.n
<1>1. m \in Messages(mode) /\ m.kind = "data" /\ PortsOK /\ ms \in Seq(Messages(mode)) /\ Plain(ms)
  <2>1. <<>> \in Seq(Messages(mode))
    OBVIOUS
  <2> QED
    BY <2>1, Taken, AnswerTyped, AnswerPlain, PlainOnes, HostReads DEF ChunkInv, HostHandles
<1>2. HostPosts(subs, m, ms) /\ OnlyMoves /\ UNCHANGED routes
  <2>1. Targets(m) = subs /\ (Handle(Host, m) => OnRemoteData(Host, k))
    BY DEF Targets, Handle
  <2> QED
    BY <2>1 DEF HostHandles, OnlyMoves, OnRemoteData, streamVars
<1>3. IF Host \in subs THEN OnRemoteData(Host, k) ELSE UNCHANGED <<entry, proxy>>
  BY DEF HostHandles, Targets, Handle, streamVars
<1>4. owner = w /\ Src = toHost[w] /\ Src' = Tail(toHost[w])
      /\ Src \in Seq(Messages(mode)) /\ Src # <<>> /\ Ordered(Src)
      /\ \A v \in Workers \ {w} : toHost'[v] = toHost[v]
  BY HostTakes DEF PlainMessage
<1>5. /\ Ahead = Ahead' \cup {k} /\ \A a \in Ahead' : k < a
      /\ EndAhead' <=> EndAhead
      /\ SrcOrdered'
  BY <1>4, DataTaken DEF Ahead, EndAhead, SrcOrdered
<1> HIDE DEF m, ms, k
<1>6. /\ Ahead \subseteq 1..real.sent /\ Ahead \subseteq Nat /\ k \in 1..real.sent /\ k \in Nat
      /\ k..real.sent \subseteq Ahead /\ real' = real
  <2>1. real.sent \in Nat
    BY HostReads, ChunksAre
  <2>2. Ahead \subseteq 1..real.sent /\ \A n \in Ahead : n..real.sent \subseteq Ahead
    BY DEF ChunkInv, SourceOK
  <2>3. k \in Ahead
    BY <1>5
  <2> QED
    BY <1>2, <2>1, <2>2, <2>3 DEF OnlyMoves
<1>7. /\ Host \in subs => IF Open(Host) THEN Gains(Host, k) ELSE proxy'[Host] = proxy[Host]
      /\ \A t \in Sides \ {Host} : proxy'[t] = proxy[t]
      /\ entry' = entry
      /\ Host \notin subs => proxy' = proxy
  BY <1>3, <1>6, HostReads, OnDataGains
<1>8. ASSUME NEW s \in Workers PROVE SideOK(s)'
  <2>1. s \in Sides /\ s # Host /\ In(s) = toWorker[s] /\ In(s)' = toWorker'[s] /\ SideOK(s) /\ Ordered(toWorker[s])
    BY WorkersRead, HostAssumption DEF ChunkInv, SideOK, OrderOK, InOrdered, In
  <2>2. ~EndComing(s) /\ \A c \in Coming(s) : c < k
    BY <1>5, <2>1 DEF SideOK, OrderOK, Told, Behind
  <2>3. /\ DataIn(toWorker'[s]) = DataIn(toWorker[s]) \cup (IF s \in subs THEN {k} ELSE {})
        /\ ~EndIn(toWorker'[s]) /\ Ordered(toWorker'[s])
    BY <1>1, <1>2, <2>1, <2>2, HostSends DEF Coming, EndComing, k
  <2>4. /\ Coming(s)' = IF s \in subs THEN Coming(s) \cup {k} ELSE Coming(s)
        /\ InOrdered(s)' /\ ~EndComing(s)'
    BY <2>1, <2>3 DEF Coming, InOrdered, EndComing
  <2> QED
    BY <1>2, <1>5, <1>6, <1>7, <2>1, <2>4, SideIsSent
<1>9. SideOK(Host)'
  <2>1. SideOK(Host) /\ Coming(Host)' = {} /\ InOrdered(Host)' /\ ~EndComing(Host)'
    BY HostReads DEF ChunkInv, In, Coming, EndComing, InOrdered, DataIn, EndIn, Ordered
  <2>2. CASE Host \in subs
    BY <1>2, <1>5, <1>6, <1>7, <2>1, <2>2, HostReads, SideTakesAtOnce
  <2>3. CASE Host \notin subs
    BY <1>2, <1>5, <1>6, <1>7, <2>1, <2>3, HostReads, SideIsSent
  <2> QED
    BY <2>2, <2>3
<1>10. SourceOK'
  <2>1. owner # Host /\ owner' = owner
    BY <1>2, <1>4, HostAssumption DEF OnlyMoves
  <2>2. \A n \in Ahead' : n..real.sent \subseteq Ahead'
    <3> SUFFICES ASSUME NEW n \in Ahead', NEW x \in n..real.sent PROVE x \in Ahead'
      OBVIOUS
    <3>1. x \in Ahead /\ n \in Nat /\ k < n /\ x # k
      BY <1>5, <1>6, ChunksAre, HostReads DEF ChunkInv, SourceOK
    <3> QED
      BY <1>5, <3>1
  <2>3. \A v \in Workers \ {owner'} : DataIn(toHost'[v]) = {} /\ ~EndIn(toHost'[v])
    BY <1>4, <2>1 DEF ChunkInv, SourceOK
  <2>4. Ahead' \subseteq 1..real.sent
    BY <1>5, <1>6
  <2> QED
    BY <1>5, <1>6, <2>1, <2>2, <2>3, <2>4 DEF ChunkInv, SourceOK
<1> QED
  BY <1>8, <1>9, <1>10 DEF ChunkInv, Sides

\* the owner posts a chunk or the end: its own port, or those of the consumers
LEMMA WorkerEmits ==
  ASSUME TypeOK, PortsOK, owner \in Workers, NEW m \in Messages(mode), ToConsumers(m), owner' = owner,
         SrcOrdered
  PROVE  /\ toWorker' = toWorker /\ \A v \in Workers \ {owner} : toHost'[v] = toHost[v]
         /\ m.kind = "data" /\ ~EndAhead /\ (\A k \in Ahead : k < m.n) =>
              Ahead' = Ahead \cup {m.n} /\ ~EndAhead' /\ SrcOrdered'
         /\ m.kind = "end" => Ahead' = Ahead /\ SrcOrdered'
<1>1. owner # Host /\ toHost[owner] \in Seq(Messages(mode))
  BY HostAssumption DEF PortsOK
<1>2. toWorker' = toWorker /\ toHost' = [toHost EXCEPT ![owner] = @ \o <<m>>]
  BY <1>1 DEF ToConsumers, WorkerPosts
<1>3. Src = toHost[owner] /\ Src' = Src \o <<m>> /\ Src \in Seq(Messages(mode))
  BY <1>1, <1>2 DEF Src, PortsOK
<1>4. \A v \in Workers \ {owner} : toHost'[v] = toHost[v]
  BY <1>2 DEF PortsOK
<1>5. ASSUME m.kind = "data", ~EndAhead, \A k \in Ahead : k < m.n
      PROVE  Ahead' = Ahead \cup {m.n} /\ ~EndAhead' /\ SrcOrdered'
  <2>1. Ordered(Src) /\ ~EndIn(Src) /\ \A k \in DataIn(Src) : k < m.n
    BY <1>5 DEF Ahead, EndAhead, SrcOrdered
  <2>2. DataIn(Src \o <<m>>) = DataIn(Src) \cup {m.n} /\ ~EndIn(Src \o <<m>>) /\ Ordered(Src \o <<m>>)
    BY <1>3, <1>5, <2>1, DataPosted
  <2> QED
    BY <1>3, <2>2 DEF Ahead, EndAhead, SrcOrdered
<1>6. ASSUME m.kind = "end" PROVE Ahead' = Ahead /\ SrcOrdered'
  <2>1. DataIn(Src \o <<m>>) = DataIn(Src) /\ Ordered(Src \o <<m>>)
    BY <1>3, <1>6, EndPosted DEF SrcOrdered
  <2> QED
    BY <1>3, <2>1 DEF Ahead, SrcOrdered
<1> QED
  BY <1>2, <1>4, <1>5, <1>6

LEMMA RealEmitsFromWorker ==
  ASSUME TypeOK, ChunkInv, PortsOK', owner # Host, RealEmits
  PROVE  ChunkInv'
<1>1. owner \in Workers /\ PortsOK /\ SrcOrdered /\ RealStep /\ UNCHANGED <<owner, routes, mode, entry, proxy>>
  BY DEF TypeOK, Sides, ChunkInv, SourceOK, RealEmits, RealStep
<1>2. real.sent \in 0..Chunks /\ real.sent \in Nat /\ real.state = "open" /\ mode = "readable" /\ Chunks \in Nat
  BY HostReads, ChunksAre DEF RealEmits
<1>3. Ahead \subseteq 1..real.sent /\ ~EndAhead /\ \A n \in Ahead : n..real.sent \subseteq Ahead
  BY <1>2 DEF ChunkInv, SourceOK
<1>4. CASE real.sent < Chunks
  <2> DEFINE n == real.sent + 1
             m == Msg("data", n)
  <2>1. n \in 1..Chunks /\ n \in Nat
    BY <1>2, <1>4
  <2>2. m \in Messages(mode) /\ m.kind = "data" /\ m.n = n
    BY <2>1 DEF Msg, Messages, Kinds, WriteKinds, Sides
  <2>3. ToConsumers(m) /\ real'.sent = n /\ real'.state = "open"
    BY <1>2, <1>4 DEF RealEmits, TypeOK, Reals
  <2>4. \A k \in Ahead : k < n
    BY <1>2, <1>3
  <2> HIDE DEF m
  <2>5. /\ toWorker' = toWorker /\ \A v \in Workers \ {owner} : toHost'[v] = toHost[v]
        /\ Ahead' = Ahead \cup {n} /\ ~EndAhead' /\ SrcOrdered'
    BY <1>1, <1>3, <2>2, <2>3, <2>4, WorkerEmits
  <2>6. ASSUME NEW s \in Sides PROVE SideOK(s)'
    <3>1. In(s)' = In(s) /\ SideOK(s) /\ InOrdered(s)
      BY <2>5 DEF In, ChunkInv, SideOK, OrderOK
    <3>2. Coming(s)' = Coming(s) /\ (EndComing(s)' <=> EndComing(s)) /\ InOrdered(s)'
      BY <3>1 DEF Coming, EndComing, InOrdered
    <3> QED
      BY <1>1, <1>2, <2>3, <2>5, <3>1, <3>2, SideIsAhead
  <2>7. SourceOK'
    <3>1. Ahead' \subseteq 1..n
      <4>1. \A x \in 1..real.sent : x \in 1..n
        BY <1>2
      <4>2. n \in 1..n
        BY <2>1
      <4> QED
        BY <1>3, <2>5, <4>1, <4>2
    <3>2. \A k \in Ahead' : k..n \subseteq Ahead'
      <4> SUFFICES ASSUME NEW k \in Ahead', NEW x \in k..n PROVE x \in Ahead'
        OBVIOUS
      <4>1. x = n \/ (k \in Ahead /\ x \in k..real.sent)
        BY <1>2, <1>3, <2>5
      <4> QED
        BY <1>3, <2>5, <4>1
    <3> QED
      BY <1>1, <2>3, <2>5, <3>1, <3>2 DEF SourceOK, ChunkInv
  <2> QED
    BY <2>6, <2>7 DEF ChunkInv
<1>5. CASE ~(real.sent < Chunks)
  <2> DEFINE m == Signal("end")
  <2>1. m \in Messages(mode) /\ m.kind = "end"
    BY MessageIs DEF Signal, Msg, Kinds, Sides
  <2>2. ToConsumers(m) /\ real'.sent = real.sent /\ real'.state = "ended"
    BY <1>5 DEF RealEmits, TypeOK, Reals
  <2> HIDE DEF m
  <2>3. /\ toWorker' = toWorker /\ \A v \in Workers \ {owner} : toHost'[v] = toHost[v]
        /\ Ahead' = Ahead /\ SrcOrdered'
    BY <1>1, <2>1, <2>2, WorkerEmits
  <2>4. SourceSame /\ RoutesStep
    BY <1>1, <1>2, <2>2, RoutesAfter DEF SourceSame
  <2>5. ASSUME NEW s \in Sides PROVE SideOK(s)'
    <3>1. In(s)' = In(s) /\ SideOK(s) /\ InOrdered(s)
      BY <2>3 DEF In, ChunkInv, SideOK, OrderOK
    <3>2. QuietIn(s)
      BY <2>3, <3>1 DEF Coming, EndComing, InOrdered, QuietIn
    <3>3. QuietProxy(s)
      BY <1>1 DEF QuietProxy, Lasts, Same
    <3> QED
      BY <2>4, <3>1, <3>2, <3>3, QuietSide
  <2>6. SourceOK'
    BY <1>1, <1>3, <2>2, <2>3 DEF SourceOK, ChunkInv
  <2> QED
    BY <2>5, <2>6 DEF ChunkInv
<1> QED
  BY <1>4, <1>5

LEMMA RealEmitsFromHost ==
  ASSUME TypeOK, ChunkInv, PortsOK', owner = Host, RealEmits
  PROVE  ChunkInv'
<1>1. PortsOK /\ UNCHANGED <<owner, routes, mode, entry, proxy>>
  BY DEF ChunkInv, RealEmits, RealStep
<1>2. real.sent \in 0..Chunks /\ real.sent \in Nat /\ real.state = "open" /\ mode = "readable" /\ Chunks \in Nat
  BY HostReads, ChunksAre DEF RealEmits
<1>3. /\ Ahead = {} /\ Ahead' = {} /\ ~EndAhead /\ ~EndAhead' /\ SrcOrdered'
      /\ Had(Host) = {}
  BY <1>1 DEF Ahead, EndAhead, SrcOrdered, Src, DataIn, EndIn, Ordered, ChunkInv, SourceOK
<1>4. PICK ms \in Seq(Messages(mode)) : ms = <<>> /\ Plain(ms)
  <2>1. <<>> \in Seq(Messages(mode))
    OBVIOUS
  <2>2. Plain(<<>>)
    BY PlainOnes
  <2> QED
    BY <2>1, <2>2, Zenon
<1>5. toHost' = toHost
  BY DEF RealEmits, ToConsumers
<1>6. SideOK(Host) /\ Coming(Host) = {} /\ Coming(Host)' = {} /\ InOrdered(Host)' /\ ~EndComing(Host)'
  BY HostReads DEF ChunkInv, In, Coming, EndComing, InOrdered, DataIn, EndIn, Ordered
<1>7. \A v \in Workers \ {owner'} : DataIn(toHost'[v]) = {} /\ ~EndIn(toHost'[v])
  BY <1>1, <1>5 DEF ChunkInv, SourceOK
<1>8. Had(Host)' = {}
  BY <1>1, <1>3 DEF Had, Got, Buffered
<1>9. SourceOK'
  BY <1>3, <1>7, <1>8 DEF SourceOK
<1>10. ASSUME NEW s \in Workers
       PROVE  /\ s \in Sides /\ In(s) = toWorker[s] /\ In(s)' = toWorker'[s]
              /\ SideOK(s) /\ Ordered(toWorker[s])
  BY <1>10, WorkersRead, HostAssumption DEF ChunkInv, SideOK, OrderOK, InOrdered, In
<1>11. CASE real.sent < Chunks
  <2> DEFINE n == real.sent + 1
             m == Msg("data", n)
  <2>1. n \in 1..Chunks /\ n \in Nat
    BY <1>2, <1>11
  <2>2. m \in Messages(mode) /\ m.kind = "data" /\ m.n = n
    BY <2>1 DEF Msg, Messages, Kinds, WriteKinds, Sides
  <2>3. HostPosts(subs, m, ms) /\ real'.sent = n /\ real'.state = "open"
    BY <1>2, <1>4, <1>11 DEF RealEmits, ToConsumers, TypeOK, Reals
  <2> HIDE DEF m
  <2>4. ASSUME NEW s \in Workers PROVE SideOK(s)'
    <3>1. ~EndComing(s) /\ \A c \in Coming(s) : c < n
      BY <1>2, <1>10 DEF SideOK, OrderOK, Told
    <3>2. /\ DataIn(toWorker'[s]) = DataIn(toWorker[s]) \cup (IF s \in subs THEN {n} ELSE {})
          /\ ~EndIn(toWorker'[s]) /\ Ordered(toWorker'[s])
      <4>1. ~EndIn(toWorker[s]) /\ \A c \in DataIn(toWorker[s]) : c < m.n
        BY <1>10, <2>2, <3>1 DEF Coming, EndComing
      <4>2. /\ DataIn(toWorker'[s]) = DataIn(toWorker[s]) \cup (IF s \in subs THEN {m.n} ELSE {})
            /\ ~EndIn(toWorker'[s]) /\ Ordered(toWorker'[s])
        BY <1>1, <1>4, <1>10, <2>2, <2>3, <4>1, HostSends
      <4> QED
        BY <2>2, <4>2
    <3>3. /\ Coming(s)' = IF s \in subs THEN Coming(s) \cup {n} ELSE Coming(s)
          /\ InOrdered(s)' /\ ~EndComing(s)'
      BY <1>10, <3>2 DEF Coming, InOrdered, EndComing
    <3> QED
      BY <1>1, <1>2, <1>3, <1>10, <2>3, <3>3, SideIsAhead
  <2>5. SideOK(Host)'
    BY <1>1, <1>2, <1>3, <1>6, <2>3, HostReads, SideIsAhead
  <2> QED
    BY <1>9, <2>4, <2>5 DEF ChunkInv, Sides
<1>12. CASE ~(real.sent < Chunks)
  <2> DEFINE m == Signal("end")
  <2>1. m \in Messages(mode) /\ m.kind = "end"
    BY MessageIs DEF Signal, Msg, Kinds, Sides
  <2>2. HostPosts(subs, m, ms) /\ real'.sent = real.sent /\ real'.state = "ended"
    BY <1>4, <1>12 DEF RealEmits, ToConsumers, TypeOK, Reals
  <2> HIDE DEF m
  <2>3. ASSUME NEW s \in Workers PROVE SideOK(s)'
    <3>1. /\ DataIn(toWorker'[s]) = DataIn(toWorker[s]) /\ Ordered(toWorker'[s])
          /\ EndIn(toWorker'[s]) <=> EndIn(toWorker[s]) \/ s \in subs
      BY <1>1, <1>4, <1>10, <2>1, <2>2, HostSends
    <3>2. Coming(s)' = Coming(s) /\ InOrdered(s)' /\ (EndComing(s)' <=> EndComing(s) \/ s \in subs)
      BY <1>10, <3>1 DEF Coming, InOrdered, EndComing
    <3>3. s \in subs \/ (Told(s)' => Told(s))
      BY <1>1, <3>2 DEF Told
    <3> QED
      BY <1>1, <1>3, <1>10, <2>2, <3>2, <3>3, SideTold
  <2>4. SideOK(Host)'
    <3>1. Told(Host)' => Told(Host)
      BY <1>1, <1>6 DEF Told
    <3> QED
      BY <1>1, <1>3, <1>6, <2>2, <3>1, HostReads, SideTold
  <2> QED
    BY <1>9, <2>3, <2>4 DEF ChunkInv, Sides
<1> QED
  BY <1>11, <1>12

-----------------------------------------------------------------------------
(* The invariant, and what it means for the programs.                       *)

LEMMA NextChunkInv ==
  ASSUME TypeOK, ChunkInv, PortsOK', [Next]_vars
  PROVE  ChunkInv'
<1>1. CASE \E w \in Workers : WorkerHandles(w)
  BY <1>1, WorkerHandlesQuiet, WorkerHandlesData, WorkerHandlesEnd DEF PlainMessage
<1>2. CASE \E w \in Workers : HostHandles(w)
  BY <1>2, HostHandlesQuiet, HostHandlesData, HostHandlesEnd DEF PlainMessage
<1>3. CASE \E w \in Workers : HostPasses(w) \/ WorkerGetsRef(w) \/ HostGetsRef(w) \/ MailboxStarts(w)
  BY <1>3, HostPassesQuiet, WorkerGetsRefQuiet, HostGetsRefQuiet, MailboxStartsQuiet
<1>4. CASE \E w \in Workers, t \in Sides, argument \in BOOLEAN : WorkerPasses(w, t, argument)
  BY <1>4, WorkerPassesQuiet
<1>5. CASE \E w \in Workers : Crash(w)
  BY <1>5, StillQuiet DEF Crash
<1>6. CASE RealEmits
  BY <1>6, RealEmitsFromWorker, RealEmitsFromHost
<1>7. CASE RealFails \/ RealDestroyed \/ WriteDone
  BY <1>7, RealFailsQuiet, RealDestroyedQuiet, WriteDoneQuiet
<1>8. CASE \E s \in Sides : Read(s) \/ SeesEnd(s) \/ Pause(s) \/ Resume(s) \/ Write(s) \/ Stop(s)
  BY <1>8, UsesIs, UseQuiet
<1>9. CASE UNCHANGED vars
  BY <1>9, StillQuiet DEF vars, linkVars
<1> QED
  BY <1>1, <1>2, <1>3, <1>4, <1>5, <1>6, <1>7, <1>8, <1>9 DEF Next

LEMMA InitChunkInv == Init => ChunkInv
<1> SUFFICES ASSUME Init PROVE ChunkInv
  OBVIOUS
<1>1. TypeOK /\ PortsOK
  BY InitTyped
<1>2. \A s \in Sides : /\ proxy[s].got = <<>> /\ proxy[s].buffer = <<>> /\ proxy[s].eof = FALSE
                       /\ proxy[s].state = "none" /\ proxy[s].saw = "nothing"
  BY DEF Init, NewProxy
<1>3. DataIn(<<>>) = {} /\ ~EndIn(<<>>) /\ Ordered(<<>>)
  BY DEF DataIn, EndIn, Ordered
<1>4. Src = <<>> /\ \A s \in Sides : In(s) = <<>>
  BY StreamAssumption DEF Init, LinksInit, Src, In, Sides
<1>5. Ahead = {} /\ ~EndAhead /\ SrcOrdered
  BY <1>3, <1>4 DEF Ahead, EndAhead, SrcOrdered
<1>6. ASSUME NEW s \in Sides
      PROVE  /\ Coming(s) = {} /\ ~EndComing(s) /\ InOrdered(s)
             /\ Got(s) = {} /\ Buffered(s) = {} /\ Had(s) = {} /\ ~Open(s) /\ ~Told(s)
  BY <1>2, <1>3, <1>4, NothingRead DEF Coming, EndComing, InOrdered, Got, Buffered, Had, Open, Told
<1>7. SourceOK
  BY <1>3, <1>5, <1>6, HostReads DEF SourceOK, Init, LinksInit
<1>8. ASSUME NEW s \in Sides PROVE SideOK(s)
  <2>1. ProxyOK(s)
    BY <1>2, <1>6, NothingRead DEF ProxyOK, Behind
  <2>2. OrderOK(s)
    BY <1>2, <1>5, <1>6 DEF OrderOK, Behind
  <2>3. GaplessOK(s)
    <3>1. Gapless({}) /\ Onward({}, {})
      BY DEF Gapless, Onward
    <3>2. Coming(s) \cup Ahead = {} /\ Had(s) \cup Coming(s) = {} /\ subs = {}
      BY <1>5, <1>6 DEF Init, LinksInit
    <3> QED
      BY <1>2, <1>5, <1>6, <3>1, <3>2 DEF GaplessOK
  <2> QED
    BY <2>1, <2>2, <2>3 DEF SideOK
<1> QED
  BY <1>1, <1>7, <1>8 DEF ChunkInv

\* a program sees the end after the last chunk, if it got one
EndAfterLast ==
  \A s \in Sides : mode = "readable" /\ proxy[s].saw = "end" =>
    /\ real.state = "ended"
    /\ proxy[s].got # <<>> /\ lapse # "renewed" => Last(proxy[s].got) = real.sent

\* what the chunks on their way, buffered and read mean for the programs
LEMMA ChunkInvOrders ==
  ASSUME TypeOK, ChunkInv
  PROVE  InOrder /\ EndAfterLast
<1>1. InOrder
  <2> SUFFICES ASSUME NEW s \in Sides, NEW i \in 2..Len(proxy[s].got)
               PROVE  /\ proxy[s].got[i - 1] < proxy[s].got[i]
                      /\ lapse # "renewed" => proxy[s].got[i] = proxy[s].got[i - 1] + 1
    BY DEF InOrder
  <2> DEFINE g == proxy[s].got
  <2>1. g \in Seq(Nat) /\ Ascending(g) /\ Behind(Got(s), Buffered(s)) /\ Got(s) = Range(g)
        /\ Buffered(s) \subseteq Nat
    BY ChunksAre DEF ChunkInv, SideOK, ProxyOK, Got
  <2> HIDE DEF g
  <2>2. i \in 2..Len(g)
    BY DEF g
  <2>3. PICK j \in DOMAIN g : j = i - 1 /\ i \in DOMAIN g /\ j < i /\ \A l \in DOMAIN g : l <= j \/ i <= l
    BY <2>1, <2>2
  <2>6. DOMAIN g \subseteq Nat /\ \A l \in DOMAIN g : g[l] \in Nat
    BY <2>1
  <2>4. g[j] < g[i] /\ g[j] \in Nat /\ g[i] \in Nat /\ g[i] \in Got(s) /\ g[j] \in Got(s)
    BY <2>1, <2>3, RangeIs DEF Ascending
  <2>5. ASSUME lapse # "renewed", g[i] # g[j] + 1 PROVE FALSE
    <3>1. Gapless(Had(s))
      BY <2>5 DEF ChunkInv, SideOK, GaplessOK
    <3>2. g[j] + 1 \in Had(s)
      BY <2>4, <2>5, <3>1 DEF Gapless, Had
    <3>3. g[j] + 1 \in Got(s)
      BY <2>1, <2>4, <2>5, <3>2 DEF Had, Behind
    <3>4. PICK l \in DOMAIN g : g[l] = g[j] + 1
      BY <2>1, <3>3, RangeIs
    <3>5. CASE l <= j
      <4>1. l = j \/ l < j
        BY <2>3, <2>6, <3>4, <3>5
      <4>2. l < j => g[l] < g[j]
        BY <2>1, <2>3, <3>4 DEF Ascending
      <4>3. CASE l = j
        BY <2>4, <3>4, <4>3
      <4> QED
        BY <2>4, <2>6, <3>4, <4>1, <4>2, <4>3
    <3>6. CASE i <= l
      <4>1. l = i \/ i < l
        BY <2>2, <2>3, <2>6, <3>4, <3>6
      <4>2. i < l => g[i] < g[l]
        BY <2>1, <2>3, <3>4 DEF Ascending
      <4>3. CASE l = i
        BY <2>5, <3>4, <4>3
      <4> QED
        BY <2>4, <2>5, <3>4, <4>1, <4>2, <4>3
    <3> QED
      BY <2>3, <3>5, <3>6
  <2> QED
    BY <2>3, <2>4, <2>5 DEF g
<1>2. EndAfterLast
  BY DEF EndAfterLast, ChunkInv, SideOK, OrderOK, GaplessOK
<1> QED
  BY <1>1, <1>2

\* every chunk is in its place in every behaviour
LEMMA ChunkInvHolds == Spec => [](TypeOK /\ ChunkInv)
<1>1. Init => TypeOK /\ ChunkInv
  BY InitTyped, InitChunkInv
<1>2. TypeOK /\ ChunkInv /\ [Next]_vars => (TypeOK /\ ChunkInv)'
  <2> SUFFICES ASSUME TypeOK, ChunkInv, [Next]_vars PROVE (TypeOK /\ ChunkInv)'
    OBVIOUS
  <2>1. (TypeOK /\ PortsOK)'
    BY NextTyped DEF ChunkInv
  <2> QED
    BY <2>1, NextChunkInv
<1> QED
  BY <1>1, <1>2, PTL DEF Spec

\* Reachable states are well typed: tables, ports, the real stream, proxies and
\* what programs read; a program writes nothing after the end of the stream.
THEOREM TypeOKHolds == Spec => []TypeOK
BY ChunkInvHolds, PTL

\* However many proxies there are, and whatever is paused, fails, closes or dies,
\* push() hands each program the chunks in the order of the real stream, none
\* twice; and none is left out between two others, unless the stream was passed
\* on after a close had made the StreamRouter forget its consumers.
THEOREM InOrderHolds == Spec => []InOrder
<1>1. TypeOK /\ ChunkInv => InOrder
  BY ChunkInvOrders
<1> QED
  BY <1>1, ChunkInvHolds, PTL

-----------------------------------------------------------------------------
(* The callbacks of writes. A result is on its way only once its write was   *)
(* done, and results come back to a program only where its messages reach    *)
(* the owner directly (Near). A worker's proxy is always created for a       *)
(* program of that worker, so that who may have written is known (Writers).  *)

Results == {"write_result", "write_error"}

\* the sides that may have written to the stream
Writers == {t \in Sides : IF t = Host THEN owner # Host ELSE proxy[t].used}

\* the writes that were done, by whomever, and the end
Settled == {n \in 1..Writes + 1 : n <= Writes => \E i \in DOMAIN real.written : real.written[i].n = n}

Honest ==
  {m \in Messages(mode) : /\ m.kind \in Writing => m.side \in Writers
                          /\ m.kind = "write_result" => m.n \in Settled}
Resultless == {m \in Honest : m.kind \notin Results}

\* what the ports of workers to the host, and those to workers, may hold
FromWorker(w) == IF w = owner THEN Honest ELSE Resultless
FromHost == IF owner = Host THEN Honest ELSE Resultless

PortsHonest ==
  \A w \in Workers : toHost[w] \in Seq(FromWorker(w)) /\ toWorker[w] \in Seq(FromHost)

RealHonest ==
  /\ real.due \in Seq([n : 1..Writes + 1, side : Writers])
  /\ real.written \in Seq([n : 1..Writes, side : Writers])

\* the host forgets its proxy and the router's table at the same time
HostRouted == owner # Host /\ ~Tracks(Host) => subs = {}

Near(s) == s = Host <=> owner # Host

\* what a program near the owner was told is true, any other is told nothing
Acked(s) ==
  /\ proxy[s].pending \in {0, proxy[s].begun}
  /\ Near(s) /\ Open(s) =>
       \A n \in 1..Writes : n <= proxy[s].begun /\ proxy[s].pending # n => n \in Settled
  /\ ~Near(s) => proxy[s].pending = proxy[s].begun /\ proxy[s].begun <= 1

AckInv == PortsHonest /\ RealHonest /\ HostRouted /\ \A s \in Sides : Acked(s)

\* what no step takes back
Keeps == owner' = owner /\ mode' = mode /\ Writers \subseteq Writers' /\ Settled \subseteq Settled'

\* what a step does to the writes of s: nothing ...
Idles(s) ==
  /\ proxy'[s].pending = proxy[s].pending /\ proxy'[s].begun = proxy[s].begun
  /\ proxy'[s].state = "open" => Open(s)

\* ... it starts anew, begins one, or is told of one
AckStep(s) ==
  \/ Idles(s)
  \/ proxy'[s].pending = 0 /\ proxy'[s].begun = 0
  \/ /\ proxy[s].pending = 0 /\ proxy'[s].begun = proxy[s].begun + 1
     /\ proxy'[s].pending = proxy'[s].begun
     /\ proxy'[s].state = "open" => Open(s)
  \/ /\ Near(s) /\ proxy'[s].pending = 0 /\ proxy'[s].begun = proxy[s].begun
     /\ proxy'[s].state = "open" => Open(s) /\ proxy[s].pending \in Settled

LEMMA SeqWithin ==
  ASSUME NEW S, NEW T, S \subseteq T, NEW q \in Seq(S)
  PROVE  q \in Seq(T)
OBVIOUS

LEMMA AckedOn ==
  ASSUME TypeOK, NEW s \in Sides, Acked(s), Keeps, AckStep(s), proxy'[s].begun \in Nat
  PROVE  Acked(s)'
<1> DEFINE P == proxy[s].pending
           B == proxy[s].begun
           Q == proxy'[s].pending
           C == proxy'[s].begun
<1>1. P \in Nat /\ B \in Nat /\ Writes \in Nat
  BY ProxyIs, StreamAssumption
<1>2. Near(s)' <=> Near(s)
  BY DEF Keeps, Near
<1>3. Open(s)' <=> proxy'[s].state = "open"
  BY DEF Open
<1>4. P \in {0, B} /\ (~Near(s) => P = B /\ B <= 1)
      /\ (Near(s) /\ Open(s) => \A n \in 1..Writes : n <= B /\ P # n => n \in Settled)
  BY DEF Acked
<1>5. SUFFICES /\ Q \in {0, C} /\ (~Near(s) => Q = C /\ C <= 1)
               /\ (Near(s) /\ proxy'[s].state = "open" =>
                     \A n \in 1..Writes : n <= C /\ Q # n => n \in Settled')
  BY <1>2, <1>3 DEF Acked
<1>6. \A n : n \in Settled => n \in Settled'
  BY DEF Keeps
<1>7. CASE Idles(s)
  BY <1>4, <1>6, <1>7 DEF Idles
<1>8. CASE Q = 0 /\ C = 0
  BY <1>8
<1>9. CASE P = 0 /\ C = B + 1 /\ Q = C /\ (proxy'[s].state = "open" => Open(s))
  BY <1>1, <1>4, <1>6, <1>9
<1>10. CASE /\ Near(s) /\ Q = 0 /\ C = B
            /\ proxy'[s].state = "open" => Open(s) /\ P \in Settled
  BY <1>1, <1>4, <1>6, <1>10
<1> QED
  BY <1>7, <1>8, <1>9, <1>10 DEF AckStep

LEMMA HonestOn ==
  ASSUME Keeps
  PROVE  /\ Honest \subseteq Honest' /\ Resultless \subseteq Resultless' /\ FromHost \subseteq FromHost'
         /\ \A w : FromWorker(w) \subseteq FromWorker(w)'
<1>1. Honest \subseteq Honest'
  BY DEF Keeps, Honest
<1>2. Resultless \subseteq Resultless'
  BY <1>1 DEF Resultless
<1>3. FromHost \subseteq FromHost'
  BY <1>1, <1>2 DEF Keeps, FromHost
<1>4. \A w : FromWorker(w) \subseteq FromWorker(w)'
  BY <1>1, <1>2 DEF Keeps, FromWorker
<1> QED
  BY <1>1, <1>2, <1>3, <1>4

\* ports that hold only what they might before
PortsStay ==
  \A w \in Workers : toHost'[w] \in Seq(FromWorker(w)) /\ toWorker'[w] \in Seq(FromHost)

LEMMA PortsOn ==
  ASSUME Keeps, PortsStay
  PROVE  PortsHonest'
BY HonestOn, SeqWithin DEF PortsStay, PortsHonest

\* the real stream may get a write of a writer
RealStays ==
  /\ real'.due \in Seq([n : 1..Writes + 1, side : Writers])
  /\ real'.written = real.written

LEMMA RealOn ==
  ASSUME Keeps, RealHonest, RealStays
  PROVE  RealHonest'
<1> DEFINE D == [n : 1..Writes + 1, side : Writers]
           E == [n : 1..Writes, side : Writers]
           D1 == [n : 1..Writes + 1, side : Writers']
           E1 == [n : 1..Writes, side : Writers']
<1>1. D \subseteq D1 /\ E \subseteq E1
  BY DEF Keeps
<1>2. real'.due \in Seq(D) /\ real'.written \in Seq(E)
  BY DEF RealStays, RealHonest
<1> HIDE DEF D, E, D1, E1
<1>3. real'.due \in Seq(D1) /\ real'.written \in Seq(E1)
  BY <1>1, <1>2, SeqWithin
<1> QED
  BY <1>3 DEF RealHonest, D1, E1

\* the host loses its proxy only with the router's table, which grows only while
\* it has one
RoutedOn ==
  owner # Host /\ entry'[Host].kind = "none" => subs' = {} \/ (~Tracks(Host) /\ subs' = subs)

LEMMA StillAcked ==
  ASSUME TypeOK, TypeOK', AckInv, owner' = owner, mode' = mode, RealStays, PortsStay, RoutedOn,
         \A t \in Workers : proxy[t].used => proxy'[t].used,
         \A s \in Sides : AckStep(s)
  PROVE  AckInv'
<1>1. Keeps
  <2>1. Settled' = Settled
    BY DEF RealStays, Settled
  <2>2. Writers \subseteq Writers'
    BY DEF Writers, Sides
  <2> QED
    BY <2>1, <2>2 DEF Keeps
<1>2. PortsHonest'
  BY <1>1, PortsOn
<1>3. RealHonest'
  BY <1>1, RealOn DEF AckInv
<1>4. HostRouted'
  BY DEF RoutedOn, HostRouted, Tracks, AckInv
<1>5. ASSUME NEW s \in Sides PROVE Acked(s)'
  <2>1. proxy'[s].begun \in Nat
    BY StreamAssumption DEF TypeOK, Proxies
  <2> QED
    BY <1>1, <2>1, AckedOn DEF AckInv
<1> QED
  BY <1>2, <1>3, <1>4, <1>5 DEF AckInv

LEMMA AckInit == Init => AckInv
<1> SUFFICES ASSUME Init PROVE AckInv
  OBVIOUS
<1>1. \A s \in Sides : proxy[s].pending = 0 /\ proxy[s].begun = 0
  BY DEF Init, NewProxy
<1>2. \A S : <<>> \in Seq(S)
  OBVIOUS
<1>3. PortsHonest
  BY <1>2 DEF Init, LinksInit, PortsHonest
<1>4. RealHonest
  BY <1>2 DEF Init, RealHonest
<1>5. HostRouted
  BY DEF Init, LinksInit, HostRouted
<1>6. \A s \in Sides : Acked(s)
  BY <1>1 DEF Acked
<1> QED
  BY <1>3, <1>4, <1>5, <1>6 DEF AckInv

\* messages that are not about writes may be in any port
LEMMA PlainHonest ==
  ASSUME NEW m \in Messages(mode), m.kind \notin WriteKinds
  PROVE  m \in Resultless /\ m \in FromHost /\ \A w : m \in FromWorker(w)
BY DEF Resultless, Honest, Writing, Results, WriteKinds, FromHost, FromWorker

LEMMA HonestSets ==
  /\ Resultless \subseteq Honest /\ Resultless \subseteq FromHost
  /\ \A w : Resultless \subseteq FromWorker(w)
BY DEF Resultless, FromHost, FromWorker

LEMMA AnswerHonest ==
  ASSUME NEW s, NEW m
  PROVE  Answer(s, m) \in Seq(Resultless)
<1>1. ASSUME NEW kind \in {"resume", "pause", "close"} PROVE <<Signal(kind)>> \in Seq(Resultless)
  <2>1. Signal(kind) \in Messages(mode) /\ Signal(kind).kind = kind
    BY MessageIs DEF Kinds, Sides, Signal, Msg
  <2>2. Signal(kind) \in Resultless
    BY <2>1, PlainHonest DEF WriteKinds
  <2> QED
    BY <2>2
<1>2. Answer(s, m) \in {<<>>, <<Signal("resume")>>, <<Signal("pause")>>, <<Signal("close")>>}
  BY Zenon DEF Answer
<1>3. <<>> \in Seq(Resultless)
  OBVIOUS
<1> QED
  BY <1>1, <1>2, <1>3

\* the host posts m, which does no harm in a worker's port or reaches none, and
\* what a proxy has to say to its owner
LEMMA HostPostsHonest ==
  ASSUME \A w \in Workers : toWorker[w] \in Seq(FromHost),
         NEW ws, NEW m, m \in FromHost \/ ws \cap Workers = {},
         NEW ms \in Seq(FromHost), HostPosts(ws, m, ms)
  PROVE  \A w \in Workers : toWorker'[w] \in Seq(FromHost)
BY DEF HostPosts

LEMMA WorkerPostsHonest ==
  ASSUME PortsOK, \A w \in Workers : toHost[w] \in Seq(FromWorker(w)),
         NEW v \in Workers, NEW ms \in Seq(FromWorker(v)), WorkerPosts(v, ms)
  PROVE  \A w \in Workers : toHost'[w] \in Seq(FromWorker(w))
BY DEF WorkerPosts, PortsOK

LEMMA ToOwnerHonest ==
  ASSUME TypeOK, PortsOK, PortsHonest, NEW s \in Sides, NEW ms \in Seq(Resultless), ToOwner(s, ms)
  PROVE  PortsStay
<1>0. ms \in Seq(FromHost) /\ \A w : ms \in Seq(FromWorker(w))
  BY HonestSets, SeqWithin
<1>1. CASE s = Host
  BY <1>0, <1>1, HostPostsHonest DEF ToOwner, PortsStay, PortsHonest
<1>2. CASE s # Host
  BY <1>0, <1>2, WorkerPostsHonest DEF ToOwner, PortsStay, PortsHonest, Sides
<1> QED
  BY <1>1, <1>2

LEMMA ToConsumersHonest ==
  ASSUME TypeOK, PortsOK, PortsHonest, NEW m \in Resultless, ToConsumers(m)
  PROVE  PortsStay
<1>1. CASE owner = Host
  <2>1. m \in FromHost /\ <<>> \in Seq(FromHost)
    BY HonestSets
  <2> QED
    BY <1>1, <2>1, HostPostsHonest DEF ToConsumers, PortsStay, PortsHonest
<1>2. CASE owner # Host
  <2>1. owner \in Workers /\ <<m>> \in Seq(FromWorker(owner))
    BY <1>2, HonestSets DEF TypeOK, Sides
  <2> QED
    BY <1>2, <2>1, WorkerPostsHonest DEF ToConsumers, PortsStay, PortsHonest
<1> QED
  BY <1>1, <1>2

LEMMA TakenHonest ==
  ASSUME PortsOK, PortsHonest, NEW v \in Workers
  PROVE  /\ toHost[v] # <<>> =>
              /\ Head(toHost[v]) \in FromWorker(v)
              /\ \A w \in Workers : [toHost EXCEPT ![v] = Tail(@)][w] \in Seq(FromWorker(w))
         /\ toWorker[v] # <<>> =>
              /\ Head(toWorker[v]) \in FromHost
              /\ \A w \in Workers : [toWorker EXCEPT ![v] = Tail(@)][w] \in Seq(FromHost)
BY DEF PortsOK, PortsHonest

\* a proxy with the same writes
LEMMA IdlesWhen ==
  ASSUME NEW s \in Sides, NEW p, proxy' = [proxy EXCEPT ![s] = p], TypeOK,
         p.pending = proxy[s].pending, p.begun = proxy[s].begun, p.used = proxy[s].used,
         p.state = "open" => Open(s)
  PROVE  \A t \in Sides : Idles(t) /\ proxy'[t].used = proxy[t].used
BY DEF TypeOK, Idles, Open

LEMMA DestroyedKeeps ==
  ASSUME TypeOK, NEW s \in Sides, NEW why
  PROVE  /\ Destroyed(s, why).pending = proxy[s].pending /\ Destroyed(s, why).begun = proxy[s].begun
         /\ Destroyed(s, why).used = proxy[s].used /\ Destroyed(s, why).state = "gone"
<1>1. proxy[s] \in Proxies
  BY ProxyIs
<1> QED
  BY <1>1 DEF Destroyed, Proxies

WritesKept == \A t \in Sides : Idles(t) /\ proxy'[t].used = proxy[t].used

LEMMA ProxiesSame ==
  ASSUME UNCHANGED proxy
  PROVE  WritesKept
BY DEF WritesKept, Idles, Open

\* what handling a message does to the writes
Handled(s, m) ==
  /\ \A t \in Sides : AckStep(t) /\ proxy'[t].used = proxy[t].used
  /\ RealStays
  /\ s # Host \/ m.kind # "close" => entry'[Host].kind = entry[Host].kind

LEMMA OnWriteResultHonest ==
  ASSUME TypeOK, NEW s \in Sides, NEW m \in Honest, m.kind \in Results, Near(s),
         OnWriteResult(s, m, m.kind = "write_result")
  PROVE  \A t \in Sides : AckStep(t) /\ proxy'[t].used = proxy[t].used
<1> DEFINE ok == m.kind = "write_result"
           why == IF ok THEN "end" ELSE "error"
           P == proxy[s].pending
<1>1. CASE ~(Tracks(s) /\ P = m.n)
  <2>1. UNCHANGED proxy
    BY <1>1 DEF OnWriteResult
  <2> QED
    BY <2>1, ProxiesSame DEF WritesKept, AckStep
<1>2. CASE Tracks(s) /\ P = m.n
  <2>1. PICK p \in Proxies : p = proxy[s]
    BY ProxyIs
  <2> DEFINE q == [p EXCEPT !.pending = 0]
             d == [Destroyed(s, why) EXCEPT !.pending = 0]
  <2>2. q.pending = 0 /\ q.begun = p.begun /\ q.used = p.used /\ q.state = p.state
    BY <2>1 DEF Proxies
  <2>3. d.pending = 0 /\ d.begun = p.begun /\ d.used = p.used /\ d.state = "gone"
    BY <2>1 DEF Proxies, Destroyed
  <2>4. proxy' = [proxy EXCEPT ![s] = q] \/ proxy' = [proxy EXCEPT ![s] = d]
    BY <1>2, <2>1 DEF OnWriteResult, TypeOK
  <2>5. proxy' # [proxy EXCEPT ![s] = d] => (Open(s) => ok)
    BY <1>2 DEF OnWriteResult, TypeOK
  <2>6. ok => P \in Settled
    BY <1>2 DEF Honest
  <2> HIDE DEF q, d, ok
  <2>7. \A t \in Sides \ {s} : proxy'[t] = proxy[t]
    BY <2>4 DEF TypeOK
  <2>8. proxy'[s] = q \/ proxy'[s] = d
    BY <2>4 DEF TypeOK
  <2>9. proxy'[s].state = "open" => Open(s) /\ P \in Settled
    BY <2>1, <2>2, <2>3, <2>4, <2>5, <2>6 DEF Open, TypeOK
  <2>10. AckStep(s) /\ proxy'[s].used = proxy[s].used
    BY <2>1, <2>2, <2>3, <2>8, <2>9 DEF AckStep
  <2> QED
    BY <2>7, <2>10 DEF AckStep, Idles, Open
<1> QED
  BY <1>1, <1>2

LEMMA HandleHonest ==
  ASSUME TypeOK, RealHonest, NEW s \in Sides, NEW m \in Honest, m.kind \in Results => Near(s),
         Handle(s, m)
  PROVE  Handled(s, m)
<1>0. m \in Messages(mode) /\ (UNCHANGED real => RealStays)
  BY DEF Honest, RealHonest, RealStays
<1>01. WritesKept => \A t \in Sides : AckStep(t) /\ proxy'[t].used = proxy[t].used
  BY DEF WritesKept, AckStep
<1>02. PICK p \in Proxies : p = proxy[s]
  BY ProxyIs
<1>1. CASE m.kind = "data" /\ OnRemoteData(s, m.n)
  <2> DEFINE q == [p EXCEPT !.buffer = Append(@, m.n), !.reading = Len(p.buffer) + 1 < HighWater]
  <2>1. q.pending = p.pending /\ q.begun = p.begun /\ q.used = p.used /\ q.state = p.state
    BY <1>02 DEF Proxies
  <2>2. proxy' = proxy \/ proxy' = [proxy EXCEPT ![s] = q]
    BY <1>02, <1>1 DEF OnRemoteData, TypeOK
  <2> HIDE DEF q
  <2>3. WritesKept
    BY <1>02, <2>1, <2>2, IdlesWhen, ProxiesSame DEF WritesKept, Open
  <2> QED
    BY <1>0, <1>01, <1>1, <2>3 DEF OnRemoteData, Handled
<1>2. CASE m.kind = "end" /\ OnRemoteEnd(s)
  <2> DEFINE q == [p EXCEPT !.eof = TRUE, !.reading = FALSE]
  <2>1. q.pending = p.pending /\ q.begun = p.begun /\ q.used = p.used /\ q.state = p.state
    BY <1>02 DEF Proxies
  <2>2. proxy' = proxy \/ proxy' = [proxy EXCEPT ![s] = q]
    BY <1>02, <1>2 DEF OnRemoteEnd, TypeOK
  <2> HIDE DEF q
  <2>3. WritesKept
    BY <1>02, <2>1, <2>2, IdlesWhen, ProxiesSame DEF WritesKept, Open
  <2> QED
    BY <1>0, <1>01, <1>2, <2>3 DEF OnRemoteEnd, Handled
<1>3. CASE m.kind = "error" /\ OnRemoteError(s)
  <2>2. proxy' = proxy \/ proxy' = [proxy EXCEPT ![s] = Destroyed(s, "error")]
    BY <1>3 DEF OnRemoteError
  <2>3. WritesKept
    BY <2>2, DestroyedKeeps, IdlesWhen, ProxiesSame DEF WritesKept
  <2>4. entry'[Host].kind = entry[Host].kind
    BY <1>3 DEF OnRemoteError, TypeOK, Entries, Sides
  <2> QED
    BY <1>0, <1>01, <1>3, <2>3, <2>4 DEF OnRemoteError, Handled
<1>4. CASE m.kind \in {"pause", "resume"} /\ \E flowing \in BOOLEAN : OnFlow(s, flowing)
  <2>1. real'.due = real.due /\ real'.written = real.written
    BY <1>4 DEF OnFlow, TypeOK, Reals
  <2>2. RealStays
    BY <2>1 DEF RealStays, RealHonest
  <2> QED
    BY <1>01, <1>4, <2>2, ProxiesSame DEF OnFlow, Handled
<1>5. CASE m.kind \in {"write", "write_end"} /\ OnWrite(s, m)
  <2>1. m.n \in 1..Writes + 1 /\ m.side \in Writers
    BY <1>5 DEF Honest, Messages, WriteKinds, Writing
  <2> DEFINE D == [n : 1..Writes + 1, side : Writers]
             d == [n |-> m.n, side |-> m.side]
  <2>2. d \in D /\ real.due \in Seq(D)
    BY <2>1 DEF RealHonest
  <2> HIDE DEF D, d
  <2>3. Append(real.due, d) \in Seq(D)
    BY <2>2
  <2>4. real' = real \/ real' = [real EXCEPT !.due = Append(@, d)]
    BY <1>5 DEF OnWrite, d
  <2>5. real'.due \in Seq(D) /\ real'.written = real.written
    BY <2>2, <2>3, <2>4 DEF TypeOK, Reals
  <2>6. RealStays
    BY <2>5 DEF RealStays, D
  <2> QED
    BY <1>01, <1>5, <2>6, ProxiesSame DEF OnWrite, Handled
<1>6. CASE m.kind \in Results /\ OnWriteResult(s, m, m.kind = "write_result")
  BY <1>0, <1>6, OnWriteResultHonest DEF OnWriteResult, Handled
<1>7. CASE m.kind = "close" /\ OnClose(s)
  <2>1. proxy' = proxy \/ proxy' = [proxy EXCEPT ![s] = Destroyed(s, "cut")]
    BY <1>7 DEF OnClose
  <2>2. WritesKept
    BY <2>1, DestroyedKeeps, IdlesWhen, ProxiesSame DEF WritesKept
  <2>3. real'.due = real.due /\ real'.written = real.written
    BY <1>7 DEF OnClose, TypeOK, Reals
  <2>4. RealStays
    BY <2>3 DEF RealStays, RealHonest
  <2>5. s # Host => entry'[Host] = entry[Host]
    BY <1>7 DEF OnClose, TypeOK, Sides
  <2> QED
    BY <1>01, <1>7, <2>2, <2>4, <2>5 DEF Handled
<1> QED
  BY <1>1, <1>2, <1>3, <1>4, <1>5, <1>6, <1>7 DEF Handle, Results

LEMMA WorkerHandlesAck ==
  ASSUME TypeOK, TypeOK', PortsOK, AckInv, NEW w \in Workers, WorkerHandles(w)
  PROVE  AckInv'
<1> DEFINE m == Head(toWorker[w])
<1>1. m \in FromHost /\ w \in Sides /\ w # Host /\ PortsHonest /\ RealHonest
  BY TakenHonest, HostAssumption DEF WorkerHandles, Sides, AckInv
<1>2. m \in Honest /\ (m.kind \in Results => owner = Host)
  BY <1>1 DEF FromHost, Resultless
<1>3. Handle(w, m) /\ WorkerPosts(w, Answer(w, m)) /\ UNCHANGED <<owner, routes, mode>>
  BY DEF WorkerHandles
<1>4. toWorker' = [toWorker EXCEPT ![w] = Tail(@)] /\ toWorker[w] # <<>>
  BY DEF WorkerHandles
<1> HIDE DEF m
<1>5. Handled(w, m)
  BY <1>1, <1>2, <1>3, HandleHonest DEF Near
<1>6. PortsStay
  <2>1. \A v \in Workers : toWorker'[v] \in Seq(FromHost)
    BY <1>1, <1>4, TakenHonest
  <2>2. Answer(w, m) \in Seq(FromWorker(w))
    BY AnswerHonest, HonestSets, SeqWithin
  <2>3. \A v \in Workers : toHost'[v] \in Seq(FromWorker(v))
    BY <1>1, <1>3, <2>2, WorkerPostsHonest DEF PortsHonest
  <2> QED
    BY <2>1, <2>3 DEF PortsStay
<1>7. RoutedOn
  BY <1>1, <1>3, <1>5 DEF Handled, RoutedOn, Tracks, routes
<1> QED
  BY <1>3, <1>5, <1>6, <1>7, StillAcked DEF Handled, Sides

LEMMA HostHandlesAck ==
  ASSUME TypeOK, TypeOK', PortsOK, AckInv, NEW w \in Workers, HostHandles(w)
  PROVE  AckInv'
<1> DEFINE m == Head(toHost[w])
           ms == IF Host \in Targets(m) THEN Answer(Host, m) ELSE <<>>
<1>1. m \in FromWorker(w) /\ Host \in Sides /\ w # Host /\ PortsHonest /\ RealHonest
  BY TakenHonest, HostAssumption DEF HostHandles, Sides, AckInv
<1>2. m \in Honest /\ (m.kind \in Results => owner # Host)
  BY <1>1 DEF FromWorker, Resultless
<1>3. /\ IF Host \in Targets(m) THEN Handle(Host, m) ELSE UNCHANGED <<entry, down, streamVars>>
      /\ HostPosts(Targets(m), m, ms)
      /\ IF m.kind = "close" THEN UnsubscribeAll ELSE UNCHANGED routes
      /\ UNCHANGED <<owner, mode>>
  BY DEF HostHandles
<1>4. toHost' = [toHost EXCEPT ![w] = Tail(@)] /\ toHost[w] # <<>>
  BY DEF HostHandles
<1>5. ms \in Seq(FromHost)
  <2>1. <<>> \in Seq(FromHost)
    OBVIOUS
  <2> QED
    BY <2>1, AnswerHonest, HonestSets, SeqWithin
<1> HIDE DEF m, ms
\* a result stops at the host
<1>6. m \in FromHost \/ Targets(m) \cap Workers = {}
  <2>1. CASE m.kind \in Results
    <3>1. Targets(m) = IF Tracks(Host) THEN {Host} ELSE subs
      BY <2>1 DEF Targets, Results
    <3>2. ~Tracks(Host) => subs = {}
      BY <1>2, <2>1 DEF AckInv, HostRouted
    <3> QED
      BY <3>1, <3>2, HostAssumption
  <2>2. CASE m.kind \notin Results
    BY <1>2, <2>2, HonestSets DEF Resultless
  <2> QED
    BY <2>1, <2>2
<1>7. PortsStay
  <2>1. \A v \in Workers : toHost'[v] \in Seq(FromWorker(v))
    BY <1>1, <1>4, TakenHonest
  <2>2. \A v \in Workers : toWorker'[v] \in Seq(FromHost)
    BY <1>1, <1>3, <1>5, <1>6, HostPostsHonest DEF PortsHonest
  <2> QED
    BY <2>1, <2>2 DEF PortsStay
<1>8. Handled(Host, m)
  <2>1. CASE Host \in Targets(m)
    BY <1>1, <1>2, <1>3, <2>1, HandleHonest DEF Near
  <2>2. CASE Host \notin Targets(m)
    BY <1>1, <1>3, <2>2, ProxiesSame DEF Handled, RealStays, RealHonest, streamVars, WritesKept, AckStep
  <2> QED
    BY <2>1, <2>2
<1>9. RoutedOn
  BY <1>3, <1>8 DEF Handled, RoutedOn, Tracks, routes, UnsubscribeAll
<1> QED
  BY <1>3, <1>7, <1>8, <1>9, StillAcked DEF Handled, Sides

LEMMA PassAck ==
  ASSUME TypeOK, TypeOK', AckInv, NEW s \in Sides, Pass(s), PortsStay,
         UNCHANGED routes \/ s = Host
  PROVE  AckInv'
<1>1. RealStays
  <2>1. real'.due = real.due /\ real'.written = real.written
    BY DEF Pass, TryRegisterLocal, TypeOK, Reals
  <2> QED
    BY <2>1 DEF RealStays, RealHonest, AckInv
<1>2. WritesKept /\ UNCHANGED <<owner, mode>>
  BY ProxiesSame DEF Pass
<1>3. owner # Host /\ s = Host => entry' = entry /\ Tracks(Host)
  BY DEF Pass, Holds, TryRegisterLocal, Tracks
<1>4. s # Host => entry'[Host] = entry[Host]
  BY DEF Pass, TryRegisterLocal, TypeOK, Sides
<1>5. RoutedOn
  BY <1>3, <1>4 DEF RoutedOn, Tracks, routes
<1> QED
  BY <1>1, <1>2, <1>5, StillAcked DEF WritesKept, AckStep, Sides

LEMMA RefHonest ==
  ASSUME NEW n \in Nat, NEW s \in Sides
  PROVE  LET m == MsgOf("ref", n, s) IN
           /\ m \in FromHost /\ <<m>> \in Seq(FromHost) /\ \A w : <<m>> \in Seq(FromWorker(w))
<1> DEFINE m == MsgOf("ref", n, s)
<1>1. m \in Messages(mode) /\ m.kind \notin WriteKinds
  BY RefTyped DEF MsgOf, WriteKinds
<1> HIDE DEF m
<1>2. m \in FromHost /\ \A w : m \in FromWorker(w)
  BY <1>1, PlainHonest
<1>3. <<m>> \in Seq(FromHost) /\ \A w : <<m>> \in Seq(FromWorker(w))
  BY <1>2
<1> QED
  BY <1>2, <1>3 DEF m

LEMMA HostPassesAck ==
  ASSUME TypeOK, TypeOK', PortsOK, AckInv, NEW w \in Workers, HostPasses(w)
  PROVE  AckInv'
<1>1. Pass(Host) /\ Host \in Sides /\ w \in Sides
  BY DEF HostPasses, Sides
<1>2. MsgOf("ref", 0, w) \in FromHost
  BY <1>1, RefHonest
<1>3. PortsStay
  <2>1. \A v \in Workers : toWorker'[v] \in Seq(FromHost)
    BY <1>2 DEF HostPasses, AckInv, PortsHonest, PortsOK
  <2> QED
    BY <2>1 DEF HostPasses, AckInv, PortsHonest, PortsStay
<1> QED
  BY <1>1, <1>3, PassAck

LEMMA WorkerPassesAck ==
  ASSUME TypeOK, TypeOK', PortsOK, AckInv,
         NEW w \in Workers, NEW t \in Sides, NEW argument \in BOOLEAN, WorkerPasses(w, t, argument)
  PROVE  AckInv'
<1>1. PICK n \in Nat : WorkerPosts(w, <<MsgOf("ref", n, t)>>)
  BY DEF WorkerPasses
<1>2. PortsStay
  BY <1>1, RefHonest, WorkerPostsHonest DEF WorkerPasses, AckInv, PortsHonest, PortsStay
<1> QED
  BY <1>2, PassAck DEF WorkerPasses, Sides

\* a proxy is created or used by one more program
LEMMA CreateProxyAck ==
  ASSUME TypeOK, NEW s \in Sides, NEW used \in BOOLEAN, CreateProxy(s, used)
  PROVE  /\ \A t \in Sides : AckStep(t)
         /\ \A t \in Sides : (t = s => used) /\ proxy[t].used => proxy'[t].used
         /\ entry'[s].kind = "proxy" /\ \A t \in Sides \ {s} : entry'[t] = entry[t]
<1>1. PICK p \in Proxies : p = proxy[s]
  BY ProxyIs
<1> DEFINE q == [p EXCEPT !.used = @ \/ used]
           new == [NewProxy EXCEPT !.used = used]
<1>2. q.pending = p.pending /\ q.begun = p.begun /\ q.state = p.state /\ q.used = (p.used \/ used)
  BY <1>1 DEF Proxies
<1>3. new.pending = 0 /\ new.begun = 0 /\ new.used = used
  BY DEF NewProxy
<1>4. proxy' = [proxy EXCEPT ![s] = q] \/ proxy' = [proxy EXCEPT ![s] = new]
  BY <1>1 DEF CreateProxy, TypeOK
<1> HIDE DEF q, new
<1>5. (proxy'[s] = q \/ proxy'[s] = new) /\ \A t \in Sides \ {s} : proxy'[t] = proxy[t]
  BY <1>4 DEF TypeOK
<1>6. \A t \in Sides : AckStep(t)
  BY <1>1, <1>2, <1>3, <1>5 DEF AckStep, Idles, Open
<1>7. \A t \in Sides : (t = s => used) /\ proxy[t].used => proxy'[t].used
  BY <1>1, <1>2, <1>3, <1>5
<1>8. entry'[s].kind = "proxy" /\ \A t \in Sides \ {s} : entry'[t] = entry[t]
  BY DEF CreateProxy, TypeOK, Opened
<1> QED
  BY <1>6, <1>7, <1>8

LEMMA WorkerGetsRefAck ==
  ASSUME TypeOK, TypeOK', PortsOK, AckInv, NEW w \in Workers, WorkerGetsRef(w)
  PROVE  AckInv'
<1>1. w \in Sides /\ w # Host /\ CreateProxy(w, TRUE)
  BY HostAssumption DEF WorkerGetsRef, Sides
<1>2. PortsStay
  BY TakenHonest DEF WorkerGetsRef, AckInv, PortsHonest, PortsStay
<1>3. RealStays
  BY DEF WorkerGetsRef, RealStays, RealHonest, AckInv
<1>4. RoutedOn
  BY <1>1, CreateProxyAck DEF WorkerGetsRef, RoutedOn, Tracks, routes, Sides
<1>5. \A t \in Workers : proxy[t].used => proxy'[t].used
  BY <1>1, CreateProxyAck DEF Sides
<1> QED
  BY <1>1, <1>2, <1>3, <1>4, <1>5, CreateProxyAck, StillAcked DEF WorkerGetsRef

LEMMA HostGetsRefAck ==
  ASSUME TypeOK, TypeOK', PortsOK, AckInv, NEW w \in Workers, HostGetsRef(w)
  PROVE  AckInv'
<1> DEFINE m == Head(toHost[w])
           onward == m.side # Host /\ (entry[Host].kind = "proxy" => Open(Host))
<1>1. Host \in Sides /\ CreateProxy(Host, m.side = Host) /\ m \in FromWorker(w) /\ m.kind = "ref"
  BY TakenHonest DEF HostGetsRef, Sides, AckInv
<1>2. m \in FromHost
  BY <1>1, PlainHonest DEF FromWorker, Resultless, Honest, WriteKinds
<1>3. /\ toHost' = [toHost EXCEPT ![w] = Tail(@)] /\ toHost[w] # <<>>
      /\ HostPosts({m.side}, m, <<>>) \/ UNCHANGED toWorker
      /\ UNCHANGED <<owner, mode, real>>
  BY DEF HostGetsRef
<1> HIDE DEF m
<1>4. PortsStay
  <2>1. <<>> \in Seq(FromHost)
    OBVIOUS
  <2>2. \A v \in Workers : toWorker'[v] \in Seq(FromHost)
    BY <1>2, <1>3, <2>1, HostPostsHonest DEF AckInv, PortsHonest
  <2>3. \A v \in Workers : toHost'[v] \in Seq(FromWorker(v))
    BY <1>3, TakenHonest DEF AckInv
  <2> QED
    BY <2>2, <2>3 DEF PortsStay
<1>5. RealStays
  BY <1>3 DEF RealStays, RealHonest, AckInv
<1>6. RoutedOn
  BY <1>1, CreateProxyAck DEF RoutedOn
<1>7. \A t \in Workers : proxy[t].used => proxy'[t].used
  BY <1>1, CreateProxyAck, HostAssumption DEF Sides
<1> QED
  BY <1>1, <1>3, <1>4, <1>5, <1>6, <1>7, CreateProxyAck, StillAcked

\* a step that leaves proxies and writes alone
LEMMA OthersAck ==
  ASSUME TypeOK, TypeOK', AckInv, UNCHANGED <<owner, mode, entry, proxy>>, PortsStay,
         real'.due = real.due, real'.written = real.written,
         owner # Host /\ ~Tracks(Host) => subs' = subs
  PROVE  AckInv'
<1>1. RealStays
  BY DEF RealStays, RealHonest, AckInv
<1>2. RoutedOn
  BY DEF RoutedOn, Tracks
<1>3. WritesKept
  BY ProxiesSame
<1> QED
  BY <1>1, <1>2, <1>3, StillAcked DEF WritesKept, AckStep, Sides

LEMMA MailboxStartsAck ==
  ASSUME TypeOK, TypeOK', PortsOK, ChunkInv, AckInv, NEW w \in Workers, MailboxStarts(w)
  PROVE  AckInv'
<1>1. Host \in Sides /\ w \in Sides
  BY DEF Sides
<1>2. Open(Host) => Tracks(Host)
  BY <1>1 DEF ChunkInv, SideOK, ProxyOK, Tracks, Opened
<1>3. MsgOf("ref", 0, w) \in FromHost /\ <<>> \in Seq(FromHost)
  BY <1>1, RefHonest
<1>4. PortsStay
  <2>1. \A v \in Workers : toWorker'[v] \in Seq(FromHost)
    BY <1>3, HostPostsHonest DEF MailboxStarts, AckInv, PortsHonest
  <2> QED
    BY <2>1 DEF MailboxStarts, AckInv, PortsHonest, PortsStay
<1> QED
  BY <1>2, <1>4, OthersAck DEF MailboxStarts, routes, streamVars

LEMMA RealAck ==
  ASSUME TypeOK, TypeOK', PortsOK, AckInv, RealEmits \/ RealFails \/ RealDestroyed
  PROVE  AckInv'
<1>1. real'.due = real.due /\ real'.written = real.written
  BY DEF RealEmits, RealFails, RealDestroyed, TypeOK, Reals
<1>2. ASSUME NEW m \in Messages(mode), m.kind \notin WriteKinds, ToConsumers(m) PROVE PortsStay
  BY <1>2, PlainHonest, ToConsumersHonest DEF AckInv
<1>3. UNCHANGED <<toHost, toWorker>> => PortsStay
  BY DEF AckInv, PortsHonest, PortsStay
<1>4. PortsStay
  <2>1. CASE RealEmits /\ real.sent < Chunks
    <3>1. real.sent + 1 \in 1..Chunks /\ real.sent + 1 \in Nat
      BY <2>1, StreamAssumption DEF TypeOK, Reals
    <3>2. Msg("data", real.sent + 1) \in Messages(mode)
      BY <3>1 DEF Msg, Messages, Kinds, WriteKinds, Sides
    <3> QED
      BY <1>2, <2>1, <3>2 DEF RealEmits, Msg, WriteKinds
  <2>2. CASE (RealEmits /\ ~(real.sent < Chunks)) \/ RealFails
    <3>1. Signal("end") \in Messages(mode) /\ Signal("error") \in Messages(mode)
      BY MessageIs DEF Kinds, Sides
    <3> QED
      BY <1>2, <2>2, <3>1 DEF RealEmits, RealFails, Signal, Msg, WriteKinds
  <2>3. CASE RealDestroyed
    BY <1>3, <2>3 DEF RealDestroyed
  <2> QED
    BY <2>1, <2>2, <2>3
<1> QED
  BY <1>1, <1>4, OthersAck DEF RealEmits, RealFails, RealDestroyed, RealStep, routes

LEMMA WriteDoneAck ==
  ASSUME TypeOK, TypeOK', PortsOK, AckInv, WriteDone
  PROVE  AckInv'
<1> DEFINE D == [n : 1..Writes + 1, side : Writers]
           E == [n : 1..Writes, side : Writers]
           d == Head(real.due)
           ok == real.state = "open"
           k == IF ok THEN "write_result" ELSE "write_error"
           m == Msg(k, d.n)
<1>1. real.due \in Seq(D) /\ real.due # <<>> /\ real.written \in Seq(E) /\ Writes \in Nat
  BY StreamAssumption DEF WriteDone, AckInv, RealHonest
<1>2. d \in D /\ Tail(real.due) \in Seq(D)
  <2> HIDE DEF D
  <2> QED
    BY <1>1
<1>3. d.n \in 1..Writes + 1 /\ (d.n <= Writes => d \in E)
  BY <1>1, <1>2
<1> DEFINE wr == IF ok /\ d.n <= Writes THEN Append(real.written, d) ELSE real.written
<1>4. real'.due = Tail(real.due) /\ real'.written = wr /\ ToConsumers(m) /\ RealStep
  BY DEF WriteDone, TypeOK, Reals
<1> HIDE DEF D, E, d, ok
<1>5. wr \in Seq(E)
  BY <1>1, <1>3
<1>6. \A i \in DOMAIN real.written : i \in DOMAIN wr /\ wr[i] = real.written[i]
  BY <1>1
<1>7. ok /\ d.n <= Writes => \E i \in DOMAIN wr : wr[i].n = d.n
  <2> SUFFICES ASSUME ok, d.n <= Writes PROVE \E i \in DOMAIN wr : wr[i].n = d.n
    OBVIOUS
  <2>1. wr = Append(real.written, d) /\ d \in E
    BY <1>3
  <2>2. Len(real.written) + 1 \in DOMAIN wr /\ wr[Len(real.written) + 1] = d
    BY <1>1, <2>1
  <2> QED
    BY <2>2
<1> HIDE DEF wr
<1>8. UNCHANGED <<owner, mode, proxy, entry, subs>> /\ owner \in Sides
  BY <1>4 DEF RealStep, routes, TypeOK
<1>9. Keeps
  <2>1. Writers' = Writers
    BY <1>8 DEF Writers
  <2>2. Settled \subseteq Settled'
    BY <1>4, <1>6 DEF Settled
  <2> QED
    BY <1>8, <2>1, <2>2 DEF Keeps
<1>10. RealHonest'
  <2>1. Writers' = Writers
    BY <1>8 DEF Writers
  <2> QED
    BY <1>2, <1>4, <1>5, <2>1 DEF RealHonest, D, E
\* the result follows the write
<1>11. m \in Honest'
  <2>1. mode = "writable"
    BY <1>1 DEF PortsOK, TypeOK
  <2>2. m \in Messages(mode) /\ m.kind = k /\ m.n = d.n
    BY <1>3, <2>1 DEF Msg, Messages, Kinds, WriteKinds, Sides
  <2>3. ok => d.n \in Settled'
    BY <1>3, <1>4, <1>7 DEF Settled
  <2>4. Messages(mode') = Messages(mode)
    BY <1>8
  <2> HIDE DEF m
  <2> QED
    BY <2>2, <2>3, <2>4 DEF Honest, Writing
<1> HIDE DEF m
<1>12. PortsHonest'
  <2>1. \A w \in Workers : toHost[w] \in Seq(FromWorker(w)') /\ toWorker[w] \in Seq(FromHost')
    BY <1>9, HonestOn, SeqWithin DEF AckInv, PortsHonest
  <2>2. CASE owner = Host
    <3>1. m \in FromHost'
      BY <1>8, <1>11, <2>2 DEF FromHost
    <3>2. PICK S : S = FromHost'
      OBVIOUS
    <3>3. \A w \in Workers : toWorker'[w] \in Seq(S)
      <4>1. \A w \in Workers : toWorker[w] \in Seq(S)
        BY <2>1, <3>2
      <4>2. <<m>> \in Seq(S) /\ <<>> \in Seq(S)
        BY <3>1, <3>2
      <4>3. HostPosts(subs, m, <<>>)
        BY <1>4, <2>2 DEF ToConsumers
      <4>4. \A w \in Workers : \E a, b \in Seq(S) : toWorker'[w] = (toWorker[w] \o a) \o b
        BY <4>2, <4>3 DEF HostPosts
      <4> QED
        <5>1. \A p, a, b \in Seq(S) : (p \o a) \o b \in Seq(S)
          OBVIOUS
        <5> QED
          BY <4>1, <4>4, <5>1
    <3> QED
      BY <1>4, <2>1, <2>2, <3>2, <3>3 DEF ToConsumers, PortsHonest
  <2>3. CASE owner # Host
    <3>1. \A w : w = owner => m \in FromWorker(w)'
      BY <1>8, <1>11 DEF FromWorker
    <3>2. toHost' = [toHost EXCEPT ![owner] = @ \o <<m>>] /\ toWorker' = toWorker
      BY <1>4, <2>3 DEF ToConsumers, WorkerPosts
    <3>3. ASSUME NEW w \in Workers PROVE toHost'[w] \in Seq(FromWorker(w)')
      <4>1. PICK S : S = FromWorker(w)'
        OBVIOUS
      <4>2. toHost[w] \in Seq(S) /\ (w = owner => m \in S)
        BY <2>1, <3>1, <4>1
      <4>3. w = owner => toHost[w] \o <<m>> \in Seq(S)
        BY <4>2
      <4>4. toHost'[w] = IF w = owner THEN toHost[w] \o <<m>> ELSE toHost[w]
        BY <3>2 DEF PortsOK
      <4> QED
        BY <4>1, <4>2, <4>3, <4>4
    <3> QED
      BY <2>1, <3>2, <3>3 DEF PortsHonest
  <2> QED
    BY <2>2, <2>3
<1>13. HostRouted'
  BY <1>8 DEF AckInv, HostRouted, Tracks
<1>14. \A s \in Sides : Acked(s)'
  BY <1>8, <1>9 DEF AckInv, Acked, Near, Open, Keeps
<1> QED
  BY <1>10, <1>12, <1>13, <1>14 DEF AckInv

\* a step of the program of s
LEMMA UseAck ==
  ASSUME TypeOK, TypeOK', PortsOK, AckInv, NEW s \in Sides, Use(s), PortsStay,
         AckStep(s), proxy'[s].used = proxy[s].used, \A t \in Sides \ {s} : proxy'[t] = proxy[t]
  PROVE  AckInv'
<1>1. UNCHANGED <<owner, entry, subs, mode, real>>
  BY DEF Use, routes
<1>2. RealStays
  BY <1>1 DEF RealStays, RealHonest, AckInv
<1>3. RoutedOn
  BY <1>1 DEF RoutedOn, Tracks
<1>4. \A t \in Sides : AckStep(t) /\ proxy'[t].used = proxy[t].used
  BY DEF AckStep, Idles, Open
<1> QED
  BY <1>1, <1>2, <1>3, <1>4, StillAcked DEF Sides

LEMMA SignalHonest ==
  ASSUME NEW kind \in {"resume", "pause", "close"}
  PROVE  <<Signal(kind)>> \in Seq(Resultless) /\ <<>> \in Seq(Resultless)
<1>1. Signal(kind) \in Messages(mode) /\ Signal(kind).kind \notin WriteKinds
  BY MessageIs DEF Kinds, WriteKinds, Sides, Signal, Msg
<1>2. Signal(kind) \in Resultless
  BY <1>1, PlainHonest
<1> QED
  BY <1>2

LEMMA ReadAck ==
  ASSUME TypeOK, TypeOK', PortsOK, AckInv, NEW s \in Sides,
         Read(s) \/ SeesEnd(s) \/ Pause(s) \/ Resume(s) \/ Stop(s)
  PROVE  AckInv'
<1>1. Use(s) /\ Open(s)
  BY DEF Read, SeesEnd, Pause, Resume, Stop, Reads, Use
<1>2. PICK ms \in Seq(Resultless) : ToOwner(s, ms)
  <2>1. PICK kind \in {"resume", "pause", "close"} :
          ToOwner(s, <<Signal(kind)>>) \/ ToOwner(s, <<>>)
    BY DEF Read, SeesEnd, Pause, Resume, Stop
  <2> QED
    BY <2>1, SignalHonest
<1>3. PortsStay
  BY <1>2, ToOwnerHonest DEF AckInv
<1>4. PICK p \in Proxies : p = proxy[s]
  BY ProxyIs
<1>5. /\ proxy'[s].pending = p.pending /\ proxy'[s].begun = p.begun /\ proxy'[s].used = p.used
      /\ \A t \in Sides \ {s} : proxy'[t] = proxy[t]
  <2>1. CASE SeesEnd(s) \/ Stop(s)
    <3>1. PICK why : proxy' = [proxy EXCEPT ![s] = Destroyed(s, why)]
      BY <2>1 DEF SeesEnd, Stop
    <3> QED
      BY <1>4, <3>1, DestroyedKeeps DEF TypeOK
  <2>2. CASE Pause(s)
    BY <1>4, <2>2 DEF Pause, TypeOK, Proxies
  <2>3. CASE Resume(s)
    <3>1. PICK x : proxy' = [proxy EXCEPT ![s].held = "before", ![s].reading = x]
      BY <2>3 DEF Resume
    <3> QED
      BY <1>4, <3>1 DEF TypeOK, Proxies
  <2>4. CASE Read(s)
    <3>1. PICK b, g, x : proxy' = [proxy EXCEPT ![s].buffer = b, ![s].got = g, ![s].reading = x]
      BY <2>4 DEF Read
    <3> QED
      BY <1>4, <3>1 DEF TypeOK, Proxies
  <2> QED
    BY <2>1, <2>2, <2>3, <2>4
<1>6. AckStep(s)
  BY <1>1, <1>4, <1>5 DEF AckStep, Idles
<1> QED
  BY <1>1, <1>3, <1>4, <1>5, <1>6, UseAck

LEMMA WriteAck ==
  ASSUME TypeOK, TypeOK', PortsOK, AckInv, NEW s \in Sides, Write(s)
  PROVE  AckInv'
<1> DEFINE n == proxy[s].begun + 1
           k == IF n <= Writes THEN "write" ELSE "write_end"
           m == MsgOf(k, n, s)
<1>1. /\ Use(s) /\ Open(s) /\ proxy[s].used /\ mode = "writable"
      /\ proxy[s].pending = 0 /\ proxy[s].begun <= Writes
      /\ proxy' = [proxy EXCEPT ![s].pending = n, ![s].begun = n]
      /\ ToOwner(s, <<m>>)
  BY DEF Write, Use
<1>2. n \in 1..Writes + 1 /\ n \in Nat
  <2>1. proxy[s].begun \in 0..Writes + 1 /\ Writes \in Nat
    BY ProxyIs, StreamAssumption
  <2> QED
    BY <1>1, <2>1
<1>3. m \in Messages(mode) /\ m.kind \in Writing /\ m.side = s
  BY <1>1, <1>2 DEF MsgOf, Messages, WriteKinds, Writing
<1> HIDE DEF n, m
<1>4. PortsStay
  <2>1. CASE s \in Writers
    <3>1. m \in Resultless
      BY <1>3, <2>1 DEF Resultless, Honest, Writing, Results
    <3>2. <<m>> \in Seq(Resultless)
      BY <3>1
    <3> QED
      BY <1>1, <3>2, ToOwnerHonest DEF AckInv
  \* the host writes to a proxy of its own stream: nothing is sent
  <2>2. CASE s \notin Writers
    <3>1. s = Host /\ owner = Host
      BY <1>1, <2>2 DEF Writers
    <3>2. \A w \in Workers : toWorker'[w] = (toWorker[w] \o <<>>) \o <<>>
      BY <1>1, <3>1, HostAssumption DEF ToOwner, HostPosts
    <3>3. \A w \in Workers : toWorker'[w] = toWorker[w]
      BY <3>2 DEF PortsOK
    <3> QED
      BY <1>1, <3>1, <3>3 DEF ToOwner, AckInv, PortsHonest, PortsStay
  <2> QED
    BY <2>1, <2>2
<1>5. PICK p \in Proxies : p = proxy[s]
  BY ProxyIs
<1>6. /\ proxy'[s].pending = n /\ proxy'[s].begun = n /\ proxy'[s].used = p.used
      /\ \A t \in Sides \ {s} : proxy'[t] = proxy[t]
  BY <1>1, <1>5 DEF TypeOK, Proxies
<1>7. AckStep(s)
  BY <1>1, <1>6 DEF AckStep, n
<1> QED
  BY <1>1, <1>4, <1>5, <1>6, <1>7, UseAck

LEMMA NextAck ==
  ASSUME TypeOK, TypeOK', ChunkInv, AckInv, [Next]_vars
  PROVE  AckInv'
<1>0. PortsOK
  BY DEF ChunkInv
<1>1. CASE \E w \in Workers : WorkerHandles(w) \/ HostHandles(w)
  BY <1>0, <1>1, WorkerHandlesAck, HostHandlesAck
<1>2. CASE \E w \in Workers : HostPasses(w) \/ WorkerGetsRef(w) \/ HostGetsRef(w) \/ MailboxStarts(w)
  BY <1>0, <1>2, HostPassesAck, WorkerGetsRefAck, HostGetsRefAck, MailboxStartsAck
<1>3. CASE \E w \in Workers, t \in Sides, argument \in BOOLEAN : WorkerPasses(w, t, argument)
  BY <1>0, <1>3, WorkerPassesAck
<1>4. CASE RealEmits \/ RealFails \/ RealDestroyed \/ WriteDone
  BY <1>0, <1>4, RealAck, WriteDoneAck
<1>5. CASE \E s \in Sides : Read(s) \/ SeesEnd(s) \/ Pause(s) \/ Resume(s) \/ Write(s) \/ Stop(s)
  BY <1>0, <1>5, ReadAck, WriteAck
<1>6. CASE UNCHANGED <<owner, entry, routes, toHost, toWorker, mode, streamVars>>
  <2>1. PortsStay
    BY <1>6 DEF AckInv, PortsHonest, PortsStay
  <2> QED
    BY <1>6, <2>1, OthersAck DEF routes, streamVars
<1>7. CASE \E w \in Workers : Crash(w)
  BY <1>6, <1>7 DEF Crash
<1>8. CASE UNCHANGED vars
  BY <1>6, <1>8 DEF vars, linkVars
<1> QED
  BY <1>1, <1>2, <1>3, <1>4, <1>5, <1>7, <1>8 DEF Next

\* if nobody else ever wrote, a write that was done is one's own
LEMMA AckInvTells ==
  ASSUME TypeOK, AckInv
  PROVE  AckedMeansWritten
<1> SUFFICES ASSUME NEW s \in Sides, mode = "writable", Alone(s), Open(s),
                    NEW n \in 1..Writes, n <= proxy[s].begun, proxy[s].pending # n
             PROVE  \E i \in DOMAIN real.written : real.written[i] = [n |-> n, side |-> s]
  BY DEF AckedMeansWritten
<1>1. proxy[s].begun \in Nat /\ Acked(s)
  BY StreamAssumption, ProxyIs DEF AckInv
<1>2. Near(s)
  BY <1>1 DEF Acked
<1>3. n \in Settled
  BY <1>1, <1>2 DEF Acked
<1>4. PICK i \in DOMAIN real.written : real.written[i].n = n
  BY <1>3 DEF Settled
<1>5. real.written[i] \in [n : 1..Writes, side : Writers]
  <2> DEFINE E == [n : 1..Writes, side : Writers]
  <2>1. real.written \in Seq(E)
    BY DEF AckInv, RealHonest
  <2> HIDE DEF E
  <2>2. real.written[i] \in E
    BY <1>4, <2>1
  <2> QED
    BY <2>2 DEF E
<1>6. \A t \in Writers : t = s
  BY <1>2, HostAssumption DEF Writers, Near, Alone, Sides
<1> QED
  BY <1>4, <1>5, <1>6

\* The write callback of the only program that writes to a stream runs after its
\* chunk reached the real stream, whatever is passed on, closed or dies on the way.
THEOREM AckedMeansWrittenHolds == Spec => []AckedMeansWritten
<1>1. Init => AckInv
  BY AckInit
<1>2. TypeOK /\ ChunkInv /\ TypeOK' /\ AckInv /\ [Next]_vars => AckInv'
  BY NextAck
<1>3. TypeOK /\ AckInv => AckedMeansWritten
  BY AckInvTells
<1> QED
  BY <1>1, <1>2, <1>3, ChunkInvHolds, PTL DEF Spec

=============================================================================
