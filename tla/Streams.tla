------------------------------ MODULE Streams ------------------------------
(***************************************************************************)
(* A Node.js stream that crosses the boundary: the StreamBridge of each     *)
(* side, the host's routing of stream messages, and the streams they feed.  *)
(* One stream lives, readable or writable, on a worker or on the host; its  *)
(* reference is returned, passed as an argument, or passed on by a holder,  *)
(* also back to its owner.  A duplex stream is the two halves side by side. *)
(*                                                                          *)
(* Of node:stream the module keeps what the bridge relies on: a Readable    *)
(* asks for more (_read) only while no earlier request is unanswered and    *)
(* its buffer is below the high-water mark; a Writable has one _write at a  *)
(* time; both are destroyed when they end, fail, or are told to, and then   *)
(* emit "close".                                                            *)
(***************************************************************************)
EXTENDS StreamLinks

CONSTANTS
  Owners,     \* the sides the stream may live on
  Chunks,     \* how many chunks a readable stream has
  Writes,     \* how many chunks a program writes before it ends the stream
  HighWater,  \* of the buffer of a proxy
  MaxPasses,  \* how often the reference is passed
  MaxUpsets   \* how often a program pauses or drops its proxy, a worker dies,
              \* or the real stream fails

ASSUME StreamAssumption ==
  /\ Owners \subseteq Sides
  /\ Chunks \in Nat /\ Writes \in Nat
  /\ MaxPasses \in Nat /\ MaxUpsets \in Nat
  /\ HighWater \in Nat \ {0}

VARIABLES
  mode,    \* readable or writable
  real,    \* the real stream, see Reals
  proxy,   \* the proxy of each side, see Proxies
  queued,  \* workers with a call waiting in a mailbox that carries the stream
  first,   \* the side that had the reference first, Host if none yet
  passes,  \* how often the reference was passed
  upsets   \* how often something else than passing and reading happened

streamVars == <<real, proxy>>
passVars == <<queued, first, passes>>
vars == <<linkVars, mode, streamVars, passVars, upsets>>

\* The real stream: chunks that were emitted and whether they flow; writes
\* whose callback is still due and chunks that were written.
Reals == [state : {"open", "ended", "failed", "destroyed"},
          sent : 0..Chunks, flowing : BOOLEAN,
          due : Seq([n : 1..Writes + 1, side : Sides]),
          written : Seq([n : 1..Writes, side : Sides])]

\* A proxy: whether a program holds it, what is buffered and whether a request
\* for more is unanswered, whether the program paused it, what the program got
\* and how the stream ended for it; the write under way and the last one begun.
Proxies == [state : {"none", "open", "gone"}, used : BOOLEAN,
            buffer : Seq(1..Chunks), eof : BOOLEAN, reading : BOOLEAN,
            held : {"never", "now", "before"},
            got : Seq(1..Chunks),
            saw : {"nothing", "end", "error", "cut", "stopped"},
            pending : 0..Writes + 1, begun : 0..Writes + 1]

NewProxy == [state |-> "open", used |-> FALSE,
             buffer |-> <<>>, eof |-> FALSE, reading |-> FALSE, held |-> "never",
             got |-> <<>>, saw |-> "nothing", pending |-> 0, begun |-> 0]

Init ==
  /\ LinksInit
  /\ owner \in Owners
  /\ mode \in {"readable", "writable"}
  /\ real = [state |-> "open", sent |-> 0, flowing |-> FALSE, due |-> <<>>, written |-> <<>>]
  /\ proxy = [s \in Sides |-> [NewProxy EXCEPT !.state = "none"]]
  /\ queued = {}
  /\ first = Host
  /\ passes = 0 /\ upsets = 0

Upset ==
  /\ upsets < MaxUpsets
  /\ upsets' = upsets + 1

Up(s) == s \notin down
Open(s) == proxy[s].state = "open"

\* The proxy of s is destroyed and its program sees why.
Destroyed(s, why) ==
  [proxy[s] EXCEPT !.state = "gone", !.buffer = <<>>, !.reading = FALSE,
                   !.saw = IF @ = "nothing" THEN why ELSE @]

-----------------------------------------------------------------------------
(* The StreamBridge of side s.  Each operator gives what a message does to   *)
(* the side; Answer gives what the side tells the owner at once.             *)

CreateProxy(s, used) ==
  IF entry[s].kind = "proxy"
  THEN /\ proxy' = [proxy EXCEPT ![s].used = @ \/ used]
       /\ UNCHANGED entry
  ELSE /\ entry' = [entry EXCEPT ![s] = Opened("proxy")]
       /\ proxy' = [proxy EXCEPT ![s] = [NewProxy EXCEPT !.used = used]]

Receives(s) == entry[s].kind = "proxy" /\ ~entry[s].closed

\* mutant: unshift() for push()
OnRemoteData_Unshift(s, chunk) ==
  /\ proxy' = IF Receives(s) /\ Open(s)
              THEN [proxy EXCEPT ![s].buffer = <<chunk>> \o @,
                                 ![s].reading = Len(proxy[s].buffer) + 1 < HighWater]
              ELSE proxy
  /\ UNCHANGED <<entry, real, down>>

\* push() and, below the high-water mark, the next _read()
OnRemoteData(s, chunk) ==
  /\ proxy' = IF Receives(s) /\ Open(s)
              THEN [proxy EXCEPT ![s].buffer = Append(@, chunk),
                                 ![s].reading = Len(proxy[s].buffer) + 1 < HighWater]
              ELSE proxy
  /\ UNCHANGED <<entry, real, down>>

\* mutant: the end is passed on at once and what is buffered is dropped
OnRemoteEnd_AtOnce(s) ==
  /\ proxy' = IF Receives(s) /\ Open(s)
              THEN [proxy EXCEPT ![s].buffer = <<>>, ![s].eof = TRUE, ![s].reading = FALSE]
              ELSE proxy
  /\ UNCHANGED <<entry, real, down>>

OnRemoteEnd(s) ==
  /\ proxy' = IF Receives(s) /\ Open(s)
              THEN [proxy EXCEPT ![s].eof = TRUE, ![s].reading = FALSE]
              ELSE proxy
  /\ UNCHANGED <<entry, real, down>>

OnRemoteError(s) ==
  /\ IF Tracks(s) /\ ~entry[s].closed
     THEN /\ entry' = [entry EXCEPT ![s].closed = TRUE]
          /\ proxy' = IF Receives(s) /\ Open(s)
                      THEN [proxy EXCEPT ![s] = Destroyed(s, "error")] ELSE proxy
     ELSE UNCHANGED <<entry, proxy>>
  /\ UNCHANGED <<real, down>>

OnFlow(s, flowing) ==
  /\ real' = IF IsOwner(s) THEN [real EXCEPT !.flowing = flowing] ELSE real
  /\ UNCHANGED <<entry, proxy, down>>

\* writable.write() or end() of the owner. For a side that does not own the
\* stream the handler throws, and nobody catches it: the worker dies, or the
\* process with all of its workers.
OnWrite(s, m) ==
  /\ IF IsOwner(s)
     THEN real' = [real EXCEPT !.due = Append(@, [n |-> m.n, side |-> m.side])] /\ UNCHANGED down
     ELSE down' = down \cup (IF s = Host THEN Sides ELSE {s}) /\ UNCHANGED real
  /\ UNCHANGED <<entry, proxy>>

\* The end of a stream is its last write.
Finishes(s, m) == m.kind = "write_result" /\ m.n = Writes + 1

OnWriteResult(s, m, ok) ==
  /\ proxy' = IF ~(Tracks(s) /\ proxy[s].pending = m.n) THEN proxy
              ELSE LET p == [proxy EXCEPT ![s].pending = 0] IN
                   IF Open(s) /\ (~ok \/ Finishes(s, m))
                   THEN [p EXCEPT ![s] = [Destroyed(s, IF ok THEN "end" ELSE "error")
                                           EXCEPT !.pending = 0]]
                   ELSE p
  /\ UNCHANGED <<entry, real, down>>

\* mutant: the entry is dropped and the stream not destroyed
OnClose_EntryOnly(s) ==
  /\ entry' = IF Tracks(s) /\ ~entry[s].closed THEN [entry EXCEPT ![s] = NoEntry] ELSE entry
  /\ UNCHANGED <<real, proxy, down>>

OnClose(s) ==
  /\ IF Tracks(s) /\ ~entry[s].closed
     THEN /\ entry' = [entry EXCEPT ![s] = NoEntry]
          /\ IF IsOwner(s)
             THEN /\ real' = [real EXCEPT !.state = IF @ = "open" THEN "destroyed" ELSE @]
                  /\ UNCHANGED proxy
             ELSE /\ proxy' = IF Open(s) THEN [proxy EXCEPT ![s] = Destroyed(s, "cut")] ELSE proxy
                  /\ UNCHANGED real
     ELSE UNCHANGED <<entry, real, proxy>>
  /\ UNCHANGED down

\* A message is handled by the bridge of side s.
Handle(s, m) ==
  \/ m.kind = "data" /\ OnRemoteData(s, m.n)
  \/ m.kind = "end" /\ OnRemoteEnd(s)
  \/ m.kind = "error" /\ OnRemoteError(s)
  \/ m.kind = "pause" /\ OnFlow(s, FALSE)
  \/ m.kind = "resume" /\ OnFlow(s, TRUE)
  \/ m.kind \in {"write", "write_end"} /\ OnWrite(s, m)
  \/ m.kind \in {"write_result", "write_error"} /\ OnWriteResult(s, m, m.kind = "write_result")
  \/ m.kind = "close" /\ OnClose(s)

\* A proxy answers a chunk with a request for more or with a pause, and
\* announces its own destruction.
Answer(s, m) ==
  IF ~Receives(s) THEN <<>>
  ELSE IF m.kind = "data"
       THEN <<Signal(IF Open(s) /\ Len(proxy[s].buffer) + 1 < HighWater
                     THEN "resume" ELSE "pause")>>
       ELSE IF Open(s) /\ \/ m.kind \in {"error", "close"}
                          \/ proxy[s].pending = m.n /\ (m.kind = "write_error" \/ Finishes(s, m))
            THEN <<Signal("close")>> ELSE <<>>

\* a worker handles the next message of the host
WorkerHandles(w) ==
  /\ Up(w)
  /\ toWorker[w] # <<>>
  /\ LET m == Head(toWorker[w]) IN
     /\ m.kind # "ref"
     /\ Handle(w, m)
     /\ WorkerPosts(w, Answer(w, m))
  /\ toWorker' = [toWorker EXCEPT ![w] = Tail(@)]
  /\ UNCHANGED <<owner, routes, mode, passVars, upsets>>

\* the host handles the next message of a worker: its own bridge may be one
\* of the targets, the others get the message as it is
HostHandles(w) ==
  /\ Up(Host)
  /\ toHost[w] # <<>>
  /\ LET m == Head(toHost[w]) IN
     /\ m.kind # "ref"
     /\ IF Host \in Targets(m) THEN Handle(Host, m) ELSE UNCHANGED <<entry, down, streamVars>>
     /\ HostPosts(Targets(m), m, IF Host \in Targets(m) THEN Answer(Host, m) ELSE <<>>)
     /\ IF m.kind = "close" THEN UnsubscribeAll ELSE UNCHANGED routes
  /\ toHost' = [toHost EXCEPT ![w] = Tail(@)]
  /\ UNCHANGED <<owner, mode, passVars, upsets>>

-----------------------------------------------------------------------------
(* The reference on its way.                                                *)

\* Side s can still encode the stream as a stream: the real one, which is
\* registered the first time, or its proxy.
Holds(s) ==
  IF entry[s].kind = "proxy"
  THEN Open(s) /\ proxy[s].used /\ proxy[s].pending <= Writes
  ELSE /\ s = owner /\ real.state = "open" /\ ~entry[s].closed
       /\ \A i \in DOMAIN real.due : real.due[i].n <= Writes

\* mutant: a stream is given a reference and not recorded
TryRegisterLocal_Unrecorded(s) ==
  IF Tracks(s) THEN UNCHANGED <<entry, real>>
  ELSE real' = [real EXCEPT !.flowing = TRUE] /\ UNCHANGED entry

\* Listening for "data" makes a real stream flow.
TryRegisterLocal(s) ==
  IF Tracks(s) THEN UNCHANGED <<entry, real>>
  ELSE /\ entry' = [entry EXCEPT ![s] = Opened("local")]
       /\ real' = [real EXCEPT !.flowing = TRUE]

Pass(s) ==
  /\ Up(s) /\ Holds(s)
  /\ passes < MaxPasses
  /\ passes' = passes + 1
  /\ TryRegisterLocal(s)
  /\ UNCHANGED <<owner, mode, down, proxy, queued, upsets>>

\* the host passes the stream in an argument: the worker is subscribed
HostPasses(w) ==
  /\ Pass(Host)
  /\ first' = IF passes = 0 THEN w ELSE first
  /\ Subscribe({w})
  /\ toWorker' = [toWorker EXCEPT ![w] = Append(@, MsgOf("ref", 0, w))]
  /\ UNCHANGED toHost

\* a method of w returns the stream to a caller on side t, or calls an actor
\* of t with the stream as an argument
WorkerPasses(w, t, argument) ==
  /\ Pass(w)
  /\ t # w
  /\ argument => t # Host
  /\ first' = IF passes = 0 /\ ~argument THEN t ELSE first
  /\ WorkerPosts(w, <<MsgOf("ref", IF argument THEN 1 ELSE 0, t)>>)
  /\ UNCHANGED <<routes, toWorker>>

\* decodeValue on a worker
WorkerGetsRef(w) ==
  /\ Up(w)
  /\ toWorker[w] # <<>> /\ Head(toWorker[w]).kind = "ref"
  /\ CreateProxy(w, TRUE)
  /\ toWorker' = [toWorker EXCEPT ![w] = Tail(@)]
  /\ UNCHANGED <<owner, routes, toHost, down, mode, real, passVars, upsets>>

\* mutant: the result of a bridged call is encoded later, as an argument is
HostGetsRef_ResultLater(w) ==
  /\ Up(Host)
  /\ toHost[w] # <<>> /\ Head(toHost[w]).kind = "ref"
  /\ LET t == Head(toHost[w]).side IN
     /\ CreateProxy(Host, t = Host)
     /\ Subscribe({Host})
     /\ queued' = IF t # Host THEN queued \cup {t} ELSE queued
  /\ toHost' = [toHost EXCEPT ![w] = Tail(@)]
  /\ UNCHANGED <<owner, toWorker, down, mode, real, first, passes, upsets>>

\* The host decodes the reference of w, subscribed as a consumer itself.  The
\* result of a bridged call is encoded at once for the calling worker, and
\* target and caller are subscribed; an argument waits in the target's mailbox.
HostGetsRef(w) ==
  /\ Up(Host)
  /\ toHost[w] # <<>> /\ Head(toHost[w]).kind = "ref"
  /\ LET m == Head(toHost[w])
         onward == m.side # Host /\ (entry[Host].kind = "proxy" => Open(Host)) IN
     /\ CreateProxy(Host, m.side = Host)
     /\ IF onward /\ m.n = 0
        THEN /\ Subscribe({Host, w, m.side})
             /\ HostPosts({m.side}, m, <<>>)
             /\ UNCHANGED queued
        ELSE /\ Subscribe({Host})
             /\ queued' = IF onward THEN queued \cup {m.side} ELSE queued
             /\ UNCHANGED toWorker
  /\ toHost' = [toHost EXCEPT ![w] = Tail(@)]
  /\ UNCHANGED <<owner, down, mode, real, first, passes, upsets>>

\* the mailbox of an actor of w comes to the call, whose arguments are encoded
MailboxStarts(w) ==
  /\ Up(Host)
  /\ w \in queued
  /\ queued' = queued \ {w}
  /\ IF Open(Host)
     THEN /\ Subscribe({w})
          /\ HostPosts({w}, MsgOf("ref", 0, w), <<>>)
     ELSE UNCHANGED <<routes, toWorker>>
  /\ UNCHANGED <<owner, entry, toHost, down, mode, streamVars, first, passes, upsets>>

-----------------------------------------------------------------------------
(* The real stream.                                                         *)


RealStep ==
  /\ Up(owner)
  /\ UNCHANGED <<owner, entry, routes, down, mode, proxy, passVars>>

RealEmits ==
  /\ RealStep /\ UNCHANGED upsets
  /\ mode = "readable" /\ real.state = "open" /\ real.flowing
  /\ IF real.sent < Chunks
     THEN /\ real' = [real EXCEPT !.sent = @ + 1]
          /\ ToConsumers(Msg("data", real.sent + 1))
     ELSE /\ real' = [real EXCEPT !.state = "ended"]
          /\ ToConsumers(Signal("end"))

RealFails ==
  /\ RealStep
  /\ Upset
  /\ real.state = "open" /\ passes > 0
  /\ real' = [real EXCEPT !.state = "failed"]
  /\ ToConsumers(Signal("error"))

\* the owner's program destroys its stream without an error: nothing is sent
RealDestroyed ==
  /\ RealStep
  /\ Upset
  /\ real.state = "open" /\ passes > 0
  /\ real' = [real EXCEPT !.state = "destroyed"]
  /\ UNCHANGED <<toHost, toWorker>>

\* mutant: the error of a write is not reported
WriteDone_NoError ==
  /\ RealStep /\ UNCHANGED upsets
  /\ real.due # <<>>
  /\ LET d == Head(real.due)
         ok == real.state = "open" IN
     /\ real' = [real EXCEPT
          !.due = Tail(@),
          !.written = IF ok /\ d.n <= Writes THEN Append(@, d) ELSE @,
          !.state = IF ok /\ d.n > Writes THEN "ended" ELSE @]
     /\ ToConsumers(Msg("write_result", d.n))

\* the callback of a write or of the end
WriteDone ==
  /\ RealStep /\ UNCHANGED upsets
  /\ real.due # <<>>
  /\ LET d == Head(real.due)
         ok == real.state = "open" IN
     /\ real' = [real EXCEPT
          !.due = Tail(@),
          !.written = IF ok /\ d.n <= Writes THEN Append(@, d) ELSE @,
          !.state = IF ok /\ d.n > Writes THEN "ended" ELSE @]
     /\ ToConsumers(Msg(IF ok THEN "write_result" ELSE "write_error", d.n))

-----------------------------------------------------------------------------
(* The program that holds a proxy.                                          *)

Use(s) ==
  /\ Up(s)
  /\ Open(s) /\ proxy[s].used
  /\ UNCHANGED <<owner, entry, routes, down, mode, real, passVars>>

Reads(s) == Use(s) /\ mode = "readable" /\ proxy[s].held # "now"

\* _read() if none is unanswered and the buffer of length n has room
WantsMore(s, n) == ~proxy[s].reading /\ ~proxy[s].eof /\ n < HighWater

\* the program reads: it takes a chunk, or asks for the first one
Read(s) ==
  /\ Reads(s) /\ UNCHANGED upsets
  /\ LET b == proxy[s].buffer
         more == WantsMore(s, IF b = <<>> THEN 0 ELSE Len(b) - 1) IN
     /\ b # <<>> \/ more
     /\ proxy' = [proxy EXCEPT ![s].buffer = IF b = <<>> THEN b ELSE Tail(b),
                               ![s].got = IF b = <<>> THEN @ ELSE Append(@, Head(b)),
                               ![s].reading = @ \/ more]
     /\ ToOwner(s, IF more THEN <<Signal("resume")>> ELSE <<>>)

SeesEnd(s) ==
  /\ Reads(s) /\ UNCHANGED upsets
  /\ proxy[s].eof /\ proxy[s].buffer = <<>>
  /\ proxy' = [proxy EXCEPT ![s] = Destroyed(s, "end")]
  /\ ToOwner(s, <<Signal("close")>>)

\* the program calls pause() and later resume(); the latter asks for more
\* under the same condition as any read
Pause(s) ==
  /\ Reads(s)
  /\ Upset
  /\ proxy' = [proxy EXCEPT ![s].held = "now"]
  /\ ToOwner(s, <<Signal("pause")>>)

Resume(s) ==
  /\ Use(s) /\ proxy[s].held = "now" /\ UNCHANGED upsets
  /\ LET more == WantsMore(s, Len(proxy[s].buffer)) IN
     /\ proxy' = [proxy EXCEPT ![s].held = "before", ![s].reading = @ \/ more]
     /\ ToOwner(s, IF more THEN <<Signal("resume")>> ELSE <<>>)

\* mutant: final() is called again for each end()
Write_EndAgain(s) ==
  /\ Use(s) /\ mode = "writable" /\ UNCHANGED upsets
  /\ proxy[s].begun <= Writes + 1
  /\ LET n == proxy[s].begun + 1 IN
     /\ proxy' = [proxy EXCEPT ![s].pending = n, ![s].begun = n]
     /\ ToOwner(s, <<MsgOf(IF n <= Writes THEN "write" ELSE "write_end", n, s)>>)

\* the program writes its next chunk, and after the last it ends the stream
Write(s) ==
  /\ Use(s) /\ mode = "writable" /\ UNCHANGED upsets
  /\ proxy[s].pending = 0 /\ proxy[s].begun <= Writes
  /\ LET n == proxy[s].begun + 1 IN
     /\ proxy' = [proxy EXCEPT ![s].pending = n, ![s].begun = n]
     /\ ToOwner(s, <<MsgOf(IF n <= Writes THEN "write" ELSE "write_end", n, s)>>)

\* the program destroys its proxy
Stop(s) ==
  /\ Use(s)
  /\ Upset
  /\ proxy' = [proxy EXCEPT ![s] = Destroyed(s, "stopped")]
  /\ ToOwner(s, <<Signal("close")>>)

\* a worker dies
Crash(w) ==
  /\ Up(w)
  /\ Upset
  /\ down' = down \cup {w}
  /\ UNCHANGED <<owner, entry, routes, toHost, toWorker, mode, streamVars, passVars>>

Next ==
  \/ \E w \in Workers :
       \/ WorkerHandles(w) \/ HostHandles(w)
       \/ HostPasses(w) \/ WorkerGetsRef(w) \/ HostGetsRef(w) \/ MailboxStarts(w)
       \/ \E t \in Sides, argument \in BOOLEAN : WorkerPasses(w, t, argument)
       \/ Crash(w)
  \/ RealEmits \/ RealFails \/ RealDestroyed \/ WriteDone
  \/ \E s \in Sides :
       Read(s) \/ SeesEnd(s) \/ Pause(s) \/ Resume(s) \/ Write(s) \/ Stop(s)

Spec == Init /\ [][Next]_vars

\* What event loops and ports do by themselves, the real stream while it flows
\* and its writes; and a program that reads goes on reading.
Fairness ==
  /\ \A w \in Workers :
       /\ WF_vars(WorkerHandles(w)) /\ WF_vars(HostHandles(w))
       /\ WF_vars(WorkerGetsRef(w)) /\ WF_vars(HostGetsRef(w)) /\ WF_vars(MailboxStarts(w))
  /\ WF_vars(RealEmits) /\ WF_vars(WriteDone)
  /\ \A s \in Sides : WF_vars(Read(s)) /\ WF_vars(SeesEnd(s)) /\ WF_vars(Resume(s))

FairSpec == Spec /\ Fairness

-----------------------------------------------------------------------------
(* Safety.                                                                  *)

\* Every variable holds a value of its kind, in particular no write follows the
\* end of the stream.
TypeOK ==
  /\ owner \in Sides /\ mode \in {"readable", "writable"}
  /\ entry \in [Sides -> Entries]
  /\ subs \in SUBSET Sides /\ lapse \in {"none", "forgotten", "renewed"} /\ down \in SUBSET Sides
  /\ real \in Reals
  /\ proxy \in [Sides -> Proxies]
  /\ queued \in SUBSET Workers /\ first \in Sides /\ passes \in 0..MaxPasses

\* A program gets the chunks in the order in which they were emitted, none
\* twice, however many proxies there are; and none is left out between two others,
\* unless the stream was passed on after a proxy's close had made the router
\* forget the proxies that still read.
InOrder ==
  \A s \in Sides : \A i \in 2..Len(proxy[s].got) :
    LET before == proxy[s].got[i - 1]  n == proxy[s].got[i] IN
    before < n /\ (lapse # "renewed" => n = before + 1)

\* The side that is given the stream by its owner, as an argument or result,
\* is subscribed before the first chunk arrives at the host: its program starts
\* with that one, and does not see the end of a stream with chunks without any.
FirstMissesNothing ==
  LET p == proxy[first] IN
  passes = 1 /\ (p.got # <<>> \/ (mode = "readable" /\ p.saw = "end" /\ real.sent > 0)) =>
    p.got # <<>> /\ p.got[1] = 1

\* The first program that is given a readable stream has got every chunk when it
\* sees the end. One that the stream was passed on to has got the last if it got
\* one (with the exception of InOrder): the chunks that passed before it was
\* subscribed are lost to it, and it may come to the end without any.
EndMeansAll ==
  \A s \in Sides :
    mode = "readable" /\ proxy[s].saw = "end" =>
      LET got == proxy[s].got IN
      /\ real.state = "ended"
      /\ got # <<>> /\ lapse # "renewed" => Last(got) = real.sent
      /\ passes = 1 /\ s = first =>
           \A n \in 1..real.sent : \E i \in DOMAIN got : got[i] = n

Alone(s) == \A t \in Sides \ {s} : ~proxy[t].used

\* The write callback of the only program that writes runs after its chunk
\* reached the real stream, not before.
AckedMeansWritten ==
  \A s \in Sides : mode = "writable" /\ Alone(s) /\ Open(s) =>
    \A n \in 1..Writes : n <= proxy[s].begun /\ proxy[s].pending # n =>
      \E i \in DOMAIN real.written : real.written[i] = [n |-> n, side |-> s]

\* A write never meets a host that does not know the stream, which would end
\* the process, while the one side the host gave its stream to keeps it.
HostSurvivesUnshared == passes <= 1 => Up(Host)

-----------------------------------------------------------------------------
(* Liveness.                                                                *)

\* A program that is given a stream by its owner, and reads on, comes to its
\* end or error; unless the owner's program silently destroys the stream or a
\* worker dies: neither is told to the consumer.  A program that pauses while a
\* request for more is unanswered may wait forever after it resumes.
ReaderSeesEnd ==
  (mode = "readable" /\ passes = 1 /\ Open(first) /\ proxy[first].used) ~>
    \/ proxy[first].saw \in {"end", "error", "stopped"}
    \/ proxy[first].held # "never" \/ real.state = "destroyed" \/ down # {}

\* A write is called back, if the host owns the stream or writes to it.
WriteSettles ==
  (passes = 1 /\ proxy[first].pending > 0 /\ Host \in {first, owner}) ~>
    (proxy[first].pending = 0 \/ ~Open(first) \/ down # {})

\* A consumer that is done stops the producer: the real stream does not go on
\* for nobody.
CloseReachesOwner ==
  (passes = 1 /\ \E s \in Sides : proxy[s].state = "gone") ~>
    (real.state # "open" \/ down # {})

=============================================================================
