---------------------------- MODULE StreamLinks ----------------------------
(***************************************************************************)
(* What carries one Node.js stream between the sides of a runtime: the      *)
(* tables of the StreamBridge of each side, the host's StreamRouter, and    *)
(* the message ports, on which messages arrive in the order they were sent. *)
(* The stream belongs to one side, its owner; the others hold proxies.      *)
(* Workers talk to the host only, which passes messages on.                 *)
(***************************************************************************)
EXTENDS Integers, Sequences, FiniteSets, SequencesExt

CONSTANTS Host, Workers

ASSUME HostAssumption == Host \notin Workers

VARIABLES
  owner,    \* the side the real stream lives on
  entry,    \* what the StreamBridge of each side knows of the stream
  subs,     \* StreamRouter: the sides that hold a proxy
  lapse,    \* history: whether the router forgot them, and got new ones
  toHost,   \* messages of each worker to the host
  toWorker, \* messages of the host to each worker
  down      \* the sides that died

routes == <<subs, lapse>>
linkVars == <<owner, entry, routes, toHost, toWorker, down>>

Sides == Workers \cup {Host}

\* A tracked stream is the real one ("local") or a proxy of it.
Entries == [kind : {"none", "local", "proxy"}, closed : BOOLEAN]
NoEntry == [kind |-> "none", closed |-> FALSE]
Opened(kind) == [kind |-> kind, closed |-> FALSE]

Tracks(s) == entry[s].kind # "none"
IsOwner(s) == entry[s].kind = "local"

\* Messages: n is the number of a chunk or of a write, from the side that
\* wrote the chunk, to the side a reference is on its way to.
Msg(kind, n) == [kind |-> kind, n |-> n, side |-> Host]
MsgOf(kind, n, side) == [kind |-> kind, n |-> n, side |-> side]
Signal(kind) == Msg(kind, 0)

LinksInit ==
  /\ entry = [s \in Sides |-> NoEntry]
  /\ subs = {} /\ lapse = "none"
  /\ toHost = [w \in Workers |-> <<>>]
  /\ toWorker = [w \in Workers |-> <<>>]
  /\ down = {}

\* StreamRouter: the sides ws hold a proxy; a close makes it forget all
Subscribe(ws) ==
  /\ subs' = subs \cup ws
  /\ lapse' = IF lapse = "forgotten" THEN "renewed" ELSE lapse

UnsubscribeAll ==
  /\ subs' = {}
  /\ lapse' = IF lapse = "none" THEN "forgotten" ELSE lapse

WorkerPosts(w, ms) == toHost' = [toHost EXCEPT ![w] = @ \o ms]

\* the host posts m to each worker of ws, and then ms to the owner
HostPosts(ws, m, ms) ==
  toWorker' = [w \in Workers |->
    toWorker[w] \o (IF w \in ws THEN <<m>> ELSE <<>>)
                \o (IF w = owner THEN ms ELSE <<>>)]

\* what a proxy of side s has to tell its owner
ToOwner(s, ms) ==
  IF s = Host
  THEN HostPosts({}, Signal("close"), ms) /\ UNCHANGED toHost
  ELSE WorkerPosts(s, ms) /\ UNCHANGED toWorker

\* what the real stream has to tell its consumers
ToConsumers(m) ==
  IF owner = Host
  THEN HostPosts(subs, m, <<>>) /\ UNCHANGED toHost
  ELSE WorkerPosts(owner, <<m>>) /\ UNCHANGED toWorker

\* mutant: resume goes where the data goes
Targets_ResumeToConsumers(m) ==
  CASE m.kind \in {"data", "end", "error", "resume"} -> subs
    [] m.kind \in {"pause", "write", "write_end"} -> {owner}
    [] m.kind \in {"write_result", "write_error"} -> IF Tracks(Host) THEN {Host} ELSE subs
    [] m.kind = "close" -> {owner} \cup {Host}

\* mutant: write results go to workers only
Targets_ResultToWorkers(m) ==
  CASE m.kind \in {"data", "end", "error"} -> subs
    [] m.kind \in {"pause", "resume", "write", "write_end"} -> {owner}
    [] m.kind \in {"write_result", "write_error"} -> subs \ {Host}
    [] m.kind = "close" -> {owner} \cup {Host}

\* The sides to which the host takes a stream message of a worker.
Targets(m) ==
  CASE m.kind \in {"data", "end", "error"} -> subs
    [] m.kind \in {"pause", "resume", "write", "write_end"} -> {owner}
    [] m.kind \in {"write_result", "write_error"} -> IF Tracks(Host) THEN {Host} ELSE subs
    [] m.kind = "close" -> {owner} \cup {Host}
=============================================================================
