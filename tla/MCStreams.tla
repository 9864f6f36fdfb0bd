----------------------------- MODULE MCStreams -----------------------------
(* Small instances of Streams for TLC: a host and two workers, told apart by  *)
(* which of them owns the stream.                                             *)
EXTENDS Streams

CONSTANTS w1, w2

TwoWorkers == {w1, w2}
HostOrWorker == {Host, w1}
OnlyHost == {Host}
=============================================================================
