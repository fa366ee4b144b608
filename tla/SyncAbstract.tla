---------------------------- MODULE SyncAbstract ----------------------------
(***************************************************************************)
(* What the client's message synchronisation promises, without polls,     *)
(* cursors, retries or the seen-nonce set: the server's history srv only   *)
(* grows at its end, and the local log is always a prefix of it that only *)
(* grows, catching up with the server whenever it is behind.              *)
(***************************************************************************)
EXTENDS Integers, Sequences, SequencesExt

VARIABLES srv, log

Init == srv = <<>> /\ log = <<>>

\* The server appends one message.
Produce ==
  /\ Len(srv') = Len(srv) + 1
  /\ IsPrefix(srv, srv')
  /\ UNCHANGED log

\* The client takes a longer prefix of the server's history.
CatchUp ==
  /\ \E k \in Len(log) + 1 .. Len(srv) : log' = SubSeq(srv, 1, k)
  /\ UNCHANGED srv

Spec == Init /\ [][Produce \/ CatchUp]_<<srv, log>> /\ WF_<<srv, log>>(CatchUp)
=============================================================================
