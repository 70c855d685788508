---------------------------- MODULE MCTcpOverlap ----------------------------
(***************************************************************************)
(* The instance of TcpTransport with two sending threads for TLC.          *)
(***************************************************************************)
EXTENDS TcpTransport, TLC

\* The senders do the same and nothing orders them.
SenderSymmetry == Permutations(Senders)

\* States are the same if they differ only in values that are written before they
\* are read again, or in the histories accepted and wire, which no guard reads and
\* of which the run's properties ask only for types and for what a step adds.
LiveSz == [t \in Threads |-> IF pc[t] \in {"add", "cmp", "recmp"} THEN sz[t] ELSE 0]
LiveOld == [t \in Threads |-> IF pc[t] \in {"cmp", "recmp"} THEN old[t] ELSE 0]
LiveFull == [b \in Iobs |->
                IF pc[b[1]] # "idle" \/ b \in Queued \cup {last} THEN full[b] ELSE 0]
LiveState == <<state, opt, pend, slots, last, lastSize, flow, size, LiveFull, astray,
               events, strk, rtrk, rstate, shut, peer, pc, buf, LiveSz, LiveOld,
               nsent, startpc, stoppc, readpc, rpc, reads, ended>>

\* Bound: packets arrive where one of the threads does not send.
ReadsBesideOneSender == reads = 0 \/ \E s \in Senders : nsent[s] = 0
=============================================================================
