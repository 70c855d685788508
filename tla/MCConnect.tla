----------------------------- MODULE MCConnect -----------------------------
(***************************************************************************)
(* The two ends of a connection that is being made, in one run: a dialer   *)
(* or an acceptor, which share nothing, so that only one of them (part)    *)
(* moves in a behaviour and the other stays as it was created.             *)
(***************************************************************************)
EXTENDS Acceptor

CONSTANT DialTimeout

VARIABLES part,
          dkind, sync, dstate, dspc, dstoppc, timer, dtracker, net, bound, toPost,
          devents, told, result, dhs, dpoller

dialer == <<dkind, sync, dstate, dspc, dstoppc, timer, dtracker, net, bound, toPost,
            devents, told, result, dhs, dpoller>>

D == INSTANCE Dialer WITH kind <- dkind, state <- dstate, spc <- dspc,
        stoppc <- dstoppc, tracker <- dtracker, events <- devents, hs <- dhs,
        poller <- dpoller

MCInit ==
    /\ D!Init /\ Init
    /\ \/ part = "dial" /\ kind = "tcp"
       \/ part = "accept" /\ dkind = "tcp" /\ ~sync

MCNext ==
    \/ part = "dial" /\ D!Next /\ UNCHANGED <<part, vars>>
    \/ part = "accept" /\ Next /\ UNCHANGED <<part, dialer>>

\* The part that does not move has nothing to be fair about.
MCSpec == MCInit /\ [][MCNext]_<<part, vars, dialer>> /\ D!Fairness /\ Fairness

\* The dial ends once, and as it was told (tcp_dialer.cpp, tls_dialer.cpp).
OneOutcome == D!IInv /\ D!OneOutcome

\* A dial that was started ends, unless it is a tls dial whose connect is
\* refused or whose handshaker times out before it has its tracker
\* (tcp_dialer.cpp, tls_dialer.cpp).
DialEnds == D!DialEndsUnlessRefused

\* The acceptor's table agrees with the handshakes, every connection is handed
\* over once at most, and a started acceptor goes on accepting
\* (tls_acceptor.cpp, base_acceptor.cpp).
AcceptorInv == IInv /\ TableHasHandshakes /\ AcceptChance

\* Stop and every handshake of an acceptor end, until a handshaker that times
\* out before it has its tracker takes the send poller away (tls_acceptor.cpp,
\* tls_handshaker.cpp: __handshake_finished).
AcceptEnds == StopEnds /\ HandshakersLeave
=============================================================================
