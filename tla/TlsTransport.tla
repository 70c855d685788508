---------------------------- MODULE TlsTransport ----------------------------
(***************************************************************************)
(* A tls_transport: src/transport/tls_transport.cpp with flow_tls.cpp and  *)
(* tls_utils.cpp.  Starting, stopping and sending are tcp_transport's,     *)
(* line by line, and are taken from TcpTransport; reading is not.  The     *)
(* session takes whole records from the socket and hands them over in      *)
(* pieces of the size of the read buffer, so that there may be data to     *)
(* read while the socket has none: async_read then posts an event to the   *)
(* read poller instead of starting the read tracker.                       *)
(*                                                                         *)
(* tls says of which kind the transport of a behaviour is, so that one     *)
(* specification covers both.                                              *)
(***************************************************************************)
EXTENDS TcpTransport

CONSTANTS RecordReads,  \* read buffers that one record fills at most
          TlsReads,     \* bound: read buffers a peer sends over tls
          TlsSends      \* bound: buffers a sender sends over tls

VARIABLES tls,          \* it is a tls_transport
          unread,       \* read buffers the session holds: has_unread_data()
          half,         \* the session has taken part of a record
          posted        \* channel_event_read is posted to the read poller

session == <<unread, half, posted>>
transport == <<vars, tls, session>>

TransportInit ==
    /\ Init
    /\ tls \in BOOLEAN
    /\ unread = 0 /\ half = FALSE /\ posted = FALSE

\* What tls_transport.cpp does as tcp_transport.cpp does.
Same(A) == A /\ UNCHANGED <<tls, session>>

TlsStart == Same(Start \/ StartDone)
TlsStop == Same(Stopping)
TlsSend(s) ==
    /\ (tls /\ pc[s] = "idle") => nsent[s] < TlsSends
    /\ Same(Send(s))
TlsSendOnce(t) == Same(SendOnce(t))
TlsSendPolling == Same(SendPolling)

-----------------------------------------------------------------------------
(* async_read.                                                             *)

\* In loop mode the state is not looked at again.
TlsAsyncReadCheck ==
    /\ tls /\ readpc = "check"
    /\ readpc' = IF ReadMode = "loop" \/ state = "started" THEN "change" ELSE "leave"
    /\ UNCHANGED <<state, opt, sendVars, ioVars, rtrk, rstate, rpc, reads,
                   readLocal, tls, session>>

TlsTrackOrPost(post) ==
    /\ tls /\ readpc = "track"
    /\ posted' = (posted \/ post) /\ rtrk' = (rtrk \/ ~post)
    /\ readpc' = "leave"
    /\ UNCHANGED <<state, opt, sendVars, ioVars, rstate, rpc, reads, readLocal,
                   tls, unread, half>>

\* Mutant: what the session holds is forgotten.
TlsAsyncReadTrackOnly == TlsTrackOrPost(FALSE)

TlsAsyncReadTrack == TlsTrackOrPost(ReadMode = "once" /\ unread > 0)

\* The rest of async_read is tcp_transport's.
TlsAsyncRead ==
    Same(AsyncRead \/ AsyncReadEnter \/ AsyncReadChange \/ AsyncReadLeave)

-----------------------------------------------------------------------------
(* on_read_event, and channel_event_read, which does the same.             *)

\* The socket has records, or their end.
TlsReadEvent ==
    /\ tls /\ rpc = "idle" /\ rtrk
    /\ reads + unread < TlsReads \/ EndOfStream
    /\ rtrk' = FALSE
    /\ rpc' = "wait"
    /\ UNCHANGED <<state, opt, sendVars, ioVars, rstate, readpc, reads, readLocal,
                   tls, session>>

TlsChannelEventRead ==
    /\ tls /\ rpc = "idle" /\ posted
    /\ posted' = FALSE
    /\ rpc' = "wait"
    /\ UNCHANGED <<state, opt, sendVars, ioVars, rtrk, rstate, readpc, reads,
                   readLocal, tls, unread, half>>

\* tls_read: a piece of the record at hand or of the next one (size > 0), part
\* of a record (SSL_ERROR_WANT_READ, size < 0), or the end (0).
TlsRead ==
    /\ tls /\ rpc = "read"
    /\ \/ /\ unread > 0
          /\ unread' = unread - 1 /\ reads' = reads + 1 /\ rpc' = "got"
          /\ UNCHANGED half
       \/ /\ unread = 0 /\ reads < TlsReads
          /\ \E n \in 0 .. RecordReads - 1 :
                reads + n < TlsReads /\ unread' = n
          /\ reads' = reads + 1 /\ rpc' = "got" /\ half' = FALSE
       \/ /\ unread = 0 /\ reads < TlsReads /\ ~half
          /\ half' = TRUE /\ rpc' = "again"
          /\ UNCHANGED <<unread, reads>>
       \/ /\ unread = 0 /\ EndOfStream
          /\ rpc' = "try"
          /\ UNCHANGED <<unread, half, reads>>
    /\ UNCHANGED <<state, opt, sendVars, ioVars, rtrk, rstate, readpc, readLocal,
                   tls, posted>>

\* size < 0: the read stays pending.
TlsReadMore ==
    /\ tls /\ rpc = "again"
    /\ rtrk' = TRUE
    /\ rpc' = IF rtrk THEN "try" ELSE "idle"
    /\ UNCHANGED <<state, opt, sendVars, ioVars, rstate, readpc, reads, readLocal,
                   tls, session>>

TlsReading ==
    Same(ReadWait \/ ReadAgain \/ ReadCallback \/ ReadFails \/ ReadFinalCallback)

-----------------------------------------------------------------------------
TcpAsyncReading == ~tls /\ Same(AsyncReadCheck \/ AsyncReadTrack)
TcpReading == ~tls /\ Same(ReadEvent \/ Read)

\* The peer stays connected: TcpTransport has the one that closes.
TransportNext ==
    \/ TlsStart \/ TlsStop \/ TlsSendPolling
    \/ \E s \in Senders : TlsSend(s)
    \/ \E t \in Threads : TlsSendOnce(t)
    \/ TlsAsyncRead \/ TlsAsyncReadCheck \/ TlsAsyncReadTrack
    \/ TlsReadEvent \/ TlsChannelEventRead \/ TlsRead \/ TlsReadMore \/ TlsReading
    \/ TcpAsyncReading \/ TcpReading

TransportSpec == TransportInit /\ [][TransportNext]_transport

\* As in TcpTransport: threads and pollers run, and a peer that does not close
\* keeps receiving.  The rest of a record that has begun to arrive arrives.
TransportFairness ==
    /\ \A s \in Senders : WF_transport(pc[s] # "idle" /\ TlsSend(s))
    /\ \A t \in Threads :
        WF_transport(TlsSendOnce(t)) /\ SF_transport(Same(NetSend(t)))
    /\ WF_transport(Same(StopCas \/ StopWait \/ StopClose \/ StopDisconnecting))
    /\ WF_transport(readpc # "idle" /\ (TlsAsyncRead \/ TlsAsyncReadCheck
                                        \/ TlsAsyncReadTrack \/ TcpAsyncReading))
    /\ SF_transport(Same(SendEvent)) /\ SF_transport(Same(ChannelEvent))
    /\ WF_transport(Same(SendFails \/ TriggerDisconnected \/ TriggerStopped
                         \/ FinalCallback))
    /\ WF_transport(TlsReadEvent \/ TlsChannelEventRead \/ TlsRead \/ TlsReadMore
                    \/ TlsReading \/ TcpReading)

TransportFairSpec == TransportSpec /\ TransportFairness

-----------------------------------------------------------------------------
(* Properties.                                                             *)

\* Two reads are never in progress, although in once mode the read state is
\* freed before read_cb and async_read may start the next one during it: the
\* trackers, the posted event, async_read and the read poller share no lock
\* (tcp_transport.cpp:290, tls_transport.cpp:175).
OneRead ==
    LET holders == {h \in {"tracker", "event", "async_read", "poller"} :
                      \/ h = "tracker" /\ rtrk
                      \/ h = "event" /\ posted
                      \/ h = "async_read" /\ readpc = "track"
                      \/ h = "poller" /\ rpc \in {"wait", "read", "again", "got"}}
    IN  Cardinality(holders) <= 1 /\ (holders # {} => rstate = "pending")

ToRead == IF tls THEN TlsReads ELSE MaxReads

\* A pending read is served while there is something to read, in the socket or
\* in the session of tls_transport: async_read must not wait for a socket that
\* has nothing left (tls_transport.cpp:175).
PendingReadServed ==
    \A n \in 0 .. TlsReads - 1 :
        (rstate = "pending" /\ reads = n /\ n < ToRead /\ state = "started")
        ~> (reads > n \/ rstate = "none" \/ state # "started")
=============================================================================
