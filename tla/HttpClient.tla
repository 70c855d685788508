----------------------------- MODULE HttpClient -----------------------------
(***************************************************************************)
(* http::client (src/proto/http/client.cpp): one thread makes requests and *)
(* opens websockets, each on the connection of the last one or on a new    *)
(* one that is dialed synchronously, and waits for the answer on a         *)
(* condition variable.  resp_mx_ is held from the lock to the wait.        *)
(*                                                                         *)
(* The other actors are the read poller, which delivers answers and lost   *)
(* peers, and the send poller, which delivers stopped_cb and without which *)
(* no dial ends (Dialer).  Both enter __notify_response and its lock.      *)
(***************************************************************************)
EXTENDS Naturals, Sequences

CONSTANTS MaxCalls,  \* bound: requests and websockets
          MaxConns   \* bound: connections

Conns == 1 .. MaxConns
NoConn == 0
NoResp == 0

VARIABLES
    mx,        \* resp_mx_: "free", "user"
    conn,      \* conn_
    dialed,    \* connections made so far
    transp,    \* the transport of each connection
    parsing,   \* its pending packet is not finished
    waiting,   \* wait_for_response_
    resp,      \* resp_: the request it answers
    notified,  \* resp_cond_ was notified
    upc, call, kind,  \* control, number and kind of the call
    rconn, rresp,  \* the read poller is in __notify_response with these
    sconn,     \* the send poller is, for this connection
    server,    \* requests the server has to answer on each connection
    events,    \* connections whose stopped event is waiting
    results    \* history: what the calls returned

link == <<conn, dialed, transp, parsing, server, events>>
answer == <<waiting, resp, notified>>
vars == <<mx, conn, dialed, transp, parsing, waiting, resp, notified, upc, call,
          kind, rconn, rresp, sconn, server, events, results>>

Init ==
    /\ mx = "free" /\ conn = NoConn /\ dialed = 0
    /\ transp = [c \in Conns |-> "none"] /\ parsing = [c \in Conns |-> FALSE]
    /\ server = [c \in Conns |-> <<>>] /\ events = {}
    /\ waiting = FALSE /\ resp = NoResp /\ notified = FALSE
    /\ upc = "idle" /\ call = 0 /\ kind = "request"
    /\ rconn = NoConn /\ rresp = NoResp /\ sconn = NoConn
    /\ results = <<>>

-----------------------------------------------------------------------------
(* do_request and open_websocket.                                          *)

\* The host may be another one than last time: __destroy_connection.
Call ==
    /\ upc = "idle" /\ call < MaxCalls /\ mx = "free"
    /\ mx' = "user" /\ call' = call + 1
    /\ kind' \in {"request", "websocket"}
    /\ upc' \in {"reuse"} \cup (IF conn # NoConn THEN {"stop_dial"} ELSE {})
    /\ UNCHANGED <<link, answer, rconn, rresp, sconn, results>>

Valid(c) == c # NoConn /\ transp[c] = "started"

\* The connection is used again if it can read one more packet.
Reuse ==
    /\ upc = "reuse"
    /\ IF Valid(conn) /\ ~parsing[conn]
       THEN upc' = "send" /\ parsing' = [parsing EXCEPT ![conn] = TRUE]
       ELSE upc' = (IF Valid(conn) THEN "stop_dial" ELSE "dial") /\ UNCHANGED parsing
    /\ UNCHANGED <<mx, conn, dialed, transp, server, events, answer, call, kind,
                   rconn, rresp, sconn, results>>

StopsThen == [stop_dial |-> "reset_dial", stop_return |-> "reset_return"]

\* conn_->stop(): the transport posts its event to the send poller.
StopConn ==
    /\ upc \in DOMAIN StopsThen
    /\ transp' = [transp EXCEPT ![conn] = IF @ = "started" THEN "stopping" ELSE @]
    /\ events' = IF transp[conn] = "started" THEN events \cup {conn} ELSE events
    /\ upc' = StopsThen[upc]
    /\ UNCHANGED <<mx, conn, dialed, parsing, server, answer, call, kind, rconn,
                   rresp, sconn, results>>

\* conn_.reset()
ResetConn ==
    /\ upc \in {"reset_dial", "reset_return"}
    /\ conn' = NoConn
    /\ upc' = IF upc = "reset_dial" THEN "dial" ELSE "return"
    /\ UNCHANGED <<mx, dialed, transp, parsing, server, events, answer, call, kind,
                   rconn, rresp, sconn, results>>

\* The dial waits for the send poller; the new connection takes over from
\* whatever was in conn_, or the dial fails.  A tls dial may also wait for ever:
\* the connect is refused (Dialer), or the peer is silent and the handshake has
\* no timeout, which is what a client begins with.
Dial ==
    /\ upc = "dial" /\ sconn = NoConn
    /\ \/ /\ dialed < MaxConns
          /\ dialed' = dialed + 1 /\ conn' = dialed'
          /\ transp' = [transp EXCEPT ![dialed'] = "started"]
          /\ parsing' = [parsing EXCEPT ![dialed'] = TRUE]
          /\ upc' = "send"
       \/ upc' \in {"return", "hung"} /\ UNCHANGED <<dialed, conn, transp, parsing>>
    /\ UNCHANGED <<mx, server, events, answer, call, kind, rconn, rresp, sconn, results>>

Send ==
    /\ upc = "send"
    /\ IF transp[conn] = "started"
       THEN server' = [server EXCEPT ![conn] = Append(@, call)] /\ upc' = "wait"
       ELSE upc' = "return" /\ UNCHANGED server
    /\ UNCHANGED <<mx, conn, dialed, transp, parsing, events, answer, call, kind,
                   rconn, rresp, sconn, results>>

\* wait_for gives up the lock ...
Wait ==
    /\ upc = "wait"
    /\ waiting' = TRUE /\ notified' = FALSE
    /\ mx' = "free" /\ upc' = "waiting"
    /\ UNCHANGED <<link, resp, call, kind, rconn, rresp, sconn, results>>

\* Mutant: it waits for a notification only.
WakeNotified ==
    /\ upc = "waiting" /\ mx = "free" /\ notified
    /\ mx' = "user" /\ upc' = "woken"
    /\ UNCHANGED <<link, answer, call, kind, rconn, rresp, sconn, results>>

\* ... and takes it again when it was notified, when the time is over, or for no
\* reason: nothing is tested.
Wake ==
    /\ upc = "waiting" /\ mx = "free"
    /\ mx' = "user"
    /\ upc' \in {"timeout", "woken"}
    /\ UNCHANGED <<link, answer, call, kind, rconn, rresp, sconn, results>>

\* After a timeout the connection goes; a websocket leaves the flag set.
Timeout ==
    /\ upc = "timeout"
    /\ waiting' = (kind = "websocket")
    /\ upc' = IF conn = NoConn THEN "return" ELSE "stop_return"
    /\ UNCHANGED <<mx, link, resp, notified, call, kind, rconn, rresp, sconn, results>>

\* What a call returns, and whether it had been woken for no reason.
Result == [call |-> call, resp |-> resp, conn |-> conn, early |-> ~notified]

\* do_request moves the answer out.
TakeResponse ==
    /\ upc = "woken" /\ kind = "request"
    /\ results' = Append(results, Result)
    /\ resp' = NoResp /\ waiting' = FALSE
    /\ upc' = "return"
    /\ UNCHANGED <<mx, link, notified, call, kind, rconn, rresp, sconn>>

\* open_websocket hands the connection over if the answer agrees, else it goes.
TakeConnection ==
    /\ upc = "woken" /\ kind = "websocket"
    /\ waiting' = FALSE
    /\ \/ /\ resp # NoResp
          /\ results' = Append(results, Result)
          /\ conn' = NoConn /\ upc' = "return"
       \/ upc' = "stop_return" /\ UNCHANGED <<results, conn>>
    /\ UNCHANGED <<mx, dialed, transp, parsing, server, events, resp, notified, call,
                   kind, rconn, rresp, sconn>>

Return ==
    /\ upc = "return"
    /\ mx' = "free" /\ upc' = "idle"
    /\ UNCHANGED <<link, answer, call, kind, rconn, rresp, sconn, results>>

\* A dial waits for the promise that the send poller fulfils.
Calling ==
    \/ Reuse \/ StopConn \/ ResetConn \/ Dial \/ Send \/ Wait \/ Wake
    \/ Timeout \/ TakeResponse \/ TakeConnection \/ Return

-----------------------------------------------------------------------------
(* The pollers.  A callback finds its connection only while conn_ holds it. *)

\* on_read, with the answer to the first request.
Response(c) ==
    /\ rconn = NoConn /\ conn = c
    /\ transp[c] = "started" /\ parsing[c] /\ server[c] # <<>>
    /\ server' = [server EXCEPT ![c] = Tail(@)]
    /\ parsing' = [parsing EXCEPT ![c] = FALSE]
    /\ rconn' = c /\ rresp' = Head(server[c])
    /\ UNCHANGED <<mx, conn, dialed, transp, events, answer, upc, call, kind, sconn,
                   results>>

\* The server closes: on_disconnected.
PeerCloses(c) ==
    /\ rconn = NoConn /\ conn = c /\ transp[c] = "started"
    /\ transp' = [transp EXCEPT ![c] = "ended"]
    /\ rconn' = c /\ rresp' = NoResp
    /\ UNCHANGED <<mx, conn, dialed, parsing, server, events, answer, upc, call,
                   kind, sconn, results>>

\* on_stopped
StoppedEvent(c) ==
    /\ sconn = NoConn /\ c \in events
    /\ events' = events \ {c}
    /\ transp' = [transp EXCEPT ![c] = "ended"]
    /\ sconn' = IF conn = c THEN c ELSE NoConn
    /\ UNCHANGED <<mx, conn, dialed, parsing, server, answer, upc, call, kind, rconn,
                   rresp, results>>

\* Mutant: an answer of any connection is taken.
NotifyAny(c, r) ==
    /\ mx = "free"
    /\ IF waiting THEN resp' = r /\ notified' = TRUE ELSE UNCHANGED <<resp, notified>>

\* __notify_response, for the connection that is being waited for.
Notify(c, r) ==
    /\ mx = "free"
    /\ IF waiting /\ conn = c
       THEN resp' = r /\ notified' = TRUE
       ELSE UNCHANGED <<resp, notified>>

ReadPollerNotifies ==
    /\ rconn # NoConn /\ Notify(rconn, rresp)
    /\ rconn' = NoConn /\ rresp' = NoResp
    /\ UNCHANGED <<mx, link, waiting, upc, call, kind, sconn, results>>

SendPollerNotifies ==
    /\ sconn # NoConn /\ Notify(sconn, NoResp)
    /\ sconn' = NoConn
    /\ UNCHANGED <<mx, link, waiting, upc, call, kind, rconn, rresp, results>>

-----------------------------------------------------------------------------
Next ==
    \/ Call \/ Calling
    \/ \E c \in Conns : Response(c) \/ PeerCloses(c) \/ StoppedEvent(c)
    \/ ReadPollerNotifies \/ SendPollerNotifies

Spec == Init /\ [][Next]_vars

\* A call goes on, also by its timeout, and both pollers run.  A mutex that
\* others want too is got in the end.
Fairness ==
    /\ WF_vars(Calling /\ upc # "waiting") /\ SF_vars(Wake)
    /\ SF_vars(ReadPollerNotifies) /\ SF_vars(SendPollerNotifies)

FairSpec == Spec /\ Fairness

-----------------------------------------------------------------------------
(* Properties.                                                             *)

TypeOK ==
    /\ mx \in {"free", "user"}
    /\ conn \in 0 .. dialed /\ dialed \in 0 .. MaxConns
    /\ transp \in [Conns -> {"none", "started", "stopping", "ended"}]
    /\ rconn \in 0 .. dialed /\ sconn \in 0 .. dialed
    /\ call \in 0 .. MaxCalls /\ Len(results) <= call

\* What a call returns is the answer to its own request, also when an earlier
\* one timed out and its answer came late, unless it or an earlier call on its
\* connection was woken for no reason (client.cpp: do_request,
\* __notify_response).
AnswerIsOurs ==
    \A i \in DOMAIN results :
        \/ results[i].resp \in {NoResp, results[i].call}
        \/ \E j \in 1 .. i : results[j].early /\ results[j].conn = results[i].conn

\* A call that has a connection returns, whatever the server does and however
\* its callbacks contend for the lock (client.cpp: do_request, open_websocket).
SentCallReturns == (upc = "send") ~> (upc = "idle")
=============================================================================
