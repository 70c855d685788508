------------------------------- MODULE MCHttp -------------------------------
(***************************************************************************)
(* What is built on the transports, in one run: an http connection, an     *)
(* http client or a udp transport.  They share nothing, so that only one   *)
(* of them (part) moves in a behaviour and the others stay as they were    *)
(* created.                                                                *)
(***************************************************************************)
EXTENDS HttpConnection

CONSTANTS Parts,                           \* those that may move
          MaxCalls, MaxConns,              \* of HttpClient
          MaxDatagrams, MaxStray           \* of UdpTransport

ASSUME ClientAssumption == MaxConns \in Nat

VARIABLES part,
          mx, conn, dialed, links, parsing, waiting, resp, notified, upc, call,
          kind, rconn, rresp, sconn, server, events, results,
          mode, ustate, rstate, rtrk, shut, event, datagrams, arrived, strays,
          calls, supc, apc, urpc, spc, usent, ugot, utold

client == <<mx, conn, dialed, links, parsing, waiting, resp, notified, upc, call,
            kind, rconn, rresp, sconn, server, events, results>>
udp == <<mode, ustate, rstate, rtrk, shut, event, datagrams, arrived, strays,
         calls, supc, apc, urpc, spc, usent, ugot, utold>>

C == INSTANCE HttpClient WITH transp <- links
U == INSTANCE UdpTransport WITH state <- ustate, waiting <- datagrams,
        upc <- supc, rpc <- urpc, sent <- usent, got <- ugot, told <- utold

\* Two packets, one of each kind of body, a line that is wrong and a header
\* that is, one payload, with and without a key.
MCMessages == {[heads |-> {LengthHead(2)}, data |-> <<7, 9>>],
               [heads |-> {ChunkedHead}, data |-> <<8>>]}
MCJunk == {<<BadLine, CR, LF>>, <<StartLine, CR, LF, BadHead, CR, LF>>}
MCPayloads == {<<5, 6>>}
NoKey == {<<>>}
OneKey == {<<1, 2, 4, 8>>}

MCInit ==
    /\ Init /\ C!Init /\ U!Init
    /\ part \in Parts
    /\ part # "udp" => mode = "once"

MCNext ==
    \/ part = "connection" /\ Next /\ UNCHANGED <<part, client, udp>>
    \/ part = "client" /\ C!Next /\ UNCHANGED <<part, vars, udp>>
    \/ part = "udp" /\ U!Next /\ UNCHANGED <<part, vars, client>>

\* A part that does not move has nothing to be fair about.
MCSpec ==
    /\ MCInit /\ [][MCNext]_<<part, vars, client, udp>>
    /\ Fairness /\ C!Fairness /\ U!Fairness

\* The packets delivered are those that were sent, cut anywhere but inside the
\* size line of a chunk (connection.cpp, body.cpp), and every variable has its
\* type.
DeliversAsSent == TypeOK /\ C!TypeOK /\ PacketsAsSent

\* A client's call returns the answer to its own request, unless a call on its
\* connection was woken for no reason (client.cpp: do_request,
\* __notify_response).
AnswerIsOurs == C!AnswerIsOurs

\* A client's call that has a connection returns (client.cpp: do_request,
\* open_websocket).
SentCallReturns == C!SentCallReturns

\* A pending read of a udp transport that has data is served, and a stop is
\* followed by stopped_cb (udp_transport.cpp: stop, async_read, on_read_event).
UdpReadOrStopped == U!ReadOrStopped
=============================================================================
