----------------------------- MODULE HttpServer -----------------------------
(***************************************************************************)
(* http::server (src/proto/http/server.cpp) and its table of connections.  *)
(* The acceptor, the connections and their transports are as the modules   *)
(* Acceptor and HttpConnection have them: the acceptor's callbacks and     *)
(* those of each connection run in the read and the send poller, while the *)
(* peer and the user go on.                                                *)
(***************************************************************************)
EXTENDS Naturals

CONSTANTS Connections,  \* those the peer opens
          MaxRequests,  \* bound: requests it sends on each
          None

VARIABLES
    acceptor,   \* acceptor_ and its state
    conns,      \* conns_
    state,      \* state_ of a connection
    transp,     \* the state of its transport
    reading,    \* a read is pending at its transport
    arrived,    \* requests that arrived on it
    served,     \* history: calls of request_cb
    accepting,  \* on_accepted: the connection in the table, not yet started
    requesting, \* on_http_request: control
    failing,    \* on_http_error: control
    stopped     \* history: stopped_cb was called

vars == <<acceptor, conns, state, transp, reading, arrived, served, accepting,
          requesting, failing, stopped>>

Init ==
    /\ acceptor = "none" /\ conns = {}
    /\ state = [c \in Connections |-> "none"]
    /\ transp = [c \in Connections |-> "none"]
    /\ reading = [c \in Connections |-> FALSE]
    /\ arrived = [c \in Connections |-> 0]
    /\ served = [c \in Connections |-> 0]
    /\ accepting = None
    /\ requesting = [c \in Connections |-> "idle"]
    /\ failing = [c \in Connections |-> FALSE]
    /\ stopped = FALSE

connections == <<state, transp, reading, arrived, served, requesting, failing>>

\* connection::stop.
Stopping(c) == IF transp[c] = "started" THEN [transp EXCEPT ![c] = "stopping"]
                                        ELSE transp

-----------------------------------------------------------------------------
Start ==
    /\ acceptor = "none"
    /\ acceptor' = "started"
    /\ UNCHANGED <<conns, connections, accepting, stopped>>

Stop ==
    /\ acceptor = "started"
    /\ acceptor' = "stopping"
    /\ UNCHANGED <<conns, connections, accepting, stopped>>

\* on_stopped: every connection of the table is stopped, under the lock.
OnStopped ==
    /\ acceptor = "stopping"
    /\ acceptor' = "stopped" /\ stopped' = TRUE
    /\ transp' = [c \in Connections |->
                    IF c \in conns THEN Stopping(c)[c] ELSE transp[c]]
    /\ UNCHANGED <<conns, state, reading, arrived, served, requesting, failing,
                   accepting>>

\* on_accepted, which may come late (tcp_acceptor::on_read_event): into the table,
OnAccepted(c) ==
    /\ acceptor # "none" /\ accepting = None
    /\ state[c] = "none" /\ c \notin conns
    /\ conns' = conns \cup {c} /\ accepting' = c
    /\ UNCHANGED <<acceptor, connections, stopped>>

\* and start_http, which starts the transport and asks it for nothing,
StartHttp(c) ==
    /\ accepting = c
    /\ state' = [state EXCEPT ![c] = "started"]
    /\ transp' = [transp EXCEPT ![c] = "started"]
    /\ accepting' = None
    /\ UNCHANGED <<acceptor, conns, reading, arrived, served, requesting, failing,
                   stopped>>

\* or out of the table again.
StartHttpFails(c) ==
    /\ accepting = c
    /\ state' = [state EXCEPT ![c] = "error"]
    /\ conns' = conns \ {c} /\ accepting' = None
    /\ UNCHANGED <<acceptor, transp, reading, arrived, served, requesting, failing,
                   stopped>>

\* The peer sends a request, or goes.
RequestArrives(c) ==
    /\ transp[c] = "started" /\ arrived[c] < MaxRequests
    /\ arrived' = [arrived EXCEPT ![c] = @ + 1]
    /\ UNCHANGED <<acceptor, conns, state, transp, reading, served, accepting,
                   requesting, failing, stopped>>

PeerCloses(c) ==
    /\ transp' = Stopping(c)
    /\ UNCHANGED <<acceptor, conns, state, reading, arrived, served, accepting,
                   requesting, failing, stopped>>

\* on_http_request: request_cb, which may upgrade the connection,
OnHttpRequest(c) ==
    /\ reading[c] /\ arrived[c] > served[c] /\ requesting[c] = "idle"
    /\ reading' = [reading EXCEPT ![c] = FALSE]
    /\ served' = [served EXCEPT ![c] = @ + 1]
    /\ \E st \in {state[c], "upgraded"} : state' = [state EXCEPT ![c] = st]
    /\ requesting' = [requesting EXCEPT ![c] = "called"]
    /\ UNCHANGED <<acceptor, conns, transp, arrived, accepting, failing, stopped>>

\* then the next read; else the connection leaves the table.
AfterRequest(c) ==
    /\ requesting[c] = "called"
    /\ requesting' = [requesting EXCEPT ![c] = "idle"]
    /\ IF state[c] = "started" /\ transp[c] = "started"
       THEN /\ reading' = [reading EXCEPT ![c] = TRUE]
            /\ UNCHANGED <<conns, transp>>
       ELSE /\ conns' = conns \ {c}
            /\ transp' = IF state[c] = "upgraded" THEN transp ELSE Stopping(c)
            /\ UNCHANGED reading
    /\ UNCHANGED <<acceptor, state, arrived, served, accepting, failing, stopped>>

\* The transport ends, and on_http_error follows.
TransportEnds(c) ==
    /\ transp[c] = "stopping"
    /\ transp' = [transp EXCEPT ![c] = "ended"]
    /\ failing' = [failing EXCEPT ![c] = state[c] = "started"]
    /\ state' = [state EXCEPT ![c] = "error"]
    /\ UNCHANGED <<acceptor, conns, reading, arrived, served, accepting,
                   requesting, stopped>>

OnHttpError(c) ==
    /\ failing[c]
    /\ failing' = [failing EXCEPT ![c] = FALSE]
    /\ conns' = conns \ {c}
    /\ UNCHANGED <<acceptor, state, transp, reading, arrived, served, accepting,
                   requesting, stopped>>

-----------------------------------------------------------------------------
Handling(c) ==
    \/ StartHttp(c) \/ StartHttpFails(c) \/ OnHttpRequest(c) \/ AfterRequest(c)
    \/ TransportEnds(c) \/ OnHttpError(c)

Next ==
    \/ Start \/ Stop \/ OnStopped
    \/ \E c \in Connections :
         OnAccepted(c) \/ RequestArrives(c) \/ PeerCloses(c) \/ Handling(c)

Spec == Init /\ [][Next]_vars

\* Both pollers run.
Fairness ==
    /\ WF_vars(OnStopped)
    /\ \A c \in Connections : WF_vars(Handling(c))

FairSpec == Spec /\ Fairness

-----------------------------------------------------------------------------
(* Properties.                                                             *)

\* A request that arrives on a started connection is given to request_cb,
\* unless the connection ends (connection.h: start_http, server.cpp:
\* on_accepted, on_http_request).
RequestServed ==
    \A c \in Connections : []<>~(transp[c] = "started" /\ arrived[c] > served[c])
=============================================================================
