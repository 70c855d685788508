---------------------------- MODULE UdpTransport ----------------------------
(***************************************************************************)
(* One udp_transport: src/transport/udp_transport.cpp on base_transport    *)
(* and flow_udp.cpp.  There is no connection: a failed read is no end, and *)
(* the only final callback is stopped_cb.  The actors are a thread that    *)
(* starts and stops, a thread in async_read, a thread that sent, the read *)
(* poller (on_read_event) and the send poller, which handles the event     *)
(* that stop posts.  A tracker is the boolean "tracked by its poller".     *)
(***************************************************************************)
EXTENDS Naturals, Sequences

CONSTANTS MaxDatagrams,   \* bound: datagrams that arrive, and async_reads
          MaxStray        \* bound: reads that find no data

VARIABLES
    mode,                 \* rmode_
    state,                \* state_
    rstate,               \* rstate_
    rtrk,                 \* r_tracker_ is tracked
    shut,                 \* the socket is shut down
    event,                \* the event that stop posted is waiting
    waiting,              \* datagrams in the socket
    arrived, strays,      \* datagrams so far; reads without data so far
    calls,                \* async_reads so far
    upc, apc, rpc, spc,   \* control: start/stop, async_read, both pollers
    sent,                 \* history: the result of the last send
    got,                  \* history: what read_from_cb was called with
    told                  \* history: stopped_cb calls

vars == <<mode, state, rstate, rtrk, shut, event, waiting, arrived, strays,
          calls, upc, apc, rpc, spc, sent, got, told>>

Init ==
    /\ mode \in {"once", "loop"}
    /\ state = "none" /\ rstate = "none"
    /\ rtrk = FALSE /\ shut = FALSE /\ event = FALSE
    /\ waiting = 0 /\ arrived = 0 /\ strays = 0 /\ calls = 0
    /\ upc = "idle" /\ apc = "idle" /\ rpc = "idle" /\ spc = "idle"
    /\ sent = "" /\ got = 0 /\ told = 0

-----------------------------------------------------------------------------
\* start: the flow is opened and the read tracker installed, or one of it fails.
Start ==
    /\ state = "none" /\ state' = "starting"
    /\ upc' = "starting"
    /\ UNCHANGED <<mode, rstate, rtrk, shut, event, waiting, arrived, strays,
                   calls, apc, rpc, spc, sent, got, told>>

Started ==
    /\ upc = "starting"
    /\ state' \in {"started", "error"}
    /\ upc' = "idle"
    /\ UNCHANGED <<mode, rstate, rtrk, shut, event, waiting, arrived, strays,
                   calls, apc, rpc, spc, sent, got, told>>

Stop ==
    /\ upc = "idle" /\ state = "started"
    /\ state' = "stopping"
    /\ upc' = "shutdown"
    /\ UNCHANGED <<mode, rstate, rtrk, shut, event, waiting, arrived, strays,
                   calls, apc, rpc, spc, sent, got, told>>

\* __shutdown_transport_flow, then __post_channel_event.
StopPost ==
    /\ \/ upc = "shutdown" /\ shut' = TRUE /\ upc' = "post" /\ UNCHANGED event
       \/ upc = "post" /\ event' = TRUE /\ upc' = "idle" /\ UNCHANGED shut
    /\ UNCHANGED <<mode, state, rstate, rtrk, waiting, arrived, strays, calls,
                   apc, rpc, spc, sent, got, told>>

\* base_transport::on_channel_event: the state, then the callback.
ChannelEvent ==
    /\ \/ /\ spc = "idle" /\ event
          /\ event' = FALSE
          /\ spc' = IF state = "stopping" THEN "stopped_cb" ELSE "idle"
          /\ state' = IF state = "stopping" THEN "stopped" ELSE state
          /\ UNCHANGED told
       \/ /\ spc = "stopped_cb"
          /\ told' = told + 1 /\ spc' = "idle"
          /\ UNCHANGED <<event, state>>
    /\ UNCHANGED <<mode, rstate, rtrk, shut, waiting, arrived, strays, calls,
                   upc, apc, rpc, sent, got>>

-----------------------------------------------------------------------------
\* send: nothing is kept of a datagram the socket does not take.
SendTo ==
    /\ sent' \in IF state = "started" THEN {"none", "again"} ELSE {"unstart"}
    /\ UNCHANGED <<mode, state, rstate, rtrk, shut, event, waiting, arrived,
                   strays, calls, upc, apc, rpc, spc, got, told>>

-----------------------------------------------------------------------------
\* async_read, with nothing between is_started and the change that stop waits for.
AsyncRead ==
    /\ apc = "idle" /\ state = "started" /\ calls < MaxDatagrams
    /\ calls' = calls + 1
    /\ apc' = "change"
    /\ UNCHANGED <<mode, state, rstate, rtrk, shut, event, waiting, arrived,
                   strays, upc, rpc, spc, sent, got, told>>

\* In loop mode the tracker is started even if reading has begun already.
AsyncReadChange ==
    /\ apc = "change"
    /\ rstate' = "pending"
    /\ apc' = IF rstate = "none" \/ mode = "loop" THEN "track" ELSE "idle"
    /\ UNCHANGED <<mode, state, rtrk, shut, event, waiting, arrived, strays,
                   calls, upc, rpc, spc, sent, got, told>>

AsyncReadTrack ==
    /\ apc = "track"
    /\ rtrk' = TRUE
    /\ apc' = "idle"
    /\ UNCHANGED <<mode, state, rstate, shut, event, waiting, arrived, strays,
                   calls, upc, rpc, spc, sent, got, told>>

-----------------------------------------------------------------------------
Arrives ==
    /\ arrived < MaxDatagrams /\ ~shut /\ state = "started"
    /\ arrived' = arrived + 1 /\ waiting' = waiting + 1
    /\ UNCHANGED <<mode, state, rstate, rtrk, shut, event, strays, calls, upc,
                   apc, rpc, spc, sent, got, told>>

\* The socket is readable, also when it is shut down or a datagram is empty.
ReadEvent ==
    /\ rpc = "idle" /\ rtrk
    /\ waiting > 0 \/ strays < MaxStray
    /\ rtrk' = FALSE
    /\ rpc' = "read"
    /\ UNCHANGED <<mode, state, rstate, shut, event, waiting, arrived, strays,
                   calls, upc, apc, spc, sent, got, told>>

\* A transport that is starting is waited for; flow_->read_from.
Read ==
    /\ rpc = "read" /\ state # "starting"
    /\ \/ waiting > 0 /\ waiting' = waiting - 1 /\ rpc' = "got" /\ UNCHANGED strays
       \/ /\ waiting = 0 /\ strays < MaxStray
          /\ strays' = strays + 1 /\ rpc' = "track" /\ UNCHANGED waiting
    /\ UNCHANGED <<mode, state, rstate, rtrk, shut, event, arrived, calls, upc,
                   apc, spc, sent, got, told>>

\* Mutant: a read without data is over.
ReadTrackNot ==
    /\ rpc = "track"
    /\ rpc' = "idle"
    /\ UNCHANGED <<mode, state, rstate, rtrk, shut, event, waiting, arrived,
                   strays, calls, upc, apc, spc, sent, got, told>>

\* No data: the read stays pending.
ReadTrack ==
    /\ rpc = "track"
    /\ rtrk' = TRUE
    /\ rpc' = "idle"
    /\ UNCHANGED <<mode, state, rstate, shut, event, waiting, arrived, strays,
                   calls, upc, apc, spc, sent, got, told>>

\* Data: the read state is freed (once) or the tracker started (loop).
ReadAgain ==
    /\ rpc = "got"
    /\ rstate' = IF mode = "once" THEN "none" ELSE rstate
    /\ rtrk' = (rtrk \/ mode = "loop")
    /\ rpc' = "read_from_cb"
    /\ UNCHANGED <<mode, state, shut, event, waiting, arrived, strays, calls, upc,
                   apc, spc, sent, got, told>>

ReadCallback ==
    /\ rpc = "read_from_cb"
    /\ got' = got + 1
    /\ rpc' = "idle"
    /\ UNCHANGED <<mode, state, rstate, rtrk, shut, event, waiting, arrived,
                   strays, calls, upc, apc, spc, sent, told>>

-----------------------------------------------------------------------------
Polling == ReadEvent \/ Read \/ ReadTrack \/ ReadAgain \/ ReadCallback

Next ==
    \/ Start \/ Started \/ Stop \/ StopPost \/ ChannelEvent \/ SendTo
    \/ AsyncRead \/ AsyncReadChange \/ AsyncReadTrack
    \/ Arrives \/ Polling

Spec == Init /\ [][Next]_vars

\* Calls go on and both pollers run.
Fairness ==
    /\ WF_vars(Started \/ StopPost) /\ WF_vars(ChannelEvent)
    /\ WF_vars(AsyncReadChange \/ AsyncReadTrack) /\ WF_vars(Polling)

FairSpec == Spec /\ Fairness

-----------------------------------------------------------------------------
(* Properties.                                                             *)

\* A pending read is with the tracker, async_read or the read poller, so that
\* no datagram can be missed (udp_transport.cpp: async_read, on_read_event);
\* and stopped_cb is called at most once.
ReadChance ==
    /\ rstate = "pending" => rtrk \/ apc = "track" \/ rpc \in {"read", "track", "got"}
    /\ told <= 1 /\ (told = 1 => state = "stopped")

\* A read that is pending while a datagram waits is served, and a stop is
\* followed by stopped_cb (udp_transport.cpp: stop, on_read_event).
ReadOrStopped ==
    /\ (rstate = "pending" /\ waiting > 0) ~> (waiting = 0 \/ rstate = "none")
    /\ (state = "stopping") ~> (told = 1)
=============================================================================
