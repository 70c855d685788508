---------------------------- MODULE TcpTransport ----------------------------
(***************************************************************************)
(* One tcp_transport: src/transport/tcp_transport.cpp with the parts of    *)
(* base_transport.cpp and flow_tcp.cpp it runs on.  Its actors are         *)
(*   - application threads that send, one in async_read and one in stop;   *)
(*   - the read poller thread, which runs on_read_event;                   *)
(*   - the send poller thread, which runs on_send_event and the events     *)
(*     posted to the channel.                                              *)
(* Whoever raises pending_send_size_ from zero owns the chance to send and *)
(* hands it on: to itself while more is pending, to the send poller (by    *)
(* starting the send tracker) when the socket is full.                     *)
(*                                                                         *)
(* One step is one access to shared state or one socket call.  sendlist_   *)
(* is a SlotQueue, which M2MQueue implements.  A tracker is the boolean    *)
(* "tracked by its poller": Poller models how it gets there.  The user     *)
(* keeps a reference to the transport until it has ended.                  *)
(***************************************************************************)
EXTENDS Integers, Sequences, FiniteSets

CONSTANTS Senders,      \* application threads that send
          MaxSend,      \* bound: buffers one of them sends
          Sizes,        \* sizes of a buffer
          MaxReads,     \* bound: packets the peer sends
          ReadMode,     \* "once" or "loop"
          StopKinds,    \* what the stopping thread may call
          PeerMayClose, \* the peer may close the connection
          NetMayFail,   \* a send may fail while the connection is open
          HasSentCb,    \* cbs_.sent_cb is set
          SendPoller, None

Threads == Senders \cup {SendPoller}   \* the threads that may run __send_once
Iobs == Senders \X (1 .. MaxSend)

ASSUME TransportAssumption ==
    /\ MaxSend \in Nat /\ MaxReads \in Nat
    /\ Sizes \subseteq Nat \ {0}
    /\ ReadMode \in {"once", "loop"}
    /\ StopKinds \subseteq {"stop", "force_stop"}
    /\ PeerMayClose \in BOOLEAN /\ NetMayFail \in BOOLEAN /\ HasSentCb \in BOOLEAN
    /\ SendPoller \notin Senders /\ IsFiniteSet(Senders)
    /\ None \notin Iobs

VARIABLES
    state,                    \* state_
    opt,                      \* pending_opt_cnt_
    pend,                     \* pending_send_size_
    slots,                    \* sendlist_
    last, lastSize,           \* last_send_iob_, last_send_iob_size_
    flow,                     \* flow_->send_iob_
    size, full,               \* of each iob: size() now, and when it was sent
    events,                   \* channel events posted to the send poller
    strk, rtrk,               \* s_tracker_ and r_tracker_ are tracked
    rstate,                   \* rstate_
    shut,                     \* what is shut down of the socket
    peer,                     \* the peer's end: "open" or "closed"
    pc, buf, sz, old,         \* of each sending thread: control and locals
    nsent,                    \* buffers each sender has begun to send
    startpc, stoppc, readpc,  \* control of start, stop and async_read
    rpc, reads,               \* control of the read poller; packets read
    astray,                   \* history: the chance to send has gone astray
    accepted,                 \* history: buffers that send returned error_none for
    wire,                     \* history: the buffers written, in order
    ended                     \* history: the final callbacks made

sendVars == <<pend, slots, last, lastSize, flow, size, full, astray>>
localVars == <<pc, buf, sz, old, nsent, accepted>>
readVars == <<rtrk, rstate, readpc, rpc, reads>>
ioVars == <<events, strk, shut, peer, wire, ended>>
vars == <<state, opt, pend, slots, last, lastSize, flow, size, full, astray,
          events, strk, rtrk, rstate, shut, peer, pc, buf, sz, old, nsent,
          startpc, stoppc, readpc, rpc, reads, accepted, wire, ended>>

Sendlist == INSTANCE SlotQueue WITH Values <- Iobs

States == {"none", "starting", "started", "stopping", "stopped",
           "disconnecting", "disconnected", "error"}

Init ==
    /\ state = "none" /\ opt = 0 /\ pend = 0
    /\ Sendlist!Init
    /\ last = None /\ lastSize = 0 /\ flow = None
    /\ size = [b \in Iobs |-> 0] /\ full = [b \in Iobs |-> 0]
    /\ events = <<>> /\ strk = FALSE /\ rtrk = FALSE
    /\ rstate = "none" /\ shut = "open" /\ peer = "open"
    /\ pc = [t \in Threads |-> "idle"]
    /\ buf = [t \in Threads |-> None]
    /\ sz = [t \in Threads |-> 0]
    /\ old = [t \in Threads |-> 0]
    /\ nsent = [t \in Senders |-> 0]
    /\ startpc = "idle" /\ stoppc = "idle" /\ readpc = "idle"
    /\ rpc = "idle" /\ reads = 0
    /\ astray = FALSE /\ accepted = {} /\ wire = <<>> /\ ended = <<>>

Goto(t, l) == pc' = [pc EXCEPT ![t] = l]

\* __set_state(from, to) where its result decides what comes next.
CasState(from, to) == state = from /\ state' = to
CasStateFails(from) == state # from /\ UNCHANGED state

\* __shutdown_transport_flow
ShutdownRdwr == shut' = "rdwr"
ShutdownRd == shut' = IF shut = "open" THEN "rd" ELSE shut

\* __post_channel_event
Post(e) == events' = Append(events, e)
Disconnected == [ev |-> "disconnected", iob |-> None]
BufferSent(b) == [ev |-> "buffer_sent", iob |-> b]

-----------------------------------------------------------------------------
(* start.                                                                  *)

Start ==
    /\ startpc = "idle"
    /\ CasState("none", "starting")
    /\ startpc' = "installing"
    /\ UNCHANGED <<opt, sendVars, ioVars, readVars, localVars, stoppc>>

\* The flow is opened and both trackers are installed, or one of it fails.
StartDone ==
    /\ startpc = "installing"
    /\ startpc' = "done"
    /\ CasState("starting", "started") \/ CasState("starting", "error")
    /\ UNCHANGED <<opt, sendVars, ioVars, readVars, localVars, stoppc>>

-----------------------------------------------------------------------------
(* stop and force_stop.                                                    *)

StopEnds == {"returned", "done", "force_done"}

\* The state is loaded: started, or not.
Stop(kind) ==
    /\ stoppc = "idle" /\ startpc = "done"
    /\ stoppc' = IF state = "started" THEN kind ELSE "not_started"
    /\ UNCHANGED <<state, opt, sendVars, ioVars, readVars, localVars, startpc>>

StopCas ==
    /\ stoppc \in {"stop", "force_stop"}
    /\ \/ /\ CasState("started", "stopping")
          /\ stoppc' = IF stoppc = "stop" THEN "stop_wait" ELSE "force_wait"
       \/ CasStateFails("started") /\ stoppc' = "not_started"
    /\ UNCHANGED <<opt, sendVars, ioVars, readVars, localVars, startpc>>

StopWaitEnds ==
    /\ stoppc \in {"stop_wait", "force_wait"}
    /\ stoppc' = IF stoppc = "stop_wait" THEN "stop_close" ELSE "force_close"
    /\ UNCHANGED <<state, opt, sendVars, ioVars, readVars, localVars, startpc>>

\* Mutant: the operations in progress are not waited for.
StopWaitNot == StopWaitEnds

\* The operations in progress are waited for.
StopWait == opt = 0 /\ StopWaitEnds

\* Mutant: no event is posted when nothing is pending.
StopCloseSilently ==
    /\ stoppc \in {"stop_close", "force_close"}
    /\ IF stoppc = "force_close" \/ pend = 0 THEN ShutdownRdwr ELSE ShutdownRd
    /\ stoppc' = IF stoppc = "stop_close" THEN "done" ELSE "force_done"
    /\ UNCHANGED <<state, opt, sendVars, events, strk, readVars, peer, localVars,
                   startpc, wire, ended>>

\* With nothing left to send, or for force_stop, the connection is closed and
\* the event posted; otherwise the send side stays open to finish.
StopClose ==
    /\ stoppc \in {"stop_close", "force_close"}
    /\ IF stoppc = "force_close" \/ pend = 0
       THEN ShutdownRdwr /\ Post(Disconnected)
       ELSE ShutdownRd /\ UNCHANGED events
    /\ stoppc' = IF stoppc = "stop_close" THEN "done" ELSE "force_done"
    /\ UNCHANGED <<state, opt, sendVars, strk, readVars, peer, localVars,
                   startpc, wire, ended>>

\* The transport is not started (any more): a disconnection whose callback
\* has not been made yet becomes a stop.
StopDisconnecting ==
    /\ stoppc = "not_started"
    /\ CasState("disconnecting", "stopping") \/ CasStateFails("disconnecting")
    /\ stoppc' = "returned"
    /\ UNCHANGED <<opt, sendVars, ioVars, readVars, localVars, startpc>>

-----------------------------------------------------------------------------
(* send, and __async_send up to the chance to send.                        *)

\* is_started() holds: otherwise send returns with nothing done.
SendCall(s, n) ==
    /\ pc[s] = "idle" /\ nsent[s] < MaxSend
    /\ state = "started"
    /\ nsent' = [nsent EXCEPT ![s] = @ + 1]
    /\ LET b == <<s, nsent[s] + 1>>
       IN  /\ buf' = [buf EXCEPT ![s] = b]
           /\ size' = [size EXCEPT ![b] = n]
           /\ full' = [full EXCEPT ![b] = n]
    /\ Goto(s, "enter")
    /\ UNCHANGED <<state, opt, pend, slots, last, lastSize, flow, astray, ioVars,
                   readVars, sz, old, accepted, startpc, stoppc>>

\* Mutant: the operation is not counted.
SendEnterUncounted(s) ==
    /\ pc[s] = "enter"
    /\ Goto(s, "check")
    /\ UNCHANGED <<state, opt, sendVars, ioVars, readVars, buf, sz, old, nsent,
                   accepted, startpc, stoppc>>

SendEnter(s) ==
    /\ pc[s] = "enter"
    /\ opt' = opt + 1
    /\ Goto(s, "check")
    /\ UNCHANGED <<state, sendVars, ioVars, readVars, buf, sz, old, nsent,
                   accepted, startpc, stoppc>>

SendCheck(s) ==
    /\ pc[s] = "check"
    /\ Goto(s, IF state = "started" THEN "claim" ELSE "leave")
    /\ UNCHANGED <<state, opt, sendVars, ioVars, readVars, buf, sz, old, nsent,
                   accepted, startpc, stoppc>>

\* sendlist_.push: a slot is claimed ...
SendClaim(s) ==
    /\ pc[s] = "claim"
    /\ Sendlist!Claim(buf[s])
    /\ Goto(s, "fill")
    /\ UNCHANGED <<state, opt, pend, last, lastSize, flow, size, full, astray, ioVars,
                   readVars, buf, sz, old, nsent, accepted, startpc, stoppc>>

\* ... and filled.
SendFill(s) ==
    /\ pc[s] = "fill"
    /\ \E i \in DOMAIN slots : slots[i].val = buf[s] /\ Sendlist!Fill(i)
    /\ Goto(s, "size")
    /\ UNCHANGED <<state, opt, pend, last, lastSize, flow, size, full, astray, ioVars,
                   readVars, buf, sz, old, nsent, accepted, startpc, stoppc>>

\* The argument of fetch_add: the buffer is in the sendlist already.
SendReadSize(s) ==
    /\ pc[s] = "size"
    /\ sz' = [sz EXCEPT ![s] = size[buf[s]]]
    /\ Goto(s, "add")
    /\ UNCHANGED <<state, opt, sendVars, ioVars, readVars, buf, old, nsent,
                   accepted, startpc, stoppc>>

\* With nothing pending before, the chance to send is this thread's.
SendAdd(s) ==
    /\ pc[s] = "add"
    /\ pend' = pend + sz[s]
    /\ IF pend > 0
       THEN Goto(s, "leave") /\ accepted' = accepted \cup {buf[s]}
       ELSE Goto(s, "pop") /\ UNCHANGED accepted
    /\ UNCHANGED <<state, opt, slots, last, lastSize, flow, size, full, astray, ioVars,
                   readVars, buf, sz, old, nsent, startpc, stoppc>>

SendLeave(s) ==
    /\ pc[s] = "leave"
    /\ opt' = opt - 1
    /\ Goto(s, "idle")
    /\ UNCHANGED <<state, sendVars, ioVars, readVars, buf, sz, old, nsent,
                   accepted, startpc, stoppc>>

-----------------------------------------------------------------------------
(* __send_once, flow_tcp and __handle_sent_buffer, in a sender or in the   *)
(* send poller.                                                            *)

\* A sender returns with its buffer accepted, the poller goes to l.
Finish(t, l) ==
    IF t \in Senders
    THEN Goto(t, "leave") /\ accepted' = accepted \cup {buf[t]}
    ELSE Goto(t, l) /\ UNCHANGED accepted

\* The buffers of sends that have not counted theirs yet.
Uncounted ==
    {buf[s] : s \in {q \in Senders : pc[q] \in {"enter", "check", "claim",
                                                "fill", "size", "add"}}}

\* pump_assert(last_send_iob_ == nullptr), and sendlist_.pop or abort.  The
\* chance to send goes astray when it is used on a buffer that has not been
\* counted: its sender is between sendlist_.push and fetch_add.
PopLast(t) ==
    /\ pc[t] = "pop"
    /\ IF last # None
       THEN Goto(t, "assert_failed") /\ UNCHANGED <<slots, last, lastSize>>
       ELSE IF ~Sendlist!CanPop
       THEN Goto(t, "aborted") /\ UNCHANGED <<slots, last, lastSize>>
       ELSE /\ Sendlist!Pop
            /\ last' = Head(slots).val
            /\ lastSize' = size[last']
            /\ Goto(t, "want")
    /\ astray' = (astray \/ (slots # <<>> /\ Head(slots).val \in Uncounted))
    /\ UNCHANGED <<state, opt, pend, flow, size, full, ioVars, readVars, buf, sz,
                   old, nsent, accepted, startpc, stoppc>>

\* want_to_send: the flow must be free.
WantToSend(t) ==
    /\ pc[t] = "want"
    /\ IF flow = None THEN flow' = last /\ Goto(t, "send")
                      ELSE UNCHANGED flow /\ Goto(t, "fault")
    /\ UNCHANGED <<state, opt, pend, slots, last, lastSize, size, full, astray, ioVars,
                   readVars, buf, sz, old, nsent, accepted, startpc, stoppc>>

\* Mutant: last_send_iob_ is not reset for a buffer that was sent.
NetSendKeepsLast(t) ==
    /\ pc[t] \in {"send", "resend"} /\ flow # None /\ shut # "rdwr"
    /\ size' = [size EXCEPT ![flow] = 0]
    /\ flow' = None
    /\ wire' = Append(wire, flow)
    /\ Goto(t, IF pc[t] = "send" THEN "sub" ELSE "resub")
    /\ UNCHANGED <<state, opt, pend, slots, last, lastSize, full, astray, events, strk,
                   readVars, shut, peer, buf, sz, old, nsent, accepted, startpc,
                   stoppc, ended>>

\* The socket takes part of the buffer, or all of it: then it is handled and
\* the flow is free.  The poller resumes a buffer at "resend".  Without a
\* buffer in the flow the call of net::send follows a null pointer, and goes no
\* further.
NetSend(t) ==
    /\ pc[t] \in {"send", "resend"} /\ flow # None /\ shut # "rdwr"
    /\ \E k \in 1 .. size[flow] :
        /\ size' = [size EXCEPT ![flow] = @ - k]
        /\ IF k = size[flow]
           THEN /\ flow' = None /\ last' = None
                /\ wire' = Append(wire, flow)
                /\ IF HasSentCb THEN Post(BufferSent(last)) ELSE UNCHANGED events
                /\ Goto(t, IF pc[t] = "send" THEN "sub" ELSE "resub")
           ELSE UNCHANGED <<flow, last, wire, events>> /\ Goto(t, "again")
    /\ UNCHANGED <<state, opt, pend, slots, lastSize, full, astray, strk, readVars, shut,
                   peer, buf, sz, old, nsent, accepted, startpc, stoppc, ended>>

\* The socket is full (not when the poller was told that it is writable), or
\* the call fails.
NetSendNothing(t) ==
    /\ flow # None
    /\ \/ pc[t] = "send" /\ shut # "rdwr" /\ Goto(t, "again")
       \/ /\ pc[t] \in {"send", "resend"}
          /\ shut = "rdwr" \/ peer = "closed" \/ NetMayFail
          /\ Goto(t, "fault")
    /\ UNCHANGED <<state, opt, sendVars, ioVars, readVars, buf, sz, old, nsent,
                   accepted, startpc, stoppc>>

\* Mutant: what is subtracted is the size that is left.
PendSubRest(t) ==
    /\ pc[t] \in {"sub", "resub"}
    /\ old' = [old EXCEPT ![t] = pend]
    /\ sz' = [sz EXCEPT ![t] = lastSize]
    /\ Goto(t, IF pc[t] = "sub" THEN "cmp" ELSE "recmp")
    /\ UNCHANGED <<state, opt, sendVars, ioVars, readVars, buf, nsent,
                   accepted, startpc, stoppc>>

\* pending_send_size_.fetch_sub(last_send_iob_size_) ...
PendSub(t) ==
    /\ pc[t] \in {"sub", "resub"}
    /\ old' = [old EXCEPT ![t] = pend]
    /\ sz' = [sz EXCEPT ![t] = lastSize]
    /\ pend' = pend - lastSize
    /\ Goto(t, IF pc[t] = "sub" THEN "cmp" ELSE "recmp")
    /\ UNCHANGED <<state, opt, slots, last, lastSize, flow, size, full, astray, ioVars,
                   readVars, buf, nsent, accepted, startpc, stoppc>>

\* Between the two reads of last_send_iob_size_ another thread has popped a
\* buffer of a size that changes the answer: the chance to send goes astray.
Misread(t) == (old[t] > lastSize) # (old[t] > sz[t])

SendMoreIf(t, more) ==
    /\ pc[t] \in {"cmp", "recmp"}
    /\ IF more
       THEN /\ Goto(t, IF pc[t] = "cmp" THEN "again" ELSE "pop")
            /\ UNCHANGED accepted
       ELSE Finish(t, "end")
    /\ astray' = (astray \/ Misread(t))
    /\ UNCHANGED <<state, opt, pend, slots, last, lastSize, flow, size, full, ioVars,
                   readVars, buf, sz, old, nsent, startpc, stoppc>>

\* Mutant: off by one.
PendCompareEqual(t) == SendMoreIf(t, old[t] >= lastSize)

\* ... > last_send_iob_size_, which is read again: more is pending, or not.
PendCompare(t) == SendMoreIf(t, old[t] > lastSize)

\* Mutant: the send tracker is not started.
StartSendTrackerNot(t) ==
    /\ pc[t] = "again"
    /\ Finish(t, "idle")
    /\ UNCHANGED <<state, opt, sendVars, ioVars, readVars, buf, sz, old, nsent,
                   startpc, stoppc>>

\* error_again: the send poller is to go on.
StartSendTracker(t) ==
    /\ pc[t] = "again"
    /\ IF strk THEN UNCHANGED <<strk, accepted>> /\ Goto(t, "fault")
               ELSE strk' = TRUE /\ Finish(t, "idle")
    /\ UNCHANGED <<state, opt, sendVars, events, readVars, shut, peer, buf, sz,
                   old, nsent, startpc, stoppc, wire, ended>>

\* __async_send failed.
SenderFails(s) ==
    /\ \/ /\ pc[s] = "fault"
          /\ \/ CasState("started", "disconnecting") /\ Goto(s, "post")
             \/ CasStateFails("started") /\ Goto(s, "leave")
          /\ UNCHANGED events
       \/ pc[s] = "post" /\ Post(Disconnected) /\ Goto(s, "leave") /\ UNCHANGED state
    /\ UNCHANGED <<opt, sendVars, strk, readVars, shut, peer, buf, sz, old, nsent,
                   accepted, startpc, stoppc, wire, ended>>

-----------------------------------------------------------------------------
(* The send poller: on_send_event, on_channel_event and the callbacks.     *)

SendEvent ==
    /\ pc[SendPoller] = "idle" /\ strk
    /\ strk' = FALSE
    /\ Goto(SendPoller, IF last # None THEN "resend" ELSE "pop")
    /\ UNCHANGED <<state, opt, sendVars, events, readVars, shut, peer, buf, sz,
                   old, nsent, accepted, startpc, stoppc, wire, ended>>

\* sent_cb only hands the buffer back.
ChannelEvent ==
    /\ pc[SendPoller] = "idle" /\ events # <<>>
    /\ events' = Tail(events)
    /\ Goto(SendPoller, IF Head(events) = Disconnected THEN "trigger" ELSE "idle")
    /\ UNCHANGED <<state, opt, sendVars, strk, readVars, shut, peer, buf, sz, old,
                   nsent, accepted, startpc, stoppc, wire, ended>>

\* A failed send: __try_triggering_disconnected_callback's first half.
SendFails ==
    /\ pc[SendPoller] = "fault"
    /\ \/ CasState("started", "disconnecting") /\ Goto(SendPoller, "trigger")
       \/ CasStateFails("started") /\ Goto(SendPoller, "end")
    /\ UNCHANGED <<opt, sendVars, ioVars, readVars, buf, sz, old, nsent, accepted,
                   startpc, stoppc>>

\* Mutant: a transport that is stopping is disconnected.
TriggerDisconnectedStopping ==
    /\ pc[SendPoller] = "trigger"
    /\ \/ CasState("stopping", "disconnected") /\ Goto(SendPoller, "disconnected_cb")
       \/ CasStateFails("stopping") /\ Goto(SendPoller, "end")
    /\ UNCHANGED <<opt, sendVars, ioVars, readVars, buf, sz, old, nsent, accepted,
                   startpc, stoppc>>

\* __trigger_disconnected_callback, else __trigger_stopped_callback: the state
\* changes first, then the flow is shut down and the user called.
TriggerDisconnected ==
    /\ pc[SendPoller] = "trigger"
    /\ \/ CasState("disconnecting", "disconnected") /\ Goto(SendPoller, "disconnected_cb")
       \/ CasStateFails("disconnecting") /\ Goto(SendPoller, "end")
    /\ UNCHANGED <<opt, sendVars, ioVars, readVars, buf, sz, old, nsent, accepted,
                   startpc, stoppc>>

TriggerStopped ==
    /\ pc[SendPoller] = "end"
    /\ \/ CasState("stopping", "stopped") /\ Goto(SendPoller, "stopped_cb")
       \/ CasStateFails("stopping") /\ Goto(SendPoller, "idle")
    /\ UNCHANGED <<opt, sendVars, ioVars, readVars, buf, sz, old, nsent, accepted,
                   startpc, stoppc>>

\* Mutant: the flow stays open.
FinalCallbackOpen ==
    /\ pc[SendPoller] \in {"disconnected_cb", "stopped_cb"}
    /\ ended' = Append(ended, pc[SendPoller])
    /\ Goto(SendPoller, "idle")
    /\ UNCHANGED <<state, opt, sendVars, events, strk, readVars, shut, peer, buf,
                   sz, old, nsent, accepted, startpc, stoppc, wire>>

FinalCallback ==
    /\ pc[SendPoller] \in {"disconnected_cb", "stopped_cb"}
    /\ ShutdownRdwr
    /\ ended' = Append(ended, pc[SendPoller])
    /\ Goto(SendPoller, "idle")
    /\ UNCHANGED <<state, opt, sendVars, events, strk, readVars, peer, buf, sz,
                   old, nsent, accepted, startpc, stoppc, wire>>

-----------------------------------------------------------------------------
(* async_read and the read poller: on_read_event.                          *)

readLocal == <<pc, buf, sz, old, nsent, accepted, startpc, stoppc>>

AsyncRead ==
    /\ readpc = "idle" /\ state = "started"
    /\ readpc' = "enter"
    /\ UNCHANGED <<state, opt, sendVars, ioVars, rtrk, rstate, rpc, reads, readLocal>>

AsyncReadEnter ==
    /\ readpc = "enter"
    /\ opt' = opt + 1
    /\ readpc' = "check"
    /\ UNCHANGED <<state, sendVars, ioVars, rtrk, rstate, rpc, reads, readLocal>>

AsyncReadCheck ==
    /\ readpc = "check"
    /\ readpc' = IF state = "started" THEN "change" ELSE "leave"
    /\ UNCHANGED <<state, opt, sendVars, ioVars, rtrk, rstate, rpc, reads, readLocal>>

\* Mutant: a read that is pending already is not noticed.
AsyncReadChangeAny ==
    /\ readpc = "change"
    /\ rstate' = "pending"
    /\ readpc' = "track"
    /\ UNCHANGED <<state, opt, sendVars, ioVars, rtrk, rpc, reads, readLocal>>

\* __change_read_state(read_none, read_pending), or already reading.
AsyncReadChange ==
    /\ readpc = "change"
    /\ rstate' = "pending"
    /\ readpc' = IF rstate = "none" THEN "track" ELSE "leave"
    /\ UNCHANGED <<state, opt, sendVars, ioVars, rtrk, rpc, reads, readLocal>>

AsyncReadTrack ==
    /\ readpc = "track"
    /\ rtrk' = TRUE
    /\ readpc' = "leave"
    /\ UNCHANGED <<state, opt, sendVars, ioVars, rstate, rpc, reads, readLocal>>

AsyncReadLeave ==
    /\ readpc = "leave"
    /\ opt' = opt - 1
    /\ readpc' = "idle"
    /\ UNCHANGED <<state, sendVars, ioVars, rtrk, rstate, rpc, reads, readLocal>>

\* Nothing to read: the end of the stream.
EndOfStream == shut # "open" \/ peer = "closed"

ReadEvent ==
    /\ rpc = "idle" /\ rtrk
    /\ reads < MaxReads \/ EndOfStream
    /\ rtrk' = FALSE
    /\ rpc' = "wait"
    /\ UNCHANGED <<state, opt, sendVars, ioVars, rstate, readpc, reads, readLocal>>

\* A transport that is starting is waited for.
ReadWait ==
    /\ rpc = "wait" /\ state # "starting"
    /\ rpc' = "read"
    /\ UNCHANGED <<state, opt, sendVars, ioVars, rtrk, rstate, readpc, reads, readLocal>>

Read ==
    /\ rpc = "read"
    /\ \/ reads < MaxReads /\ reads' = reads + 1 /\ rpc' = "got"
       \/ EndOfStream /\ rpc' = "try" /\ UNCHANGED reads
    /\ UNCHANGED <<state, opt, sendVars, ioVars, rtrk, rstate, readpc, readLocal>>

\* Before read_cb, reading goes on (loop) or is free again (once).
ReadAgain ==
    /\ rpc = "got"
    /\ LET goes_on == IF ReadMode = "once" THEN rstate = "pending" ELSE ~rtrk
       IN  rpc' = IF goes_on THEN "read_cb" ELSE "read_cb_try"
    /\ rstate' = IF ReadMode = "once" THEN "none" ELSE rstate
    /\ rtrk' = (rtrk \/ ReadMode = "loop")
    /\ UNCHANGED <<state, opt, sendVars, ioVars, readpc, reads, readLocal>>

ReadCallback ==
    /\ rpc \in {"read_cb", "read_cb_try"}
    /\ rpc' = IF rpc = "read_cb" THEN "idle" ELSE "try"
    /\ UNCHANGED <<state, opt, sendVars, ioVars, rtrk, rstate, readpc, reads, readLocal>>

\* __try_triggering_disconnected_callback; nobody else is told if it fails.
ReadFails ==
    /\ \/ rpc = "try" /\ CasState("started", "disconnecting") /\ rpc' = "trigger"
       \/ rpc = "try" /\ CasStateFails("started") /\ rpc' = "idle"
       \/ rpc = "trigger" /\ CasState("disconnecting", "disconnected") /\ rpc' = "disconnected_cb"
       \/ rpc = "trigger" /\ CasStateFails("disconnecting") /\ rpc' = "idle"
    /\ UNCHANGED <<opt, sendVars, ioVars, rtrk, rstate, readpc, reads, readLocal>>

ReadFinalCallback ==
    /\ rpc = "disconnected_cb"
    /\ ShutdownRdwr
    /\ ended' = Append(ended, rpc)
    /\ rpc' = "idle"
    /\ UNCHANGED <<state, opt, sendVars, events, strk, peer, wire, rtrk, rstate,
                   readpc, reads, readLocal>>

-----------------------------------------------------------------------------
PeerCloses ==
    /\ PeerMayClose /\ peer = "open" /\ startpc = "done"
    /\ peer' = "closed"
    /\ UNCHANGED <<state, opt, sendVars, events, strk, shut, wire, ended,
                   readVars, localVars, startpc, stoppc>>

-----------------------------------------------------------------------------
Send(s) ==
    \/ \E n \in Sizes : SendCall(s, n)
    \/ SendEnter(s) \/ SendCheck(s) \/ SendClaim(s) \/ SendFill(s)
    \/ SendReadSize(s) \/ SendAdd(s) \/ SenderFails(s) \/ SendLeave(s)

SendOnce(t) ==
    \/ PopLast(t) \/ WantToSend(t) \/ NetSend(t) \/ NetSendNothing(t)
    \/ PendSub(t) \/ PendCompare(t) \/ StartSendTracker(t)

Stopping ==
    \/ \E kind \in StopKinds : Stop(kind)
    \/ StopCas \/ StopWait \/ StopClose \/ StopDisconnecting

SendPolling ==
    \/ SendEvent \/ ChannelEvent \/ SendFails
    \/ TriggerDisconnected \/ TriggerStopped \/ FinalCallback

Reading ==
    \/ AsyncRead \/ AsyncReadEnter \/ AsyncReadCheck \/ AsyncReadChange
    \/ AsyncReadTrack \/ AsyncReadLeave
    \/ ReadEvent \/ ReadWait \/ Read \/ ReadAgain \/ ReadCallback
    \/ ReadFails \/ ReadFinalCallback

Next ==
    \/ Start \/ StartDone \/ Stopping
    \/ \E s \in Senders : Send(s)
    \/ \E t \in Threads : SendOnce(t)
    \/ SendPolling \/ Reading \/ PeerCloses

Spec == Init /\ [][Next]_vars

\* Threads keep running: a call that has begun goes on, both pollers handle
\* what they are told of, and a peer that does not close keeps receiving, so
\* that a socket does not stay full.
Fairness ==
    /\ \A s \in Senders :
        WF_vars(/\ pc[s] # "idle" /\ Send(s))
    /\ \A t \in Threads : WF_vars(SendOnce(t)) /\ SF_vars(NetSend(t))
    /\ WF_vars(StopCas \/ StopWait \/ StopClose \/ StopDisconnecting)
    /\ WF_vars(AsyncReadEnter \/ AsyncReadCheck \/ AsyncReadChange
               \/ AsyncReadTrack \/ AsyncReadLeave)
    /\ SF_vars(SendEvent) /\ SF_vars(ChannelEvent)
    /\ WF_vars(SendFails \/ TriggerDisconnected \/ TriggerStopped \/ FinalCallback)
    /\ WF_vars(ReadEvent \/ ReadWait \/ Read \/ ReadAgain \/ ReadCallback
               \/ ReadFails \/ ReadFinalCallback)

FairSpec == Spec /\ Fairness

-----------------------------------------------------------------------------
(* Properties.                                                             *)

SendLabels == {"idle", "enter", "check", "claim", "fill", "size", "add", "pop",
               "want", "send", "resend", "sub", "resub", "cmp", "recmp", "again",
               "fault", "post", "leave", "trigger", "end", "disconnected_cb",
               "stopped_cb", "assert_failed", "aborted"}

\* Every variable has the shape the code gives it.
ControlTypes ==
    /\ state \in States /\ opt \in Nat
    /\ pc \in [Threads -> SendLabels]
    /\ startpc \in {"idle", "installing", "done"}
    /\ stoppc \in {"idle", "stop", "force_stop", "not_started", "stop_wait",
                   "force_wait", "stop_close", "force_close"} \cup StopEnds
DataTypes ==
    /\ pend \in Int /\ lastSize \in Nat
    /\ slots \in Seq([val : Iobs, ready : BOOLEAN])
    /\ last \in Iobs \cup {None} /\ flow \in Iobs \cup {None}
    /\ size \in [Iobs -> Nat] /\ full \in [Iobs -> Nat]
    /\ astray \in BOOLEAN
LocalTypes ==
    /\ buf \in [Threads -> Iobs \cup {None}]
    /\ sz \in [Threads -> Nat] /\ old \in [Threads -> Int]
    /\ nsent \in [Senders -> 0 .. MaxSend]
    /\ accepted \subseteq Iobs
IoTypes ==
    /\ events \in Seq([ev : {"disconnected", "buffer_sent"}, iob : Iobs \cup {None}])
    /\ strk \in BOOLEAN
    /\ shut \in {"open", "rd", "rdwr"} /\ peer \in {"open", "closed"}
    /\ wire \in Seq(Iobs)
    /\ ended \in Seq({"disconnected_cb", "stopped_cb"})
ReadTypes ==
    /\ rtrk \in BOOLEAN /\ rstate \in {"none", "pending"}
    /\ readpc \in {"idle", "enter", "check", "change", "track", "leave"}
    /\ rpc \in {"idle", "wait", "read", "got", "read_cb", "read_cb_try", "try",
                "trigger", "disconnected_cb"}
    /\ reads \in 0 .. MaxReads
TypeOK == ControlTypes /\ DataTypes /\ LocalTypes /\ IoTypes /\ ReadTypes

\* Thread t has the chance to send: pending_send_size_ went up from zero for
\* it, or was more than what it has just subtracted.
HasChance(t) ==
    \/ pc[t] \in {"pop", "want", "send", "resend", "sub", "resub", "again", "fault"}
    \/ pc[t] \in {"cmp", "recmp"} /\ old[t] > sz[t]

\* At most one thread, or the tracked send tracker on behalf of the send
\* poller, has the chance to send (last_send_iob_ and the flow have no lock);
\* and while the transport is started somebody has it if anything is pending.
SendChance ==
    /\ \A t, u \in Threads : (HasChance(t) /\ HasChance(u)) => t = u
    /\ strk => \A t \in Threads : ~HasChance(t)
    /\ (pend > 0 /\ state = "started") => strk \/ \E t \in Threads : HasChance(t)

Queued == {slots[i].val : i \in DOMAIN slots}

\* The buffers that have been counted, and the bytes of some buffers when they
\* were sent.
Counted == ((Queued \cup {last}) \ {None}) \ Uncounted
Bytes(B) == UNION {{b} \X (1 .. full[b]) : b \in B}

\* pending_send_size_ is the size of the buffers that have been counted and
\* not yet subtracted; it decides who sends and whether stop closes at once.
PendingAccounted ==
    pend = Cardinality(Bytes(Counted))
           + (IF \E t \in Threads : pc[t] \in {"sub", "resub"} THEN lastSize ELSE 0)

\* Types, and the pending size until the chance to send has gone astray
\* (tcp_transport.cpp: send, __send_once).
Accounted == TypeOK /\ (astray \/ PendingAccounted)

\* The size that send adds is read from a buffer nobody has begun to send: the
\* sender's reference went to the sendlist, a sent buffer may be released.
SizeReadIsLive ==
    \A s \in Senders : pc[s] = "size" => size[buf[s]] = full[buf[s]]

\* last_send_iob_ is nullptr when __send_once begins, and its pop succeeds:
\* otherwise the assertion fails (tcp_transport.cpp:418), or the process aborts
\* with "pop iob from queue failed" (tcp_transport.cpp:420).
SendNeverAborts == \A t \in Threads : pc[t] \notin {"assert_failed", "aborted"}

\* Once stop has waited for pending_opt_cnt_, nobody is between the second
\* look at the state and the end of send or async_read, and nobody gets there.
StopWaitsForOpts ==
    (stoppc \in {"stop_close", "force_close", "done", "force_done"}) =>
        /\ \A s \in Senders : pc[s] \in {"idle", "enter", "check", "leave"}
        /\ readpc \in {"idle", "enter", "check", "leave"}

\* The user is told of the end once, and a stop that found the transport
\* started ends in stopped_cb, whatever the connection does meanwhile.
OneEnd ==
    /\ Len(ended) <= 1
    /\ (stoppc \notin {"idle", "stop", "force_stop", "not_started", "returned"})
       => (ended = <<>> \/ ended = <<"stopped_cb">>)

\* After the final callback nothing is written to the connection.
NothingAfterEnd == [][ended # <<>> => wire' = wire]_vars

\* A pending read is with one actor at a time: the read tracker, the
\* async_read about to start it, or the read poller that reads.
ReadChance ==
    LET holders == {h \in {"tracker", "async_read", "poller"} :
                      \/ h = "tracker" /\ rtrk
                      \/ h = "async_read" /\ readpc = "track"
                      \/ h = "poller" /\ rpc \in {"wait", "read", "got"}}
    IN  /\ Cardinality(holders) <= 1
        /\ holders # {} => rstate = "pending"
        /\ (rstate = "pending" /\ holders = {}) => rpc \in {"try", "trigger", "disconnected_cb"}
                                                   \/ state # "started"

\* Sending and reading are with one actor at a time, and with one at all when
\* there is something to do (tcp_transport.cpp: send, on_send_event,
\* async_read, on_read_event).  Of sending it holds, with what __async_send and
\* __send_once rely on, until the chance to send has gone astray: a buffer
\* popped before it is counted and a size that changes between two reads are
\* the only ways to lose it, whatever the number of senders and the sizes.
OneActor ==
    /\ ReadChance
    /\ astray \/ (SendChance /\ SizeReadIsLive /\ SendNeverAborts)

\* stop() lets what was accepted be sent before stopped_cb.
GracefulDrains ==
    (stoppc = "done" /\ ended = <<"stopped_cb">>) => \A b \in accepted : size[b] = 0

\* A stop is followed by stopped_cb.
StopCompletes == (state = "stopping") ~> (ended = <<"stopped_cb">>)

\* An accepted buffer is sent, unless the transport ends.
AcceptedIsSent ==
    \A b \in Iobs : (b \in accepted) ~> (size[b] = 0 \/ ended # <<>>)
=============================================================================
