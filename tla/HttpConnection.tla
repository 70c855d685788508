--------------------------- MODULE HttpConnection ---------------------------
(***************************************************************************)
(* One http::connection (src/proto/http/connection.cpp) on a transport in  *)
(* read_mode_once, first as an http connection and then, if its owner      *)
(* wants, as a websocket.  The actors are the owner, the read poller       *)
(* (on_read) and the send poller (on_stopped, on_disconnected).  Of the    *)
(* transport there is left what TcpTransport and TlsTransport are checked  *)
(* for: a pending read gets one read_cb, with bytes cut anywhere, and stop *)
(* or a lost peer is followed by one final callback.                       *)
(***************************************************************************)
EXTENDS HttpMessage

CONSTANTS Messages,     \* packets the peer may send: headers and data
          Junk,         \* byte sequences it may send instead
          Payloads,     \* of the frames it may send
          PeerKeys,     \* mask keys it may use, <<>> for none
          MaxPackets, MaxFrames,  \* bounds: packets and frames it sends
          Pipelining,   \* it sends a packet before the last one is handled
          CutSizeLine   \* a read may end inside the size line of a chunk

VARIABLES
    state,      \* state_
    cache,      \* cache_
    pending,    \* pending_packet_; "finished" before there is any
    frame,      \* ws_frame_
    wsClosed,   \* ws_closed_
    wsCbs,      \* ws_cbs_ is set
    transp,     \* the transport's state
    reading,    \* a read is pending at the transport
    wire,       \* bytes the peer has sent
    junk,       \* history: some of them were no packet
    rpc, rbuf, rused,  \* on_read: control, b, parse_size
    fpc,        \* final callback: control
    opc,        \* owner: control
    asked,      \* history: packets the owner asked for
    sent, got,  \* history: packets sent and delivered
    framesSent, frames,  \* history: payloads sent and delivered
    answers,    \* history: frames sent in answer
    told        \* history: calls of error_cb

input == <<cache, pending, frame, wsClosed, rpc, rbuf, rused, got, frames, answers>>
peer == <<wire, junk, sent, framesSent>>
vars == <<state, cache, pending, frame, wsClosed, wsCbs, transp, reading, wire,
          junk, rpc, rbuf, rused, fpc, opc, asked, sent, got, framesSent, frames,
          answers, told>>

Init ==
    /\ state = "none" /\ transp = "none" /\ reading = FALSE
    /\ cache = <<>> /\ wire = <<>> /\ junk = FALSE
    /\ pending = [NewPacket EXCEPT !.status = "finished"]
    /\ frame = NewFrame /\ wsClosed = FALSE /\ wsCbs = FALSE
    /\ rpc = "idle" /\ rbuf = <<>> /\ rused = 0 /\ fpc = "idle" /\ opc = "idle"
    /\ asked = 0 /\ sent = <<>> /\ got = <<>>
    /\ framesSent = <<>> /\ frames = <<>> /\ answers = <<>> /\ told = <<>>

-----------------------------------------------------------------------------
(* The owner.                                                              *)

StartHttp ==
    /\ state = "none"
    /\ \/ state' = "started" /\ transp' = "started"
       \/ state' = "error" /\ UNCHANGED transp
    /\ UNCHANGED <<input, peer, wsCbs, reading, fpc, opc, asked, told>>

\* __async_read_http_packet: not while a packet is being parsed.  The owner
\* asks for a packet once it was given the last one.
AsyncReadPacket ==
    /\ opc = "idle" /\ state = "started" /\ pending.status = "finished"
    /\ asked = Len(got) /\ asked < MaxPackets
    /\ pending' = NewPacket
    /\ reading' = (reading \/ transp = "started")
    /\ asked' = IF transp = "started" THEN asked + 1 ELSE asked
    /\ UNCHANGED <<peer, state, cache, frame, wsClosed, wsCbs, transp, rpc, rbuf,
                   rused, fpc, opc, got, frames, answers, told>>

\* start_websocket, after an answer: the state, then the callbacks and the
\* first read.  ws_closed_ was not initialised and has any value.
StartWebsocket ==
    /\ opc = "idle" /\ state = "started" /\ got # <<>> /\ asked = Len(got)
    /\ state' = "upgraded" /\ opc' = "upgrade"
    /\ wsClosed' \in BOOLEAN
    /\ UNCHANGED <<peer, cache, pending, frame, wsCbs, transp, reading, rpc, rbuf,
                   rused, fpc, asked, got, frames, answers, told>>

WebsocketStarted ==
    /\ opc = "upgrade"
    /\ wsCbs' = TRUE
    /\ reading' = (reading \/ transp = "started")
    /\ opc' = "idle"
    /\ UNCHANGED <<input, peer, state, transp, fpc, asked, told>>

Stopped(t) == IF t = "started" THEN "stopping" ELSE t

Stop ==
    /\ transp = "started"
    /\ transp' = "stopping"
    /\ UNCHANGED <<input, peer, state, wsCbs, reading, fpc, opc, asked, told>>

-----------------------------------------------------------------------------
(* The peer.                                                               *)

PeerSends ==
    /\ transp = "started" /\ state = "started" /\ Len(sent) < MaxPackets /\ ~junk
    /\ Pipelining \/ Len(sent) = Len(got)
    /\ \E m \in Messages :
        /\ wire' = wire \o Serialize(m) \o LastChunk(m)
        /\ sent' = Append(sent, m)
    /\ UNCHANGED <<input, state, wsCbs, transp, reading, junk, fpc, opc, asked,
                   framesSent, told>>

\* A peer sends packets or junk, not both.
PeerSendsJunk ==
    /\ transp = "started" /\ state = "started"
    /\ MaxPackets > 0 /\ sent = <<>> /\ ~junk
    /\ \E b \in Junk : wire' = wire \o b
    /\ junk' = TRUE
    /\ UNCHANGED <<input, state, wsCbs, transp, reading, fpc, opc, asked, sent,
                   framesSent, told>>

\* connection::send of a websocket: the mask is applied to the memory in front
\* of the buffer, so that the payload goes out as it is.
FrameBytes(code, payload, key) == PackHeader(code, Len(payload), key) \o payload

PeerSendsFrame ==
    /\ transp = "started" /\ state = "upgraded" /\ Len(framesSent) < MaxFrames
    /\ \E key \in PeerKeys : \E code \in {WsText, WsPing, WsPong, WsClose, 3} :
        \E payload \in IF code = WsText THEN Payloads ELSE {<<>>} :
            /\ wire' = wire \o FrameBytes(code, payload, key)
            /\ framesSent' = Append(framesSent, [code |-> code, payload |-> payload])
    /\ UNCHANGED <<input, state, wsCbs, transp, reading, junk, fpc, opc, asked, sent,
                   told>>

\* A lost peer: the transport may still deliver what it has, as after stop.
PeerCloses ==
    /\ transp = "started"
    /\ transp' = "stopping"
    /\ UNCHANGED <<input, peer, state, wsCbs, reading, fpc, opc, asked, told>>

-----------------------------------------------------------------------------
(* on_read.                                                                *)

\* A read returns some of the bytes.
Cuts == {n \in 1 .. Len(wire) :
            n = Len(wire) \/ CutSizeLine \/ wire[n] \notin Digit(0) .. Digit(9)}

\* Mutant: what is cached is forgotten when bytes arrive.
ReadBytesAlone(n) == SubSeq(wire, 1, n)

\* The bytes are parsed behind the cached ones.
ReadBytes(n) == cache \o SubSeq(wire, 1, n)

ReadHttp(b) ==
    /\ state = "started" /\ asked > 0
    /\ \E r \in {Parse(pending, b)} :
        /\ pending' = r.pk /\ rused' = r.used
        /\ rpc' = IF r.pk.status = "finished" THEN "packet_cb" ELSE "again"
    /\ UNCHANGED <<frame, transp, wsClosed, answers>>

\* __handle_websocket_frame: the header, if it was not read already, the whole
\* payload, and what the frame asks for.
ReadFrame(b) ==
    LET head == IF frame.unpacked THEN [frame |-> frame, used |-> 0]
                                  ELSE UnpackHeader(frame, b)
        f == head.frame
        whole == f.unpacked /\ f.length <= Len(b) - head.used
    IN  /\ state = "upgraded"
        /\ rused' = IF ~whole THEN head.used
                    ELSE IF f.code \in {0, WsText, 2, WsClose, WsPing, WsPong}
                    THEN head.used + f.length ELSE -1
        /\ frame' = IF whole /\ rused' # -1 /\ f.code \notin {0, WsText, 2}
                    THEN ResetFrame(f) ELSE f
        /\ rpc' = IF ~whole \/ f.code \in {WsClose, WsPing, WsPong} THEN "again"
                  ELSE IF rused' = -1 THEN "fail" ELSE "frame_cb"
        /\ LET closes == whole /\ f.code = WsClose /\ ~wsClosed
           IN  /\ wsClosed' = (wsClosed \/ closes)
               /\ transp' = IF closes THEN Stopped(transp) ELSE transp
               /\ answers' = IF closes THEN Append(answers, WsClose)
                             ELSE IF whole /\ f.code = WsPing THEN Append(answers, WsPong)
                             ELSE answers
        /\ UNCHANGED pending

\* No packet was asked for, or the connection is over.
ReadWrong ==
    /\ state \notin {"started", "upgraded"}
    /\ rpc' = "fail" /\ rused' = -1
    /\ UNCHANGED <<pending, frame, transp, wsClosed, answers>>

OnRead(n) ==
    /\ rpc = "idle" /\ reading /\ transp \in {"started", "stopping"}
    /\ reading' = FALSE
    /\ wire' = From(wire, n)
    /\ rbuf' = ReadBytes(n)
    /\ ReadHttp(ReadBytes(n)) \/ ReadFrame(ReadBytes(n)) \/ ReadWrong
    /\ UNCHANGED <<state, cache, wsCbs, junk, fpc, opc, asked, sent, got,
                   framesSent, frames, told>>

\* on_read ends: what was not used is kept, for the next on_read alone.
KeepRest ==
    /\ cache' = From(rbuf, rused)
    /\ rpc' = "idle" /\ rbuf' = <<>> /\ rused' = 0

\* stop() instead.
ReadFails ==
    /\ transp' = Stopped(transp)
    /\ rpc' = "idle" /\ rbuf' = <<>> /\ rused' = 0
    /\ UNCHANGED cache

\* The callback of the owner, who may ask for the next packet from now on.
PacketCallback ==
    /\ rpc = "packet_cb"
    /\ got' = Append(got, [heads |-> pending.heads, data |-> pending.data])
    /\ KeepRest
    /\ UNCHANGED <<peer, state, pending, frame, wsClosed, wsCbs, transp, reading,
                   fpc, opc, asked, frames, answers, told>>

\* The payload is unmasked in place.
FrameCallback ==
    /\ rpc = "frame_cb"
    /\ LET payload == SubSeq(rbuf, rused - frame.length + 1, rused)
       IN  frames' = Append(frames, MaskPayload(frame.key, payload))
    /\ frame' = ResetFrame(frame)
    /\ rpc' = "again"
    /\ UNCHANGED <<peer, state, cache, pending, wsClosed, wsCbs, transp, reading,
                   rbuf, rused, fpc, opc, asked, got, answers, told>>

\* Mutant: nothing is read again.
ReadAgainNot ==
    /\ rpc = "again" /\ transp = "started" /\ rused # -1
    /\ KeepRest
    /\ UNCHANGED <<peer, state, pending, frame, wsClosed, wsCbs, transp, reading,
                   fpc, opc, asked, got, frames, answers, told>>

\* __async_read for the rest of the packet or for the next frame.
ReadAgain ==
    /\ rpc = "again" /\ transp = "started" /\ rused # -1
    /\ reading' = TRUE
    /\ KeepRest
    /\ UNCHANGED <<peer, state, pending, frame, wsClosed, wsCbs, transp, fpc, opc,
                   asked, got, frames, answers, told>>

\* __async_read fails, or the bytes are wrong: it is called all the same.
ReadEnds ==
    /\ \/ rpc = "fail" /\ UNCHANGED reading
       \/ /\ rpc = "again" /\ (transp # "started" \/ rused = -1)
          /\ reading' = (reading \/ transp = "started")
    /\ ReadFails
    /\ UNCHANGED <<peer, state, pending, frame, wsClosed, wsCbs, fpc, opc, asked,
                   got, frames, answers, told>>

Reading ==
    \/ \E n \in Cuts : OnRead(n)
    \/ PacketCallback \/ FrameCallback \/ ReadAgain \/ ReadEnds

-----------------------------------------------------------------------------
(* on_stopped and on_disconnected.                                         *)

\* Mutant: the state is left as it is.
FinalStateKept ==
    /\ fpc = "idle" /\ transp = "stopping" /\ rpc = "idle"
    /\ transp' = "ended"
    /\ IF state \in {"started", "upgraded"}
       THEN fpc' = state ELSE UNCHANGED fpc
    /\ UNCHANGED <<input, peer, state, wsCbs, reading, opc, asked, told>>

\* The transport's final callback: the state goes to error.
FinalState ==
    /\ fpc = "idle" /\ transp = "stopping"
    /\ transp' = "ended"
    /\ IF state \in {"started", "upgraded"}
       THEN state' = "error" /\ fpc' = state
       ELSE UNCHANGED <<state, fpc>>
    /\ UNCHANGED <<input, peer, wsCbs, reading, opc, asked, told>>

\* error_cb of the http or of the websocket callbacks, which may not be set yet.
ErrorCallback ==
    /\ fpc \in {"started", "upgraded"}
    /\ told' = Append(told, IF fpc = "upgraded" /\ ~wsCbs THEN "none"
                            ELSE IF fpc = "upgraded" /\ wsClosed THEN "closed" ELSE "error")
    /\ wsClosed' = (wsClosed \/ (fpc = "upgraded" /\ wsCbs))
    /\ fpc' = "idle"
    /\ UNCHANGED <<peer, state, cache, pending, frame, wsCbs, transp, reading, rpc,
                   rbuf, rused, opc, asked, got, frames, answers>>

Ending == FinalState \/ ErrorCallback

-----------------------------------------------------------------------------
Next ==
    \/ StartHttp \/ AsyncReadPacket \/ StartWebsocket \/ WebsocketStarted \/ Stop
    \/ PeerSends \/ PeerSendsJunk \/ PeerSendsFrame \/ PeerCloses
    \/ Reading \/ Ending

Spec == Init /\ [][Next]_vars

\* Calls go on and both pollers run.
Fairness == WF_vars(Reading) /\ WF_vars(Ending) /\ WF_vars(WebsocketStarted)

FairSpec == Spec /\ Fairness

-----------------------------------------------------------------------------
(* Properties.                                                             *)

TypeOK ==
    /\ state \in {"none", "started", "upgraded", "error"}
    /\ transp \in {"none", "started", "stopping", "ended"}
    /\ rpc \in {"idle", "packet_cb", "frame_cb", "again", "fail"}
    /\ reading \in BOOLEAN /\ wsClosed \in BOOLEAN /\ wsCbs \in BOOLEAN
    /\ rused \in -1 .. Len(rbuf)

\* The packets delivered are those that were sent, in order and with their
\* headers and bodies, wherever the bytes were cut (inside the size line of a
\* chunk only with CutSizeLine), and junk is none
\* (connection.cpp: on_read, __handle_http_packet; request.cpp, response.cpp,
\* header.cpp, body.cpp).
PacketsAsSent ==
    Len(got) <= Len(sent) /\ \A i \in DOMAIN got : got[i] = sent[i]

\* The owner hears of the end once, and after the state says so
\* (connection.cpp: on_disconnected, on_stopped).
OneError == Len(told) <= 1 /\ (told # <<>> => state = "error")

\* A packet was asked for and sent, and not all that was sent lies in cache_.
Awaited ==
    /\ transp = "started" /\ asked > Len(got) /\ Len(sent) > Len(got)
    /\ wire # <<>> \/ cache = <<>>

\* A packet that was asked for and sent is delivered, unless the connection
\* ends or all the rest of what was sent lies in cache_ already, which is only
\* looked at when more arrives (connection.cpp: on_read:198,
\* __async_read_http_packet).
PacketArrives == []<>~Awaited

\* A text frame sent with connection::send is delivered to the other end's
\* frame_cb as it was sent (connection.cpp: send, __handle_websocket_frame).
FramesAsSent ==
    \A i \in DOMAIN frames : \E j \in DOMAIN framesSent :
        framesSent[j].code = WsText /\ framesSent[j].payload = frames[i]
=============================================================================
