--------------------------- MODULE TlsHandshaker ---------------------------
(***************************************************************************)
(* Handshakers: src/transport/tls_handshaker.cpp, each used by a tls       *)
(* dialer or acceptor (its owner), which starts it and is called back.     *)
(* Four threads meet in one: the owner's in start, the send poller in the  *)
(* event handlers, the timer worker in on_timeout and a user's in stop.    *)
(*                                                                         *)
(* The tls library decides by itself how a round of the handshake ends.    *)
(* Whether it waits to read or to send is left out: the tracker is armed   *)
(* for one or the other.  An owner composes these actions with its own.    *)
(***************************************************************************)
EXTENDS Naturals, FiniteSets

CONSTANTS Handshakers,
          HandshakeTimeout,   \* timeout_ns is not 0
          None

VARIABLES
    hs,       \* of each handshaker: a record, see HandshakerType
    poller    \* what the send poller is doing: [obj, at]

HandshakerType ==
    [state: {"none", "starting", "started", "finished", "error", "timeouting",
             "timeouted", "stopping", "stopped"},
     start: {"idle", "flow", "timer", "tracker", "started", "fail", "ok", "failed"},
     timer: {"none", "running", "off"},            \* timer_
     tracker: {"none", "armed", "idle", "gone"},   \* tracker_, once installed
     toPost: 0 .. 2, events: 0 .. 2,               \* channel events
     told: 0 .. 2]                                 \* history: callbacks made

NewHandshaker ==
    [state |-> "none", start |-> "idle", timer |-> "none", tracker |-> "none",
     toPost |-> 0, events |-> 0, told |-> 0]

PollerIdle == [obj |-> None, at |-> "idle"]
PollerAt(h, l) == poller' = [obj |-> h, at |-> l]

HandshakerInit ==
    /\ hs = [h \in Handshakers |-> NewHandshaker]
    /\ poller = PollerIdle

\* A step of start: it goes on at l.
StartGoes(h, l) == hs' = [hs EXCEPT ![h].start = l]

-----------------------------------------------------------------------------
(* start, in the thread of the owner.                                      *)

HsStart(h) ==
    /\ hs[h].start = "idle" /\ hs[h].state = "none"
    /\ hs' = [hs EXCEPT ![h].state = "starting", ![h].start = "flow"]
    /\ UNCHANGED poller

\* The first round of the handshake, before any event.
HsFirstRound(h) ==
    /\ hs[h].start = "flow"
    /\ StartGoes(h, "timer") \/ StartGoes(h, "fail")
    /\ UNCHANGED poller

HsStartTimer(h) ==
    /\ hs[h].start = "timer"
    /\ \/ hs' = [hs EXCEPT ![h].start = "tracker",
                           ![h].timer = IF HandshakeTimeout THEN "running" ELSE "none"]
       \/ HandshakeTimeout /\ StartGoes(h, "fail")
    /\ UNCHANGED poller

HsInstallTracker(h) ==
    /\ hs[h].start = "tracker"
    /\ \/ hs' = [hs EXCEPT ![h].start = "started", ![h].tracker = "armed"]
       \/ StartGoes(h, "fail")
    /\ UNCHANGED poller

\* start succeeds, unless the timeout came first.
HsStarted(h) ==
    /\ hs[h].start = "started"
    /\ IF hs[h].state = "starting"
       THEN hs' = [hs EXCEPT ![h].state = "started", ![h].start = "ok"]
       ELSE StartGoes(h, "fail")
    /\ UNCHANGED poller

HsStartFails(h) ==
    /\ hs[h].start = "fail"
    /\ hs' = [hs EXCEPT ![h].start = "failed",
                        ![h].state = IF @ = "starting" THEN "error" ELSE @,
                        ![h].timer = IF @ = "none" THEN @ ELSE "off"]
    /\ UNCHANGED poller

HsStarting(h) ==
    \/ HsFirstRound(h) \/ HsStartTimer(h) \/ HsInstallTracker(h)
    \/ HsStarted(h) \/ HsStartFails(h)

-----------------------------------------------------------------------------
(* The timer worker, stop, and the channel event both post.                *)

\* Mutant: only a handshaker that is started times out.
HsTimeoutStarted(h) ==
    /\ hs[h].timer = "running"
    /\ hs' = [hs EXCEPT ![h].timer = "off",
                        ![h].state = IF @ = "started" THEN "timeouting" ELSE @,
                        ![h].toPost = IF hs[h].state = "started" THEN @ + 1 ELSE @]
    /\ UNCHANGED poller

HsTimeout(h) ==
    LET out == hs[h].state \in {"starting", "started"}
    IN  /\ hs[h].timer = "running"
        /\ hs' = [hs EXCEPT ![h].timer = "off",
                            ![h].state = IF out THEN "timeouting" ELSE @,
                            ![h].toPost = IF out THEN @ + 1 ELSE @]
        /\ UNCHANGED poller

\* Without effect on a handshaker that is still starting.
HsStop(r) ==
    [r EXCEPT !.state = IF @ \in {"started", "timeouting"} THEN "stopping" ELSE @,
              !.toPost = IF r.state = "started" THEN @ + 1 ELSE @]

HsPost(h) ==
    /\ hs[h].toPost > 0
    /\ hs' = [hs EXCEPT ![h].toPost = @ - 1, ![h].events = @ + 1]
    /\ UNCHANGED poller

-----------------------------------------------------------------------------
(* The send poller.                                                        *)

\* on_read_event, on_send_event.
HsIoEvent(h) ==
    /\ poller = PollerIdle /\ hs[h].tracker = "armed"
    /\ hs' = [hs EXCEPT ![h].tracker = "idle"]
    /\ PollerAt(h, "process")

HsChannelEvent(h) ==
    /\ poller = PollerIdle /\ hs[h].events > 0
    /\ hs' = [hs EXCEPT ![h].events = @ - 1]
    /\ PollerAt(h, "finish")

\* The round ends the handshake one way or the other, if it is still on ...
HsRoundEnds(h) ==
    /\ poller = [obj |-> h, at |-> "process"] /\ hs[h].state # "starting"
    /\ IF hs[h].state = "started"
       THEN /\ \E s \in {"finished", "error"} : hs' = [hs EXCEPT ![h].state = s]
            /\ PollerAt(h, "finish")
       ELSE UNCHANGED hs /\ poller' = PollerIdle

\* ... or waits for more, whatever the state.
HsRoundWaits(h) ==
    /\ poller = [obj |-> h, at |-> "process"] /\ hs[h].state # "starting"
    /\ hs' = [hs EXCEPT ![h].tracker = "armed"]
    /\ poller' = PollerIdle

\* __handshake_finished: it asserts that there is a tracker, then tells the
\* owner (at "handshaked", "unhandshaked" or "hs_stopped"), or nobody.
HsFinish(h) ==
    /\ poller = [obj |-> h, at |-> "finish"]
    /\ IF hs[h].tracker = "none"
       THEN PollerAt(h, "assert_failed") /\ UNCHANGED hs
       ELSE LET s == hs[h].state
                then == CASE s = "finished" -> "handshaked"
                          [] s \in {"error", "timeouting"} -> "unhandshaked"
                          [] s = "stopping" -> "hs_stopped"
                          [] OTHER -> "idle"
            IN  /\ hs' = [hs EXCEPT ![h].timer = IF @ = "none" THEN @ ELSE "off",
                                    ![h].tracker = "gone",
                                    ![h].told = IF then = "idle" THEN @ ELSE @ + 1,
                                    ![h].state = CASE @ = "timeouting" -> "timeouted"
                                                   [] @ = "stopping" -> "stopped"
                                                   [] OTHER -> @]
                /\ IF then = "idle" THEN poller' = PollerIdle ELSE PollerAt(h, then)

HsHandling(h) == HsRoundEnds(h) \/ HsRoundWaits(h) \/ HsFinish(h)

HsPolling(h) == HsIoEvent(h) \/ HsChannelEvent(h) \/ HsHandling(h)
=============================================================================
