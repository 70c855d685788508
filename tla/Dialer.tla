------------------------------- MODULE Dialer -------------------------------
(***************************************************************************)
(* One dialer: src/transport/tcp_dialer.cpp or tls_dialer.cpp, over        *)
(* base_dialer.cpp, flow_tcp_dialer.cpp and, for tls, a handshaker.  The   *)
(* thread in start, one in stop, the timer worker and the send poller      *)
(* settle by compare-and-swaps of state_ which of them ends the dial.      *)
(*                                                                         *)
(* The operating system answers a connect once, with success or failure.   *)
(* A synchronous dialer is a dialer whose user is blocked until the first  *)
(* callback and cannot stop it.                                            *)
(***************************************************************************)
EXTENDS TlsHandshaker, Sequences

CONSTANT DialTimeout   \* connect_timeout_ns_ is not 0

VARIABLES
    kind,        \* "tcp" or "tls"
    sync,        \* the user is in sync_tcp_dialer::dial or sync_tls_dialer::dial
    state,       \* state_
    spc, stoppc, \* control of start and of stop
    timer,       \* connect_timer_
    tracker,     \* tracker_: as of a handshaker
    net,         \* the connect: "none", "pending", "ok" or "refused"
    bound,       \* the flow has the descriptor
    toPost, events,
    told,        \* history: the callbacks made
    result       \* what the synchronous dial has returned

dialVars == <<kind, sync, state, spc, stoppc, timer, tracker, net, bound,
              toPost, events, told, result>>
vars == <<dialVars, hs, poller>>

\* The handshaker of the dialer.
Hs == CHOOSE h \in Handshakers : TRUE

Outcomes == {"dialed", "not_dialed", "timeouted", "stopped"}

Init ==
    /\ HandshakerInit
    /\ kind \in {"tcp", "tls"} /\ sync \in BOOLEAN
    /\ state = "none" /\ spc = "idle" /\ stoppc = "idle"
    /\ timer = "none" /\ tracker = "none" /\ net = "none" /\ bound = FALSE
    /\ toPost = 0 /\ events = 0 /\ told = <<>> /\ result = "none"

Off(t) == IF t = "none" THEN t ELSE "off"

-----------------------------------------------------------------------------
(* start.  A tcp dialer starts its timer before it posts the connect, a    *)
(* tls dialer after.                                                       *)

StartSteps == IF kind = "tcp" THEN <<"open", "timer", "connect", "install", "cas">>
                              ELSE <<"open", "connect", "timer", "install", "cas">>

\* The step at l succeeds, or fails.
Then(l) ==
    /\ spc = l
    /\ \E i \in 1 .. 4 : StartSteps[i] = l /\ spc' = StartSteps[i + 1]
Fails(l) == spc = l /\ spc' = "fail"

Start ==
    /\ state = "none" /\ spc = "idle"
    /\ state' = "starting" /\ spc' = "open"
    /\ UNCHANGED <<kind, sync, result, stoppc, timer, tracker, net, bound, toPost, events,
                   told, hs, poller>>

OpenDialFlow ==
    /\ \/ Then("open") /\ bound' = TRUE
       \/ Fails("open") /\ UNCHANGED bound
    /\ UNCHANGED <<kind, sync, result, state, stoppc, timer, tracker, net, toPost, events,
                   told, hs, poller>>

StartDialTimer ==
    /\ \/ Then("timer") /\ timer' = (IF DialTimeout THEN "running" ELSE "none")
       \/ DialTimeout /\ Fails("timer") /\ UNCHANGED timer
    /\ UNCHANGED <<kind, sync, result, state, stoppc, tracker, net, bound, toPost, events,
                   told, hs, poller>>

PostConnect ==
    /\ \/ Then("connect") /\ net' = "pending"
       \/ Fails("connect") /\ UNCHANGED net
    /\ UNCHANGED <<kind, sync, result, state, stoppc, timer, tracker, bound, toPost, events,
                   told, hs, poller>>

InstallDialTracker ==
    /\ \/ Then("install") /\ tracker' = "armed"
       \/ Fails("install") /\ UNCHANGED tracker
    /\ UNCHANGED <<kind, sync, result, state, stoppc, timer, net, bound, toPost, events,
                   told, hs, poller>>

\* The connect may have been answered, and the dial have ended, before this.
Started ==
    /\ spc = "cas"
    /\ IF state = "starting" THEN state' = "started" /\ spc' = "ok"
                             ELSE UNCHANGED state /\ spc' = "fail"
    /\ UNCHANGED <<kind, sync, result, stoppc, timer, tracker, net, bound, toPost, events,
                   told, hs, poller>>

StartFails ==
    /\ spc = "fail" /\ spc' = "failed"
    /\ timer' = Off(timer)
    /\ state' = IF state = "starting" THEN "error" ELSE state
    /\ UNCHANGED <<kind, sync, result, stoppc, tracker, net, bound, toPost, events, told,
                   hs, poller>>

Starting == OpenDialFlow \/ StartDialTimer \/ PostConnect \/ InstallDialTracker
            \/ Started \/ StartFails

-----------------------------------------------------------------------------
(* stop, the timer worker, and the network.                                *)

\* The states a stop ends: a tls dialer can also be stopped in its handshake.
TcpStoppable == {"started"}
TlsStoppable == {"started", "handshaking"}

\* A dial in progress is stopped, and its event posted; one that has timed out
\* becomes stopped, with the event of the timeout.
Stop ==
    /\ ~sync /\ stoppc = "idle" /\ spc # "idle"
    /\ LET stopped == state \in IF kind = "tcp" THEN TcpStoppable ELSE TlsStoppable
       IN  /\ stoppc' = IF stopped THEN "posting" ELSE "done"
           /\ state' = IF stopped \/ state = "timeouting" THEN "stopping" ELSE state
           /\ timer' = IF state = "started" THEN Off(timer) ELSE timer
    /\ UNCHANGED <<kind, sync, result, spc, tracker, net, bound, toPost, events, told, hs,
                   poller>>

StopPost ==
    /\ stoppc = "posting" /\ stoppc' = "done"
    /\ events' = events + 1
    /\ UNCHANGED <<kind, sync, result, state, spc, timer, tracker, net, bound, toPost, told,
                   hs, poller>>

\* A timeout while start is in progress is lost.
OnTimeout(k) ==
    /\ kind = k /\ timer = "running" /\ timer' = "off"
    /\ IF state = "started" THEN state' = "timeouting" /\ toPost' = toPost + 1
                            ELSE UNCHANGED <<state, toPost>>
    /\ UNCHANGED <<kind, sync, result, spc, stoppc, tracker, net, bound, events, told, hs,
                   poller>>

TcpTimeout == OnTimeout("tcp")
TlsTimeout == OnTimeout("tls")

TimeoutPost ==
    /\ toPost > 0
    /\ toPost' = toPost - 1 /\ events' = events + 1
    /\ UNCHANGED <<kind, sync, result, state, spc, stoppc, timer, tracker, net, bound, told,
                   hs, poller>>

NetAnswers ==
    /\ net = "pending" /\ net' \in {"ok", "refused"}
    /\ UNCHANGED <<kind, sync, result, state, spc, stoppc, timer, tracker, bound, toPost,
                   events, told, hs, poller>>

-----------------------------------------------------------------------------
(* The send poller.                                                        *)

\* on_send_event: first the timer is stopped and the tracker uninstalled.
SendEvent ==
    /\ poller = PollerIdle /\ tracker = "armed" /\ net \in {"ok", "refused"}
    /\ timer' = Off(timer) /\ tracker' = "gone"
    /\ PollerAt(None, "connect")
    /\ UNCHANGED <<kind, sync, result, state, spc, stoppc, net, bound, toPost, events, told,
                   hs>>

\* Then the dial goes to state s and the handler on at l, unless somebody else
\* has ended it.  A descriptor that connected leaves the flow.
DialGoes(s, l) ==
    /\ IF state \in {"starting", "started"}
       THEN state' = s /\ bound' = (net # "ok") /\ PollerAt(None, l)
       ELSE UNCHANGED <<state, bound>> /\ poller' = PollerIdle
    /\ UNCHANGED <<kind, sync, result, spc, stoppc, timer, tracker, net, toPost,
                   events, told, hs>>

TcpConnected ==
    /\ poller = [obj |-> None, at |-> "connect"] /\ kind = "tcp"
    /\ IF net = "ok" THEN DialGoes("finished", "dialed")
                     ELSE DialGoes("error", "not_dialed")

\* A tls dialer whose connect failed goes on at "unshaken" too, where the user
\* is told only if the state is handshaking, which it never was.
TlsConnected ==
    /\ poller = [obj |-> None, at |-> "connect"] /\ kind = "tls"
    /\ IF net = "ok" THEN DialGoes("handshaking", "handshaker")
                     ELSE DialGoes("error", "unshaken")

\* The handshaker is created and its start begun, or it cannot be.
NewDialHandshaker ==
    /\ poller = [obj |-> None, at |-> "handshaker"]
    /\ \/ /\ hs' = [hs EXCEPT ![Hs].state = "starting", ![Hs].start = "flow"]
          /\ PollerAt(None, "hs_start")
       \/ PollerAt(None, "unshaken") /\ UNCHANGED hs
    /\ UNCHANGED dialVars

\* handshaker_->start, in the send poller itself.
StartDialHandshaker ==
    /\ poller = [obj |-> None, at |-> "hs_start"]
    /\ \/ HsStarting(Hs)
       \/ hs[Hs].start = "ok" /\ poller' = PollerIdle /\ UNCHANGED hs
       \/ hs[Hs].start = "failed" /\ PollerAt(None, "unshaken") /\ UNCHANGED hs
    /\ UNCHANGED dialVars

\* Mutant: the state is not tested.
HandshakeOverAny ==
    /\ poller.at \in {"unshaken", "handshaked", "unhandshaked"}
    /\ state' = IF poller.at = "unshaken" THEN "error" ELSE "finished"
    /\ PollerAt(None, IF poller.at = "handshaked" THEN "dialed" ELSE "not_dialed")
    /\ UNCHANGED <<kind, sync, result, spc, stoppc, timer, tracker, net, bound, toPost,
                   events, told, hs>>

\* No handshake, or its result; a dial that was stopped meanwhile ignores it.
HandshakeOver ==
    /\ poller.at \in {"unshaken", "handshaked", "unhandshaked"}
    /\ IF state = "handshaking"
       THEN /\ state' = IF poller.at = "unshaken" THEN "error" ELSE "finished"
            /\ PollerAt(None, IF poller.at = "handshaked" THEN "dialed" ELSE "not_dialed")
       ELSE UNCHANGED state /\ poller' = PollerIdle
    /\ UNCHANGED <<kind, sync, result, spc, stoppc, timer, tracker, net, bound, toPost,
                   events, told, hs>>

\* dialed_cb, with a transport or without: to the user, or on_dialed of the
\* synchronous dialer, which gives the result to dial.
DialedCallback ==
    /\ poller.obj = None /\ poller.at \in {"dialed", "not_dialed"}
    /\ told' = Append(told, poller.at)
    /\ poller' = PollerIdle
    /\ UNCHANGED <<kind, sync, result, state, spc, stoppc, timer, tracker, net, bound,
                   toPost, events, hs>>

\* on_channel_event: __trigger_interrupt_callbacks.
ChannelEvent ==
    /\ poller = PollerIdle /\ events > 0
    /\ events' = events - 1
    /\ CASE state = "timeouting" -> state' = "timeouted" /\ told' = Append(told, "timeouted")
         [] state = "stopping" -> state' = "stopped" /\ told' = Append(told, "stopped")
         [] OTHER -> UNCHANGED <<state, told>>
    /\ UNCHANGED <<kind, sync, result, spc, stoppc, timer, tracker, net, bound, toPost, hs,
                   poller>>

\* The promise of the synchronous dialer: on_dialed and on_timeouted set it.
Promise == CASE told = <<>> -> "unset" [] told = <<"dialed">> -> "transport"
             [] OTHER -> "null"

\* dial returns: at once if start failed, otherwise when the promise is set.
DialReturns ==
    /\ sync /\ result = "none"
    /\ \/ spc = "failed" /\ result' = "null"
       \/ spc = "ok" /\ Promise # "unset" /\ result' = Promise
    /\ UNCHANGED <<kind, sync, state, spc, stoppc, timer, tracker, net, bound,
                   toPost, events, told, hs, poller>>

-----------------------------------------------------------------------------
Handshaking ==
    /\ HsTimeout(Hs) \/ HsPost(Hs) \/ HsPolling(Hs)
    /\ UNCHANGED dialVars

Polling == SendEvent \/ TcpConnected \/ TlsConnected \/ NewDialHandshaker \/ StartDialHandshaker
           \/ HandshakeOver \/ DialedCallback \/ ChannelEvent

Next ==
    \/ Start \/ Starting \/ Stop \/ StopPost
    \/ TcpTimeout \/ TlsTimeout \/ TimeoutPost \/ NetAnswers
    \/ Polling \/ Handshaking \/ DialReturns

Spec == Init /\ [][Next]_vars

\* A start or stop that has begun goes on, timers fire, the operating system
\* answers a connect in the end and the poller handles what is there.
Fairness ==
    /\ WF_vars(Starting) /\ WF_vars(StopPost) /\ WF_vars(DialReturns)
    /\ WF_vars(TcpTimeout \/ TlsTimeout) /\ WF_vars(TimeoutPost) /\ WF_vars(NetAnswers)
    /\ WF_vars((HsTimeout(Hs) \/ HsPost(Hs)) /\ UNCHANGED dialVars)
    /\ SF_vars(SendEvent) /\ SF_vars(ChannelEvent)
    /\ SF_vars(HsChannelEvent(Hs) /\ UNCHANGED dialVars)
    /\ WF_vars(\/ TcpConnected \/ TlsConnected \/ NewDialHandshaker
               \/ StartDialHandshaker \/ HandshakeOver \/ DialedCallback
               \/ HsHandling(Hs) /\ UNCHANGED dialVars)

FairSpec == Spec /\ Fairness

-----------------------------------------------------------------------------
TypeOK ==
    /\ hs \in [Handshakers -> HandshakerType]
    /\ kind \in {"tcp", "tls"} /\ sync \in BOOLEAN /\ bound \in BOOLEAN
    /\ state \in {"none", "starting", "started", "handshaking", "finished", "error",
                  "timeouting", "timeouted", "stopping", "stopped"}
    /\ spc \in {"idle", "open", "timer", "connect", "install", "cas", "ok", "fail",
                "failed"}
    /\ stoppc \in {"idle", "posting", "done"}
    /\ timer \in {"none", "running", "off"} /\ tracker \in {"none", "armed", "gone"}
    /\ net \in {"none", "pending", "ok", "refused"}
    /\ toPost \in 0 .. 1 /\ events \in 0 .. 2
    /\ told \in Seq(Outcomes) /\ result \in {"none", "transport", "null"}

\* Something is on its way that will call __trigger_interrupt_callbacks.
EventComing == toPost > 0 \/ events > 0 \/ stoppc = "posting"

\* The user is told of the end of the dial exactly once, and of what really
\* ended it: a callback was made or is being made if and only if one of the
\* compare-and-swaps to a final state succeeded in a callback thread; and a
\* dial that was interrupted has its channel event on the way.
OneOutcome ==
    /\ Len(told) <= 1 /\ hs[Hs].told <= 1
    /\ told = <<"dialed">> => state = "finished" /\ net = "ok" /\ ~bound
    /\ told = <<"not_dialed">> => state \in {"error", "finished"}
    /\ told = <<"timeouted">> => state = "timeouted"
    /\ told = <<"stopped">> => state = "stopped" /\ ~sync
    /\ poller.at \in {"dialed", "not_dialed"} => told = <<>>
    /\ state \in {"timeouting", "stopping"} => told = <<>> /\ EventComing
    /\ state \in {"starting", "started", "handshaking"} => told = <<>>

\* The inductive invariant has the parts that follow beside the types.
\*
\* How far start is, what it has done, and what stop has.
DialLocals ==
    /\ spc = "idle" <=> state = "none"
    /\ state = "starting" => spc \in {"open", "timer", "connect", "install", "cas", "fail"}
    /\ state = "started" => spc = "ok"
    /\ spc \in {"idle", "open", "connect"} \/ (kind = "tcp" /\ spc = "timer") => net = "none"
    /\ tracker # "none" => spc \in {"cas", "ok", "fail", "failed"}
    /\ state \in {"stopping", "stopped"} \/ stoppc # "idle" => ~sync
    /\ stoppc = "idle" => state \notin {"stopping", "stopped"}

\* One event is on its way for a dial that was interrupted, otherwise none.
EventMatches ==
    toPost + events + (IF stoppc = "posting" THEN 1 ELSE 0)
        = IF state \in {"timeouting", "stopping"} THEN 1 ELSE 0

\* What the user was told fits the state.
ToldOk ==
    \/ told = <<>> /\ state \notin {"timeouted", "stopped"}
    \/ told = <<"timeouted">> /\ state = "timeouted"
    \/ told = <<"stopped">> /\ state = "stopped"
    \/ told = <<"dialed">> /\ state = "finished" /\ net = "ok" /\ ~bound
    \/ told = <<"not_dialed">> /\ state \in {"error", "finished"}

\* What the send poller is doing: dialling, or a call of the handshaker.
DialPollerOk ==
    /\ \/ /\ poller.obj = None
          /\ poller.at \in {"idle", "connect", "handshaker", "hs_start", "unshaken", "dialed",
                            "not_dialed"}
       \/ /\ poller.obj = Hs
          /\ poller.at \in {"process", "finish", "assert_failed", "handshaked", "unhandshaked"}
    /\ poller = [obj |-> poller.obj, at |-> poller.at]
    /\ poller.at = "connect" => net \in {"ok", "refused"}
    /\ poller.at \in {"connect", "handshaker"} => tracker = "gone" /\ hs[Hs] = NewHandshaker
    /\ tracker # "gone" => hs[Hs] = NewHandshaker
    /\ poller.at = "hs_start" \/ poller.obj = Hs => hs[Hs].start # "idle"
    /\ poller.at = "dialed" => told = <<>> /\ state = "finished" /\ net = "ok" /\ ~bound
    /\ poller.at = "not_dialed" => told = <<>> /\ state \in {"error", "finished"}
    /\ state = "handshaking" => net = "ok" /\ ~bound

\* The handshaker of the dialer: one channel event at most is ever posted for
\* it, and it is finished once.
DialHandshakerOk ==
    LET r == hs[Hs]
    IN  /\ r.start = "idle" => r = NewHandshaker
        /\ r.state = "none" => r.start = "idle"
        /\ r.start \notin {"idle", "ok", "failed"} => poller.at = "hs_start"
        /\ r.state = "starting" => r.start \in {"flow", "timer", "tracker", "started", "fail"}
        /\ r.start \in {"flow", "timer", "tracker", "started"} =>
                r.state \in {"starting", "timeouting"}
        /\ r.state \in {"started", "finished"} => r.start = "ok"
        /\ r.start \in {"started", "ok"} => r.tracker # "none"
        /\ r.state \notin {"stopping", "stopped"}
        /\ r.toPost + r.events = IF r.state = "timeouting" /\ poller.at \notin
                                        {"finish", "assert_failed"} THEN 1 ELSE 0
        /\ r.told = IF \/ r.state = "timeouted"
                       \/ r.state \in {"finished", "error"} /\ r.start = "ok"
                          /\ poller.at # "finish"
                    THEN 1 ELSE 0
        /\ poller.at = "finish" => \/ r.state \in {"timeouting", "finished"}
                                   \/ r.state = "error" /\ r.start = "ok"
        /\ poller.at = "assert_failed" => r.state = "timeouting"

IInv ==
    /\ TypeOK /\ DialLocals /\ EventMatches /\ ToldOk /\ DialPollerOk /\ DialHandshakerOk

\* The dial has ended for its user.
Over == told # <<>> /\ (sync => result # "none")

\* The handshaker timed out before start had its tracker, and the send poller has
\* stopped at the assertion that there is one.
PollerStuck == poller.at = "assert_failed"

\* A start that returned error_none is followed by a callback, whatever the
\* timers, stop and the handshake do, while there is a send poller: a
\* synchronous dial returns.
DialEnds == spc = "ok" ~> Over \/ PollerStuck

\* The same without the connect of a tls dialer that is refused.
DialEndsUnlessRefused ==
    spc = "ok" ~> Over \/ PollerStuck \/ (kind = "tls" /\ net = "refused" /\ state = "error")
=============================================================================
