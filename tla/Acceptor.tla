------------------------------ MODULE Acceptor ------------------------------
(***************************************************************************)
(* One acceptor: src/transport/tcp_acceptor.cpp or tls_acceptor.cpp, over  *)
(* base_acceptor.cpp and flow_tcp_acceptor.cpp.  A tcp acceptor hands a    *)
(* connection to the user in the read poller; a tls acceptor puts a        *)
(* handshaker for it into a table, starts it, and hands the connection     *)
(* over when the send poller reports the handshake.  Any thread may stop   *)
(* the acceptor meanwhile, which stops the handshakers in the table.       *)
(*                                                                         *)
(* A handshaker lives while it is in the table, is being called by the     *)
(* send poller, or has a timer (whose callback holds a reference to it).   *)
(***************************************************************************)
EXTENDS TlsHandshaker

CONSTANT MaxConnects   \* bound: connections that arrive

ASSUME AcceptorAssumption ==
    /\ MaxConnects \in Nat
    /\ Handshakers # {} /\ None \notin Handshakers

VARIABLES
    kind,        \* "tcp" or "tls"
    state,       \* state_
    spc, stoppc, \* control of start and stop
    open,        \* the flow has its listening socket
    tracker,     \* tracker_: "none", "armed" or "idle"
    waiting,     \* connections to accept, and those that may still arrive
    arriving,
    rpc, cur,    \* the read poller: control, handshaker it starts
    table,       \* handshakers_
    events,      \* channel events posted
    stopped,     \* history: stopped_cb was called
    accepted     \* history: accepted_cb calls

acceptVars == <<kind, state, spc, stoppc, open, tracker, waiting, arriving, rpc,
                cur, table, events, stopped, accepted>>
vars == <<acceptVars, hs, poller>>

Init ==
    /\ HandshakerInit
    /\ kind \in {"tcp", "tls"} /\ state = "none"
    /\ spc = "idle" /\ stoppc = "idle"
    /\ open = FALSE /\ tracker = "none" /\ waiting = 0 /\ arriving = MaxConnects
    /\ rpc = "idle" /\ cur = None /\ table = {}
    /\ events = 0 /\ stopped = FALSE /\ accepted = 0

Alive(h) == h \in table \/ hs[h].timer # "none" \/ poller.obj = h

-----------------------------------------------------------------------------
(* start and stop.                                                         *)

Start ==
    /\ state = "none"
    /\ state' = "starting" /\ spc' = "open"
    /\ UNCHANGED <<kind, stoppc, open, tracker, waiting, arriving, rpc, cur, table,
                   events, stopped, accepted, hs, poller>>

OpenAcceptFlow ==
    /\ spc = "open"
    /\ \/ open' = TRUE /\ spc' = "install"
       \/ UNCHANGED open /\ spc' = "fail"
    /\ UNCHANGED <<kind, state, stoppc, tracker, waiting, arriving, rpc, cur, table,
                   events, stopped, accepted, hs, poller>>

InstallAcceptTracker ==
    /\ spc = "install"
    /\ \/ tracker' = "armed" /\ spc' = "cas"
       \/ UNCHANGED tracker /\ spc' = "fail"
    /\ UNCHANGED <<kind, state, stoppc, open, waiting, arriving, rpc, cur, table,
                   events, stopped, accepted, hs, poller>>

\* Nobody else changes the state of an acceptor that is starting.
Started ==
    /\ spc = "cas" /\ state = "starting"
    /\ state' = "started" /\ spc' = "ok"
    /\ UNCHANGED <<kind, stoppc, open, tracker, waiting, arriving, rpc, cur, table,
                   events, stopped, accepted, hs, poller>>

StartFails ==
    /\ spc = "fail" /\ spc' = "failed"
    /\ state' = "error" /\ open' = FALSE
    /\ UNCHANGED <<kind, stoppc, tracker, waiting, arriving, rpc, cur, table,
                   events, stopped, accepted, hs, poller>>

Stop ==
    /\ stoppc = "idle" /\ state = "started"
    /\ state' = "stopping" /\ stoppc' = "close"
    /\ UNCHANGED <<kind, spc, open, tracker, waiting, arriving, rpc, cur, table,
                   events, stopped, accepted, hs, poller>>

CloseAcceptFlow ==
    /\ stoppc = "close"
    /\ open' = FALSE
    /\ stoppc' = IF kind = "tls" THEN "stop_all" ELSE "post"
    /\ UNCHANGED <<kind, state, spc, tracker, waiting, arriving, rpc, cur, table,
                   events, stopped, accepted, hs, poller>>

\* Under the mutex.
StopAllHandshakers ==
    /\ stoppc = "stop_all" /\ stoppc' = "post"
    /\ hs' = [h \in Handshakers |-> IF h \in table THEN HsStop(hs[h]) ELSE hs[h]]
    /\ table' = {}
    /\ UNCHANGED <<kind, state, spc, open, tracker, waiting, arriving, rpc, cur,
                   events, stopped, accepted, poller>>

StopPost ==
    /\ stoppc = "post" /\ stoppc' = "done"
    /\ events' = events + 1
    /\ UNCHANGED <<kind, state, spc, open, tracker, waiting, arriving, rpc, cur,
                   table, stopped, accepted, hs, poller>>

-----------------------------------------------------------------------------
(* The read poller: on_read_event.                                         *)

ConnectionArrives ==
    /\ arriving > 0 /\ open
    /\ arriving' = arriving - 1 /\ waiting' = waiting + 1
    /\ UNCHANGED <<kind, state, spc, stoppc, open, tracker, rpc, cur, table, events,
                   stopped, accepted, hs, poller>>

ReadEvent ==
    /\ rpc = "idle" /\ tracker = "armed" /\ open /\ waiting > 0
    /\ tracker' = "idle" /\ rpc' = "accept"
    /\ UNCHANGED <<kind, state, spc, stoppc, open, waiting, arriving, cur, table,
                   events, stopped, accepted, hs, poller>>

\* An acceptor that is starting is waited for.  The socket may have been closed
\* since; then there is nothing to accept, as when accept fails.
Accept ==
    /\ rpc = "accept" /\ state # "starting"
    /\ IF open
       THEN /\ waiting' = waiting - 1
            /\ rpc' \in {"again", IF kind = "tcp" THEN "accepted" ELSE "create"}
       ELSE UNCHANGED waiting /\ rpc' = "again"
    /\ UNCHANGED <<kind, state, spc, stoppc, open, tracker, arriving, cur, table,
                   events, stopped, accepted, hs, poller>>

\* accepted_cb, whatever the state is by now.
TcpAccepted ==
    /\ rpc = "accepted" /\ rpc' = "again"
    /\ accepted' = accepted + 1
    /\ UNCHANGED <<kind, state, spc, stoppc, open, tracker, waiting, arriving, cur,
                   table, events, stopped, hs, poller>>

\* The handshakers not created yet.
Fresh == {h \in Handshakers : hs[h] = NewHandshaker}

\* A new handshaker goes into the table, under the mutex.
CreateHandshaker ==
    /\ rpc = "create" /\ Fresh # {}
    /\ cur' = CHOOSE h \in Fresh : TRUE
    /\ table' = table \cup {cur'} /\ rpc' = "init"
    /\ UNCHANGED <<kind, state, spc, stoppc, open, tracker, waiting, arriving,
                   events, stopped, accepted, hs, poller>>

\* What follows uses the pointer without the mutex: a stop in between may have
\* destroyed the handshaker, and nothing can be said of this thread any more.
UseDestroyed ==
    /\ rpc \in {"init", "starting"} /\ ~Alive(cur)
    /\ rpc' = "undefined"
    /\ UNCHANGED <<kind, state, spc, stoppc, open, tracker, waiting, arriving, cur,
                   table, events, stopped, accepted, hs, poller>>

\* init fails, or start begins.
InitHandshaker ==
    /\ rpc = "init" /\ Alive(cur)
    /\ \/ rpc' = "remove" /\ UNCHANGED <<hs, poller>>
       \/ rpc' = "starting" /\ HsStart(cur)
    /\ UNCHANGED <<kind, state, spc, stoppc, open, tracker, waiting, arriving, cur,
                   table, events, stopped, accepted>>

StartHandshaker ==
    /\ rpc = "starting" /\ Alive(cur)
    /\ \/ HsStarting(cur) /\ UNCHANGED rpc
       \/ /\ hs[cur].start = "ok" /\ rpc' = "again"
          /\ UNCHANGED <<hs, poller>>
       \/ /\ hs[cur].start = "failed" /\ rpc' = "remove"
          /\ UNCHANGED <<hs, poller>>
    /\ UNCHANGED <<kind, state, spc, stoppc, open, tracker, waiting, arriving, cur,
                   table, events, stopped, accepted>>

\* Mutant: a handshaker that did not start stays in the table.
RemoveHandshakerNot ==
    /\ rpc = "remove" /\ rpc' = "again"
    /\ UNCHANGED <<kind, state, spc, stoppc, open, tracker, waiting, arriving, cur,
                   table, events, stopped, accepted, hs, poller>>

RemoveHandshaker ==
    /\ rpc = "remove" /\ rpc' = "again"
    /\ table' = table \ {cur}
    /\ UNCHANGED <<kind, state, spc, stoppc, open, tracker, waiting, arriving, cur,
                   events, stopped, accepted, hs, poller>>

\* Without effect on a socket that is closed.
StartAcceptTracker ==
    /\ rpc = "again" /\ rpc' = "idle" /\ cur' = None
    /\ tracker' = IF open THEN "armed" ELSE "idle"
    /\ UNCHANGED <<kind, state, spc, stoppc, open, waiting, arriving, table, events,
                   stopped, accepted, hs, poller>>

-----------------------------------------------------------------------------
(* The send poller.                                                        *)

\* Mutant: the state of the acceptor is not looked at again.
HandshakedAny(h) ==
    /\ poller.obj = h /\ poller.at \in {"handshaked", "unhandshaked"}
    /\ table' = table \ {h}
    /\ IF h \in table /\ poller.at = "handshaked"
       THEN PollerAt(h, "accepted") ELSE poller' = PollerIdle
    /\ UNCHANGED <<kind, state, spc, stoppc, open, tracker, waiting, arriving, rpc,
                   cur, events, stopped, accepted, hs>>

\* on_handshaked: a handshaker that the table has no more is ignored, and so
\* is one that failed or comes after stop.
Handshaked(h) ==
    /\ poller.obj = h /\ poller.at \in {"handshaked", "unhandshaked"}
    /\ table' = table \ {h}
    /\ IF h \in table /\ poller.at = "handshaked" /\ state = "started"
       THEN PollerAt(h, "accepted") ELSE poller' = PollerIdle
    /\ UNCHANGED <<kind, state, spc, stoppc, open, tracker, waiting, arriving, rpc,
                   cur, events, stopped, accepted, hs>>

TlsAccepted ==
    /\ poller.at = "accepted"
    /\ accepted' = accepted + 1 /\ poller' = PollerIdle
    /\ UNCHANGED <<kind, state, spc, stoppc, open, tracker, waiting, arriving, rpc,
                   cur, table, events, stopped, hs>>

\* on_handshake_stopped
HandshakeStopped(h) ==
    /\ poller = [obj |-> h, at |-> "hs_stopped"]
    /\ table' = table \ {h} /\ poller' = PollerIdle
    /\ UNCHANGED <<kind, state, spc, stoppc, open, tracker, waiting, arriving, rpc,
                   cur, events, stopped, accepted, hs>>

\* on_channel_event: __trigger_interrupt_callbacks.
ChannelEvent ==
    /\ poller = PollerIdle /\ events > 0
    /\ events' = events - 1
    /\ IF state = "stopping" THEN state' = "stopped" /\ stopped' = TRUE
                             ELSE UNCHANGED <<state, stopped>>
    /\ UNCHANGED <<kind, spc, stoppc, open, tracker, waiting, arriving, rpc, cur,
                   table, accepted, hs, poller>>

\* An event of a handshaker that was destroyed is dropped.
HandshakerPolling(h) == Alive(h) /\ HsPolling(h) /\ UNCHANGED acceptVars

-----------------------------------------------------------------------------
Starting == OpenAcceptFlow \/ InstallAcceptTracker \/ Started \/ StartFails
Stopping == CloseAcceptFlow \/ StopAllHandshakers \/ StopPost
Accepting == Accept \/ TcpAccepted \/ CreateHandshaker \/ UseDestroyed
             \/ InitHandshaker \/ StartHandshaker \/ RemoveHandshaker
             \/ StartAcceptTracker
HandshakerThreads(h) == (HsTimeout(h) \/ HsPost(h)) /\ UNCHANGED acceptVars
Calling(h) == Handshaked(h) \/ HandshakeStopped(h)

Next ==
    \/ Start \/ Starting \/ Stop \/ Stopping
    \/ ConnectionArrives \/ ReadEvent \/ Accepting
    \/ TlsAccepted \/ ChannelEvent
    \/ \E h \in Handshakers :
        HandshakerThreads(h) \/ HandshakerPolling(h) \/ Calling(h)

Spec == Init /\ [][Next]_vars

\* Every thread goes on with what it has begun, the pollers handle what they
\* are told of and timers fire.
Fairness ==
    /\ WF_vars(Starting) /\ WF_vars(Stopping) /\ WF_vars(Accepting)
    /\ SF_vars(ChannelEvent)
    /\ WF_vars(\/ TlsAccepted
               \/ \E h \in Handshakers :
                   Calling(h) \/ (HsHandling(h) /\ UNCHANGED acceptVars))
    /\ \A h \in Handshakers :
        /\ WF_vars(HandshakerThreads(h))
        /\ SF_vars(Alive(h) /\ HsChannelEvent(h) /\ UNCHANGED acceptVars)

FairSpec == Spec /\ Fairness

-----------------------------------------------------------------------------
TypeOK ==
    /\ hs \in [Handshakers -> HandshakerType]
    /\ kind \in {"tcp", "tls"}
    /\ state \in {"none", "starting", "started", "error", "stopping", "stopped"}
    /\ spc \in {"idle", "open", "install", "cas", "ok", "fail", "failed"}
    /\ stoppc \in {"idle", "close", "stop_all", "post", "done"}
    /\ open \in BOOLEAN /\ stopped \in BOOLEAN
    /\ tracker \in {"none", "armed", "idle"}
    /\ waiting \in 0 .. MaxConnects /\ arriving \in 0 .. MaxConnects
    /\ accepted \in 0 .. MaxConnects
    /\ rpc \in {"idle", "accept", "accepted", "create", "init", "starting", "remove",
                "again", "undefined"}
    /\ cur \in Handshakers \cup {None} /\ table \subseteq Handshakers
    /\ events \in 0 .. 1

\* The poller is about to tell the acceptor of handshaker h.
Telling(h) == poller.obj = h /\ poller.at \in {"finish", "handshaked", "unhandshaked",
                                               "hs_stopped"}

\* The inductive invariant has the parts that follow beside the types.
\*
\* start and stop of the acceptor.
AcceptorLocals ==
    /\ spc = "idle" <=> state = "none"
    /\ spc \in {"open", "install", "cas", "fail"} <=> state = "starting"
    /\ spc = "failed" <=> state = "error"
    /\ stoppc # "idle" <=> state \in {"stopping", "stopped"}
    /\ stoppc \notin {"idle", "done"} => state = "stopping"
    /\ events > 0 => stoppc = "done"
    /\ spc \in {"install", "cas"} \/ state = "started" => open
    /\ spc = "cas" \/ state = "started" => tracker = "armed" \/ rpc # "idle"
    /\ state = "none" => ~open /\ rpc = "idle"

\* The read poller and the handshaker it starts.
ReadLocals ==
    /\ rpc \in {"idle", "accept", "accepted", "create"} => cur = None
    /\ rpc \in {"init", "starting", "remove", "undefined"} => cur # None
    /\ rpc \notin {"idle", "accept"} => state \notin {"none", "starting"}
    /\ rpc = "accept" => waiting > 0
    /\ rpc = "init" => hs[cur] = NewHandshaker /\ (state = "started" => cur \in table)
    /\ rpc = "starting" => hs[cur].start # "idle"
    /\ rpc = "remove" => hs[cur].start \in {"idle", "failed"}
    /\ rpc = "again" /\ cur \in table => hs[cur].start = "ok"

\* What the send poller is doing fits the handshaker it does it for.
PollerOk ==
    /\ poller \in [obj : Handshakers \cup {None},
                   at : {"idle", "process", "finish", "handshaked", "unhandshaked",
                         "hs_stopped", "accepted", "assert_failed"}]
    /\ poller.at = "idle" <=> poller.obj = None
    /\ poller.obj # None =>
        LET r == hs[poller.obj]
        IN  /\ \/ r.tracker # "none"
               \/ /\ poller.at \in {"finish", "assert_failed"}
                  /\ r.state \in {"timeouting", "stopping"}
            /\ poller.at = "assert_failed" => r.state \in {"timeouting", "stopping"} /\ r.start # "ok"
            /\ poller.at = "finish" => r.state \in {"timeouting", "stopping", "finished", "error"}
            /\ poller.at \in {"handshaked", "accepted"} => r.state = "finished"
            /\ poller.at = "unhandshaked" => r.state \in {"error", "timeouted"}
            /\ poller.at = "hs_stopped" => r.state = "stopped"
            /\ poller.at = "accepted" => poller.obj \notin table

Finishing(h) == poller.obj = h /\ poller.at \in {"finish", "assert_failed"}

\* A handshaker: one channel event at most is ever posted for it, and it is
\* finished once.  One that times out before start has its tracker is finished
\* never: the send poller stops at the assertion.
HandshakerOk(h) ==
    LET r == hs[h]
    IN  /\ r.start = "idle" => r = NewHandshaker
        /\ r.state = "none" => r.start = "idle"
        /\ r.start \in {"flow", "timer", "tracker", "started", "fail"} =>
                cur = h /\ rpc \in {"starting", "undefined"}
        /\ r.start \in {"flow", "timer", "tracker"} => r.tracker = "none"
        /\ r.start \in {"flow", "timer"} => r.state = "starting" /\ r.timer = "none"
        /\ r.start = "tracker" => r.state \in {"starting", "timeouting", "stopping"}
        /\ r.start \in {"started", "ok"} => r.tracker # "none"
        /\ r.state = "starting" => r.start \in {"flow", "timer", "tracker", "started", "fail"}
        /\ r.state = "starting" /\ r.start = "fail" => r.tracker = "none"
        /\ r.state = "started" => r.start = "ok"
        /\ r.state \notin {"timeouting", "stopping"} => r.toPost = 0 /\ r.events = 0
        /\ r.state \in {"none", "starting", "started"} => r.told = 0
        /\ r.state \in {"timeouting", "stopping"} =>
                /\ r.start # "idle" /\ r.told = 0
                /\ r.toPost + r.events = IF Finishing(h) THEN 0 ELSE 1
        /\ r.state \in {"finished", "error"} =>
                \/ r.start = "ok" /\ r.told = IF Finishing(h) THEN 0 ELSE 1
                \/ r.state = "error" /\ r.start = "failed" /\ r.tracker = "none" /\ r.told = 0
        /\ r.state \in {"timeouted", "stopped"} => r.told = 1

\* The table: what it has is started, or starting in the read poller, and its
\* end is told before it leaves.
TableOk ==
    /\ state \in {"none", "starting"} =>
            table = {} /\ \A h \in Handshakers : hs[h] = NewHandshaker
    /\ state = "started" =>
        \A h \in Handshakers :
            hs[h].state \in {"starting", "started", "timeouting"} =>
                h \in table \/ hs[h].start \in {"fail", "failed"}
    /\ \A h \in table :
        /\ h = cur \/ hs[h].start = "ok"
        /\ hs[h].state \notin {"stopping", "stopped"}
        /\ hs[h].start = "ok" /\ hs[h].state \in {"finished", "error", "timeouted"} => Telling(h)

\* Every connection is handed over once: those to come, those that wait, that
\* of the read poller and those with a handshaker are no more than there were.
InProgress == table \cup {h \in Handshakers : poller = [obj |-> h, at |-> "accepted"]}
ConnectionsMatch ==
    /\ IsFiniteSet(table)
    /\ accepted + waiting + arriving + Cardinality(InProgress)
         + (IF rpc \in {"accepted", "create"} THEN 1 ELSE 0) <= MaxConnects

IInv ==
    /\ TypeOK /\ AcceptorLocals /\ ReadLocals /\ PollerOk
    /\ \A h \in Handshakers : HandshakerOk(h)
    /\ TableOk /\ ConnectionsMatch

\* The table and the handshakers agree: while the acceptor is started every
\* handshake in progress is in the table, so that stop reaches it, and what
\* is in the table at any time is in progress or its end on the way.  Nobody
\* is told twice of the end of a handshake.
TableHasHandshakes ==
    /\ \A h \in Handshakers : hs[h].told <= 1
    /\ state = "started" =>
        \A h \in Handshakers :
            hs[h].state \in {"starting", "started", "timeouting"} =>
                \/ h \in table
                \/ hs[h].start \in {"fail", "failed"}   \* timed out in start
    /\ \A h \in table :
        \/ cur = h
        \/ hs[h].state = "started"
        \/ hs[h].state \in {"timeouting", "stopping"}
           /\ (hs[h].toPost > 0 \/ hs[h].events > 0 \/ Telling(h))
        \/ hs[h].state \in {"finished", "error", "timeouted"} /\ Telling(h)

\* A started acceptor accepts: its tracker is armed or its handler running.
AcceptChance ==
    state = "started" => tracker = "armed" \/ rpc # "idle"

\* A tls acceptor hands over no connection after stopped_cb, although
\* handshakes succeed after stop.
NoLateAccept ==
    [][(kind = "tls" /\ stopped) => accepted' = accepted]_vars

\* A handshaker timed out before start had its tracker, and the send poller has
\* stopped at the assertion that there is one.
PollerStuck == poller.at = "assert_failed"

\* A stop ends in stopped_cb, while there is a send poller.
StopEnds == state = "stopping" ~> stopped \/ PollerStuck

\* Every handshaker leaves the table, the peer that says nothing included,
\* while there is a send poller: when no more connections come (MaxConnects),
\* the table is empty in the end.
HandshakersLeave == table # {} ~> table = {} \/ PollerStuck
=============================================================================
