-------------------------- MODULE MCConnect_proofs --------------------------
(***************************************************************************)
(* Proofs about the two ends of a connection that is being made.  For the  *)
(* acceptor: its table agrees with the handshakes, and nothing is handed   *)
(* over after stopped_cb.  For the dialer: its user is told of the end of  *)
(* the dial once, and of what ended it.  The theorems, at the end, are     *)
(* about the specification in which either end moves.                      *)
(***************************************************************************)
EXTENDS MCConnect, Sequences, FiniteSetTheorems, TLAPS

(***************************************************************************)
(* The acceptor.                                                           *)
(***************************************************************************)

\* What the constants are.
Assumed == None \notin Handshakers /\ MaxConnects \in Nat

\* Every handshaker is right.
HandshakersOk == \A h \in Handshakers : HandshakerOk(h)

\* A handshaker that is not touched stays right.
LEMMA HandshakerFrame ==
    ASSUME NEW h \in Handshakers, HandshakerOk(h), hs'[h] = hs[h],
           Finishing(h)' <=> Finishing(h),
           \/ UNCHANGED <<cur, rpc>>
           \/ hs[h].start \notin {"flow", "timer", "tracker", "started", "fail"}
           \/ cur' = cur /\ rpc' \in {"starting", "undefined"}
    PROVE  HandshakerOk(h)'
BY DEF HandshakerOk, NewHandshaker

\* The steps of the acceptor alone.
ControlStep ==
    \/ Start \/ OpenAcceptFlow \/ InstallAcceptTracker \/ Started \/ StartFails
    \/ Stop \/ CloseAcceptFlow \/ StopPost \/ ChannelEvent
AcceptStep ==
    \/ ConnectionArrives \/ ReadEvent \/ Accept \/ TcpAccepted \/ UseDestroyed
    \/ StartAcceptTracker
AcceptorStep == ControlStep \/ AcceptStep

\* They leave everything right.
LEMMA AcceptorIInv ==
    ASSUME Assumed, IInv, AcceptorStep
    PROVE  IInv'
<1>0. /\ TypeOK /\ AcceptorLocals /\ ReadLocals /\ PollerOk /\ HandshakersOk /\ TableOk
      /\ ConnectionsMatch
  BY DEF IInv, HandshakersOk
<1>a. UNCHANGED <<hs, poller, table, kind>>
  BY DEF AcceptorStep, ControlStep, Start, OpenAcceptFlow, InstallAcceptTracker,
         Started, StartFails, Stop, CloseAcceptFlow, StopPost, ChannelEvent,
         AcceptStep, ConnectionArrives, ReadEvent, Accept,
         TcpAccepted, UseDestroyed, StartAcceptTracker
<1>c. InProgress' = InProgress /\ Cardinality(InProgress) \in Nat
  <2>1. InProgress' = InProgress
    BY <1>a DEF InProgress
  <2>2. IsFiniteSet(InProgress)
    <3>1. IsFiniteSet({h \in Handshakers : poller = [obj |-> h, at |-> "accepted"]})
      <4>1. {h \in Handshakers : poller = [obj |-> h, at |-> "accepted"]} \subseteq {poller.obj}
        OBVIOUS
      <4> QED BY <4>1, FS_Subset, FS_Singleton
    <3> QED BY <1>0, <3>1, FS_Union DEF InProgress, ConnectionsMatch
  <2> QED BY <2>1, <2>2, FS_CardinalityType
<1>1. ConnectionsMatch'
  BY <1>0, <1>a, <1>c DEF TypeOK, ConnectionsMatch, ReadLocals, Assumed,
         AcceptorStep, ControlStep, Start, OpenAcceptFlow, InstallAcceptTracker,
         Started, StartFails, Stop, CloseAcceptFlow, StopPost, ChannelEvent,
         AcceptStep, ConnectionArrives, ReadEvent, Accept,
         TcpAccepted, UseDestroyed, StartAcceptTracker
<1>2. TypeOK'
  <2>n. waiting' \in Nat /\ arriving' \in Nat /\ accepted' \in Nat
    BY <1>0 DEF TypeOK, ReadLocals, AcceptorStep, ControlStep, Start, OpenAcceptFlow,
       InstallAcceptTracker, Started, StartFails, Stop, CloseAcceptFlow, StopPost, ChannelEvent,
       AcceptStep, ConnectionArrives, ReadEvent, Accept, TcpAccepted, UseDestroyed,
       StartAcceptTracker
  <2>b. /\ waiting' \in 0 .. MaxConnects
       /\ arriving' \in 0 .. MaxConnects
       /\ accepted' \in 0 .. MaxConnects
    BY <1>1, <1>c, <2>n DEF ConnectionsMatch, Assumed
  <2>e. events' \in 0 .. 1
    BY <1>0 DEF TypeOK, AcceptorLocals, AcceptorStep, ControlStep, Start, OpenAcceptFlow,
       InstallAcceptTracker, Started, StartFails, Stop, CloseAcceptFlow, StopPost, ChannelEvent,
       AcceptStep, ConnectionArrives, ReadEvent, Accept, TcpAccepted, UseDestroyed,
       StartAcceptTracker
  <2>o. open' \in BOOLEAN /\ stopped' \in BOOLEAN
    <3>0. open \in BOOLEAN /\ stopped \in BOOLEAN
      BY <1>0 DEF TypeOK
    <3>1. (open' = open \/ open' = TRUE \/ open' = FALSE) /\ (stopped' = stopped \/ stopped' = TRUE)
      BY Zenon DEF AcceptorStep, ControlStep, Start, OpenAcceptFlow,
         InstallAcceptTracker, Started, StartFails, Stop, CloseAcceptFlow, StopPost, ChannelEvent,
         AcceptStep, ConnectionArrives, ReadEvent, Accept, TcpAccepted, UseDestroyed,
         StartAcceptTracker
    <3> QED BY <3>0, <3>1
  <2>1. CASE ControlStep
    <3>1. CASE Start
      BY <1>0, <1>a, <2>b, <2>e, <2>o, <3>1 DEF TypeOK, Start
    <3>2. CASE OpenAcceptFlow
      BY <1>0, <1>a, <2>b, <2>e, <2>o, <3>2 DEF TypeOK, OpenAcceptFlow
    <3>3. CASE InstallAcceptTracker
      BY <1>0, <1>a, <2>b, <2>e, <2>o, <3>3 DEF TypeOK, InstallAcceptTracker
    <3>4. CASE Started
      BY <1>0, <1>a, <2>b, <2>e, <2>o, <3>4 DEF TypeOK, Started
    <3>5. CASE StartFails
      BY <1>0, <1>a, <2>b, <2>e, <2>o, <3>5 DEF TypeOK, StartFails
    <3>6. CASE Stop
      BY <1>0, <1>a, <2>b, <2>e, <2>o, <3>6 DEF TypeOK, Stop
    <3>7. CASE CloseAcceptFlow
      BY <1>0, <1>a, <2>b, <2>e, <2>o, <3>7 DEF TypeOK, CloseAcceptFlow
    <3>8. CASE StopPost
      BY <1>0, <1>a, <2>b, <2>e, <2>o, <3>8 DEF TypeOK, StopPost
    <3>9. CASE ChannelEvent
      BY <1>0, <1>a, <2>b, <2>e, <2>o, <3>9 DEF TypeOK, ChannelEvent
    <3> QED BY <2>1, <3>1, <3>2, <3>3, <3>4, <3>5, <3>6, <3>7, <3>8, <3>9 DEF ControlStep
  <2>2. CASE AcceptStep
    BY <1>0, <1>a, <2>2, <2>b, <2>e DEF TypeOK, AcceptStep,
       ConnectionArrives, ReadEvent, Accept, TcpAccepted, UseDestroyed, StartAcceptTracker
  <2> QED BY <2>1, <2>2 DEF AcceptorStep
<1>3. AcceptorLocals'
  <2>1. CASE ControlStep
    <3>1. CASE Start
      BY <1>0, <1>a, <3>1 DEF TypeOK, AcceptorLocals, ReadLocals, Start
    <3>2. CASE OpenAcceptFlow
      BY <1>0, <1>a, <3>2 DEF TypeOK, AcceptorLocals, ReadLocals, OpenAcceptFlow
    <3>3. CASE InstallAcceptTracker
      BY <1>0, <1>a, <3>3 DEF TypeOK, AcceptorLocals, ReadLocals, InstallAcceptTracker
    <3>4. CASE Started
      BY <1>0, <1>a, <3>4 DEF TypeOK, AcceptorLocals, ReadLocals, Started
    <3>5. CASE StartFails
      BY <1>0, <1>a, <3>5 DEF TypeOK, AcceptorLocals, ReadLocals, StartFails
    <3>6. CASE Stop
      BY <1>0, <1>a, <3>6 DEF TypeOK, AcceptorLocals, ReadLocals, Stop
    <3>7. CASE CloseAcceptFlow
      BY <1>0, <1>a, <3>7 DEF TypeOK, AcceptorLocals, ReadLocals, CloseAcceptFlow
    <3>8. CASE StopPost
      BY <1>0, <1>a, <3>8 DEF TypeOK, AcceptorLocals, ReadLocals, StopPost
    <3>9. CASE ChannelEvent
      BY <1>0, <1>a, <3>9 DEF TypeOK, AcceptorLocals, ReadLocals, ChannelEvent
    <3> QED BY <2>1, <3>1, <3>2, <3>3, <3>4, <3>5, <3>6, <3>7, <3>8, <3>9 DEF ControlStep
  <2>2. CASE AcceptStep
    BY <1>0, <1>a, <2>2 DEF TypeOK, AcceptorLocals, ReadLocals, Assumed, AcceptStep,
       ConnectionArrives, ReadEvent, Accept, TcpAccepted, UseDestroyed, StartAcceptTracker
  <2> QED BY <2>1, <2>2 DEF AcceptorStep
<1>4. ReadLocals'
  <2>1. CASE ControlStep
    BY <1>0, <1>a, <2>1 DEF TypeOK, AcceptorLocals, ReadLocals, Assumed, ControlStep, Start,
       OpenAcceptFlow, InstallAcceptTracker, Started, StartFails, Stop, CloseAcceptFlow,
                StopPost, ChannelEvent
  <2>2. CASE AcceptStep
    <3>1. CASE ConnectionArrives
      BY <1>0, <1>a, <3>1 DEF TypeOK, AcceptorLocals, ReadLocals, Assumed, ConnectionArrives
    <3>2. CASE ReadEvent
      BY <1>0, <1>a, <3>2 DEF TypeOK, AcceptorLocals, ReadLocals, Assumed, ReadEvent
    <3>3. CASE Accept
      BY <1>0, <1>a, <3>3 DEF TypeOK, AcceptorLocals, ReadLocals, Assumed, Accept
    <3>4. CASE TcpAccepted
      BY <1>0, <1>a, <3>4 DEF TypeOK, AcceptorLocals, ReadLocals, Assumed, TcpAccepted
    <3>5. CASE UseDestroyed
      BY <1>0, <1>a, <3>5 DEF TypeOK, AcceptorLocals, ReadLocals, Assumed, UseDestroyed
    <3>6. CASE StartAcceptTracker
      BY <1>0, <1>a, <3>6 DEF TypeOK, AcceptorLocals, ReadLocals, Assumed, StartAcceptTracker
    <3> QED BY <2>2, <3>1, <3>2, <3>3, <3>4, <3>5, <3>6 DEF AcceptStep
  <2> QED BY <2>1, <2>2 DEF AcceptorStep
<1>5. PollerOk'
  BY <1>0, <1>a DEF PollerOk
<1>6. HandshakersOk'
  <2>1. \/ UNCHANGED <<cur, rpc>>
        \/ \A h \in Handshakers :
              hs[h].start \notin {"flow", "timer", "tracker", "started", "fail"}
        \/ cur' = cur /\ rpc' \in {"starting", "undefined"}
    BY <1>0 DEF HandshakersOk, HandshakerOk, ReadLocals, Assumed,
         AcceptorStep, ControlStep, Start, OpenAcceptFlow, InstallAcceptTracker,
         Started, StartFails, Stop, CloseAcceptFlow, StopPost, ChannelEvent,
         AcceptStep, ConnectionArrives, ReadEvent, Accept,
         TcpAccepted, UseDestroyed, StartAcceptTracker
  <2>2. \A h \in Handshakers : Finishing(h)' <=> Finishing(h)
    BY <1>a DEF Finishing
  <2> QED BY <1>0, <1>a, <2>1, <2>2, HandshakerFrame DEF HandshakersOk
<1>7. TableOk'
  BY <1>0, <1>a DEF TypeOK, TableOk, Telling, ReadLocals, AcceptorLocals, HandshakersOk,
     HandshakerOk, NewHandshaker,
         AcceptorStep, ControlStep, Start, OpenAcceptFlow, InstallAcceptTracker,
         Started, StartFails, Stop, CloseAcceptFlow, StopPost, ChannelEvent,
         AcceptStep, ConnectionArrives, ReadEvent, Accept,
         TcpAccepted, UseDestroyed, StartAcceptTracker
<1> QED BY <1>1, <1>2, <1>3, <1>4, <1>5, <1>6, <1>7 DEF IInv, HandshakersOk

\* The acceptor's share of a handshaker's step: nothing.
AcceptorIdle ==
    UNCHANGED <<kind, state, spc, stoppc, open, tracker, waiting, arriving, cur, table, events,
                stopped, accepted>>

\* A step of one handshaker g, with the send poller in it or not, that leaves g
\* right leaves everything right.
LEMMA OneHandshaker ==
    ASSUME Assumed, IInv, AcceptorIdle, NEW g \in Handshakers,
           hs' \in [Handshakers -> HandshakerType],
           \A h \in Handshakers \ {g} : hs'[h] = hs[h],
           \/ UNCHANGED poller
           \/ /\ poller.obj \in {None, g} /\ poller.at # "accepted"
              /\ poller'.obj \in {None, g} /\ poller'.at # "accepted",
           PollerOk', HandshakerOk(g)',
           \/ rpc' = rpc /\ hs[g].start # "idle"
           \/ rpc = "init" /\ cur = g /\ rpc' = "starting",
           hs'[g].start # "idle", hs[g].start \in {"ok", "failed"} => hs'[g].start = hs[g].start,
           hs'[g].state \in {"starting", "started", "timeouting"} =>
               \/ hs[g].start = "idle"
               \/ hs[g].state \in {"starting", "started", "timeouting"}
                  /\ (hs[g].start \in {"fail", "failed"} => hs'[g].start \in {"fail", "failed"}),
           g \in table =>
               /\ hs'[g].state \notin {"stopping", "stopped"}
               /\ hs'[g].start = "ok" /\ hs'[g].state \in {"finished", "error", "timeouted"} =>
                      Telling(g)'
    PROVE  IInv'
<1> USE DEF AcceptorIdle
<1>0. /\ TypeOK /\ AcceptorLocals /\ ReadLocals /\ PollerOk /\ HandshakersOk /\ TableOk
      /\ ConnectionsMatch
  BY DEF IInv, HandshakersOk
<1>1. TypeOK'
  BY <1>0 DEF TypeOK
<1>2. AcceptorLocals'
  BY <1>0 DEF AcceptorLocals
<1>3. ReadLocals'
  <2>1. cur # None => cur \in Handshakers
    BY <1>0 DEF TypeOK
  <2>2. rpc' = "init" => cur # g
    BY <1>0 DEF ReadLocals, NewHandshaker
  <2> QED BY <1>0, <2>1, <2>2 DEF ReadLocals, TypeOK, Assumed
<1>4. HandshakersOk'
  <2>1. ASSUME NEW h \in Handshakers \ {g}
        PROVE  HandshakerOk(h)'
    <3>1. Finishing(h)' <=> Finishing(h)
      BY Assumed DEF Finishing, Assumed
    <3>2. \/ UNCHANGED <<cur, rpc>>
          \/ cur' = cur /\ rpc' \in {"starting", "undefined"}
      OBVIOUS
    <3> QED BY <1>0, <3>1, <3>2, HandshakerFrame DEF HandshakersOk
  <2> QED BY <2>1 DEF HandshakersOk
<1>5. TableOk'
  <2>1. state \notin {"none", "starting"}
    BY <1>0 DEF TableOk, ReadLocals, NewHandshaker
  <2>2. \A h \in Handshakers \ {g} : Telling(h)' <=> Telling(h)
    BY DEF Telling, Assumed
  <2>3. \A h \in table : h = cur \/ hs'[h].start = "ok"
    BY <1>0 DEF TableOk, TypeOK
  <2>4. ASSUME state = "started", NEW h \in Handshakers,
               hs'[h].state \in {"starting", "started", "timeouting"}
        PROVE  h \in table \/ hs'[h].start \in {"fail", "failed"}
    BY <1>0, <2>4 DEF TableOk, ReadLocals, HandshakersOk, HandshakerOk, NewHandshaker
  <2>5. ASSUME NEW h \in table
        PROVE  /\ hs'[h].state \notin {"stopping", "stopped"}
               /\ hs'[h].start = "ok" /\ hs'[h].state \in {"finished", "error", "timeouted"}
                     => Telling(h)'
    BY <1>0, <2>2 DEF TableOk, TypeOK
  <2> QED BY <2>1, <2>3, <2>4, <2>5 DEF TableOk
<1>6. ConnectionsMatch'
  <2>1. InProgress' = InProgress
    BY DEF InProgress, Assumed
  <2> QED BY <1>0, <2>1 DEF ConnectionsMatch
<1> QED BY <1>1, <1>2, <1>3, <1>4, <1>5, <1>6 DEF IInv, HandshakersOk

-----------------------------------------------------------------------------
(* start of a handshaker, in the read poller.                              *)

\* start begins.
LEMMA HsStartIInv ==
    ASSUME Assumed, IInv, AcceptorIdle, rpc = "init", rpc' = "starting", HsStart(cur)
    PROVE  IInv'
<1>0. /\ TypeOK /\ ReadLocals /\ PollerOk /\ HandshakersOk /\ TableOk
  BY DEF IInv, HandshakersOk
<1>1. cur \in Handshakers /\ hs[cur] = NewHandshaker /\ hs[cur] \in HandshakerType
  BY <1>0 DEF TypeOK, ReadLocals
<1>2. /\ hs' = [hs EXCEPT ![cur].state = "starting", ![cur].start = "flow"]
      /\ UNCHANGED poller
  BY DEF HsStart
<1>3. hs'[cur] = [hs[cur] EXCEPT !.state = "starting", !.start = "flow"]
  BY <1>0, <1>1, <1>2 DEF TypeOK
<1>4. hs'[cur] \in HandshakerType
  BY <1>1, <1>3 DEF HandshakerType
<1>5. hs' \in [Handshakers -> HandshakerType] /\ \A h \in Handshakers \ {cur} : hs'[h] = hs[h]
  BY <1>0, <1>1, <1>2, <1>4 DEF TypeOK
<1>6. PollerOk'
  BY <1>0, <1>1, <1>2, <1>5 DEF PollerOk, AcceptorIdle, NewHandshaker
<1>7. HandshakerOk(cur)'
  BY <1>0, <1>1, <1>3 DEF HandshakerOk, NewHandshaker, AcceptorIdle
<1> QED BY <1>1, <1>2, <1>3, <1>5, <1>6, <1>7, OneHandshaker DEF NewHandshaker

\* The fields of a handshaker.
LEMMA Fields ==
    ASSUME NEW r \in HandshakerType
    PROVE  /\ r.toPost \in 0 .. 2 /\ r.events \in 0 .. 2 /\ r.told \in 0 .. 2
           /\ r.state \in {"none", "starting", "started", "finished", "error", "timeouting",
                           "timeouted", "stopping", "stopped"}
           /\ r.start \in {"idle", "flow", "timer", "tracker", "started", "fail", "ok", "failed"}
           /\ r.timer \in {"none", "running", "off"}
           /\ r.tracker \in {"none", "armed", "idle", "gone"}
BY DEF HandshakerType

\* The timer worker.
LEMMA HsTimeoutIInv ==
    ASSUME Assumed, IInv, AcceptorIdle, NEW g \in Handshakers, UNCHANGED rpc, HsTimeout(g)
    PROVE  IInv'
<1>0. /\ TypeOK /\ ReadLocals /\ PollerOk /\ HandshakersOk /\ TableOk
  BY DEF IInv, HandshakersOk
<1>1. hs[g] \in HandshakerType /\ HandshakerOk(g)
  BY <1>0 DEF TypeOK, HandshakersOk
<1>2. /\ hs' = [hs EXCEPT ![g].timer = "off",
                          ![g].state = IF hs[g].state \in {"starting", "started"}
                          THEN "timeouting" ELSE hs[g].state,
                          ![g].toPost = IF hs[g].state \in {"starting", "started"}
                          THEN hs[g].toPost + 1 ELSE hs[g].toPost]
      /\ UNCHANGED poller
      /\ hs[g].timer = "running"
  BY <1>1 DEF HsTimeout
<1>n. hs[g].start # "idle"
  BY <1>1, <1>2 DEF HandshakerOk, NewHandshaker
<1>3. hs'[g] = [hs[g] EXCEPT !.timer = "off",
                             !.state = IF hs[g].state \in {"starting", "started"}
                             THEN "timeouting" ELSE hs[g].state,
                             !.toPost = IF hs[g].state \in {"starting", "started"}
                             THEN hs[g].toPost + 1 ELSE hs[g].toPost]
  BY <1>0, <1>1, <1>2 DEF TypeOK
<1>f. /\ hs'[g].state = IF hs[g].state \in {"starting", "started"} THEN "timeouting"
               ELSE hs[g].state
      /\ hs'[g].start = hs[g].start
      /\ hs'[g].timer = "off"
      /\ hs'[g].tracker = hs[g].tracker
      /\ hs'[g].toPost = IF hs[g].state \in {"starting", "started"} THEN hs[g].toPost + 1
               ELSE hs[g].toPost
      /\ hs'[g].events = hs[g].events
      /\ hs'[g].told = hs[g].told
  BY ONLY <1>1, <1>3 DEF HandshakerType
<1>t. hs[g].toPost + hs[g].events <= 1 /\ hs[g].toPost \in Nat /\ hs[g].events \in Nat
  BY <1>1, Fields DEF HandshakerOk
<1>s. hs[g].toPost + hs[g].events > 0 => hs[g].state \in {"timeouting", "stopping"}
  BY <1>1, <1>t DEF HandshakerOk
<1>4. hs'[g] \in HandshakerType
  <2>1. hs'[g].toPost \in 0 .. 2 /\ hs'[g].events \in 0 .. 2
    BY <1>1, <1>2, <1>f, <1>t
  <2> QED BY <1>1, <1>3, <1>f, <2>1 DEF HandshakerType
<1>5. hs' \in [Handshakers -> HandshakerType] /\ \A h \in Handshakers \ {g} : hs'[h] = hs[h]
  BY <1>0, <1>2, <1>4 DEF TypeOK
<1>7. HandshakerOk(g)'
  <2>1. Finishing(g) <=> poller.obj = g /\ poller.at \in {"finish", "assert_failed"}
    BY DEF Finishing
  <2> QED BY <1>0, <1>1, <1>2, <1>f, <1>n, <1>s, <1>t DEF HandshakerOk, AcceptorIdle, Finishing,
     PollerOk, PollerIdle
<1>6. PollerOk'
  BY <1>0, <1>1, <1>2, <1>f, <1>5, <1>7 DEF PollerOk, AcceptorIdle, HandshakerOk, Assumed,
     Finishing, PollerIdle
<1>8. g \in table =>
        /\ hs'[g].state \notin {"stopping", "stopped"}
        /\ hs'[g].start = "ok" /\ hs'[g].state \in {"finished", "error", "timeouted"} => Telling(g)'
  BY <1>0, <1>1, <1>2, <1>f DEF TableOk, Telling, HandshakerOk, PollerIdle
<1> QED BY <1>0, <1>1, <1>2, <1>n, <1>f, <1>5, <1>6, <1>7, <1>8, OneHandshaker DEF PollerIdle

\* The channel event is posted.
LEMMA HsPostIInv ==
    ASSUME Assumed, IInv, AcceptorIdle, NEW g \in Handshakers, UNCHANGED rpc, HsPost(g)
    PROVE  IInv'
<1>0. /\ TypeOK /\ ReadLocals /\ PollerOk /\ HandshakersOk /\ TableOk
  BY DEF IInv, HandshakersOk
<1>1. hs[g] \in HandshakerType /\ HandshakerOk(g)
  BY <1>0 DEF TypeOK, HandshakersOk
<1>2. /\ hs' = [hs EXCEPT ![g].toPost = hs[g].toPost - 1, ![g].events = hs[g].events + 1]
      /\ UNCHANGED poller
      /\ hs[g].toPost > 0
  BY <1>1 DEF HsPost, StartGoes
<1>n. hs[g].start # "idle"
  BY <1>1, <1>2 DEF HandshakerOk, NewHandshaker
<1>3. hs'[g] = [hs[g] EXCEPT !.toPost = hs[g].toPost - 1, !.events = hs[g].events + 1]
  BY <1>0, <1>1, <1>2 DEF TypeOK
<1>f. /\ hs'[g].state = hs[g].state
      /\ hs'[g].start = hs[g].start
      /\ hs'[g].timer = hs[g].timer
      /\ hs'[g].tracker = hs[g].tracker
      /\ hs'[g].toPost = hs[g].toPost - 1
      /\ hs'[g].events = hs[g].events + 1
      /\ hs'[g].told = hs[g].told
  BY ONLY <1>1, <1>3 DEF HandshakerType
<1>t. hs[g].toPost + hs[g].events <= 1 /\ hs[g].toPost \in Nat /\ hs[g].events \in Nat
  BY <1>1, Fields DEF HandshakerOk
<1>s. hs[g].toPost + hs[g].events > 0 => hs[g].state \in {"timeouting", "stopping"}
  BY <1>1, <1>t DEF HandshakerOk
<1>4. hs'[g] \in HandshakerType
  <2>1. hs'[g].toPost \in 0 .. 2 /\ hs'[g].events \in 0 .. 2
    BY <1>1, <1>2, <1>f, <1>t
  <2> QED BY <1>1, <1>3, <1>f, <2>1 DEF HandshakerType
<1>5. hs' \in [Handshakers -> HandshakerType] /\ \A h \in Handshakers \ {g} : hs'[h] = hs[h]
  BY <1>0, <1>2, <1>4 DEF TypeOK
<1>7. HandshakerOk(g)'
  <2>1. Finishing(g) <=> poller.obj = g /\ poller.at \in {"finish", "assert_failed"}
    BY DEF Finishing
  <2> QED BY <1>0, <1>1, <1>2, <1>f, <1>n, <1>s, <1>t DEF HandshakerOk, AcceptorIdle, Finishing,
     PollerOk, PollerIdle
<1>6. PollerOk'
  BY <1>0, <1>1, <1>2, <1>f, <1>5, <1>7 DEF PollerOk, AcceptorIdle, HandshakerOk, Assumed,
     Finishing, PollerIdle
<1>8. g \in table =>
        /\ hs'[g].state \notin {"stopping", "stopped"}
        /\ hs'[g].start = "ok" /\ hs'[g].state \in {"finished", "error", "timeouted"} => Telling(g)'
  BY <1>0, <1>1, <1>2, <1>f DEF TableOk, Telling, HandshakerOk, PollerIdle
<1> QED BY <1>0, <1>1, <1>2, <1>n, <1>f, <1>5, <1>6, <1>7, <1>8, OneHandshaker DEF PollerIdle

\* The descriptor is ready.
LEMMA HsIoEventIInv ==
    ASSUME Assumed, IInv, AcceptorIdle, NEW g \in Handshakers, UNCHANGED rpc, HsIoEvent(g)
    PROVE  IInv'
<1>0. /\ TypeOK /\ ReadLocals /\ PollerOk /\ HandshakersOk /\ TableOk
  BY DEF IInv, HandshakersOk
<1>1. hs[g] \in HandshakerType /\ HandshakerOk(g)
  BY <1>0 DEF TypeOK, HandshakersOk
<1>2. /\ hs' = [hs EXCEPT ![g].tracker = "idle"]
      /\ poller = PollerIdle /\ poller' = [obj |-> g, at |-> "process"]
      /\ hs[g].tracker = "armed"
  BY <1>1 DEF HsIoEvent, PollerAt
<1>n. hs[g].start # "idle"
  BY <1>1, <1>2 DEF HandshakerOk, NewHandshaker
<1>3. hs'[g] = [hs[g] EXCEPT !.tracker = "idle"]
  BY <1>0, <1>1, <1>2 DEF TypeOK
<1>f. /\ hs'[g].state = hs[g].state
      /\ hs'[g].start = hs[g].start
      /\ hs'[g].timer = hs[g].timer
      /\ hs'[g].tracker = "idle"
      /\ hs'[g].toPost = hs[g].toPost
      /\ hs'[g].events = hs[g].events
      /\ hs'[g].told = hs[g].told
  BY ONLY <1>1, <1>3 DEF HandshakerType
<1>t. hs[g].toPost + hs[g].events <= 1 /\ hs[g].toPost \in Nat /\ hs[g].events \in Nat
  BY <1>1, Fields DEF HandshakerOk
<1>s. hs[g].toPost + hs[g].events > 0 => hs[g].state \in {"timeouting", "stopping"}
  BY <1>1, <1>t DEF HandshakerOk
<1>4. hs'[g] \in HandshakerType
  <2>1. hs'[g].toPost \in 0 .. 2 /\ hs'[g].events \in 0 .. 2
    BY <1>1, <1>2, <1>f, <1>t
  <2> QED BY <1>1, <1>3, <1>f, <2>1 DEF HandshakerType
<1>5. hs' \in [Handshakers -> HandshakerType] /\ \A h \in Handshakers \ {g} : hs'[h] = hs[h]
  BY <1>0, <1>2, <1>4 DEF TypeOK
<1>7. HandshakerOk(g)'
  <2>1. Finishing(g) <=> poller.obj = g /\ poller.at \in {"finish", "assert_failed"}
    BY DEF Finishing
  <2> QED BY <1>0, <1>1, <1>2, <1>f, <1>n, <1>s, <1>t DEF HandshakerOk, AcceptorIdle, Finishing,
     PollerOk, PollerIdle
<1>6. PollerOk'
  BY <1>0, <1>1, <1>2, <1>f, <1>5, <1>7 DEF PollerOk, AcceptorIdle, HandshakerOk, Assumed,
     Finishing, PollerIdle
<1>8. g \in table =>
        /\ hs'[g].state \notin {"stopping", "stopped"}
        /\ hs'[g].start = "ok" /\ hs'[g].state \in {"finished", "error", "timeouted"} => Telling(g)'
  BY <1>0, <1>1, <1>2, <1>f DEF TableOk, Telling, HandshakerOk, PollerIdle
<1> QED BY <1>0, <1>1, <1>2, <1>n, <1>f, <1>5, <1>6, <1>7, <1>8, OneHandshaker DEF PollerIdle

\* The channel event is handled.
LEMMA HsChannelEventIInv ==
    ASSUME Assumed, IInv, AcceptorIdle, NEW g \in Handshakers, UNCHANGED rpc, HsChannelEvent(g)
    PROVE  IInv'
<1>0. /\ TypeOK /\ ReadLocals /\ PollerOk /\ HandshakersOk /\ TableOk
  BY DEF IInv, HandshakersOk
<1>1. hs[g] \in HandshakerType /\ HandshakerOk(g)
  BY <1>0 DEF TypeOK, HandshakersOk
<1>2. /\ hs' = [hs EXCEPT ![g].events = hs[g].events - 1]
      /\ poller = PollerIdle /\ poller' = [obj |-> g, at |-> "finish"]
      /\ hs[g].events > 0
  BY <1>1 DEF HsChannelEvent, PollerAt
<1>n. hs[g].start # "idle"
  BY <1>1, <1>2 DEF HandshakerOk, NewHandshaker
<1>3. hs'[g] = [hs[g] EXCEPT !.events = hs[g].events - 1]
  BY <1>0, <1>1, <1>2 DEF TypeOK
<1>f. /\ hs'[g].state = hs[g].state
      /\ hs'[g].start = hs[g].start
      /\ hs'[g].timer = hs[g].timer
      /\ hs'[g].tracker = hs[g].tracker
      /\ hs'[g].toPost = hs[g].toPost
      /\ hs'[g].events = hs[g].events - 1
      /\ hs'[g].told = hs[g].told
  BY ONLY <1>1, <1>3 DEF HandshakerType
<1>t. hs[g].toPost + hs[g].events <= 1 /\ hs[g].toPost \in Nat /\ hs[g].events \in Nat
  BY <1>1, Fields DEF HandshakerOk
<1>s. hs[g].toPost + hs[g].events > 0 => hs[g].state \in {"timeouting", "stopping"}
  BY <1>1, <1>t DEF HandshakerOk
<1>4. hs'[g] \in HandshakerType
  <2>1. hs'[g].toPost \in 0 .. 2 /\ hs'[g].events \in 0 .. 2
    BY <1>1, <1>2, <1>f, <1>t
  <2> QED BY <1>1, <1>3, <1>f, <2>1 DEF HandshakerType
<1>5. hs' \in [Handshakers -> HandshakerType] /\ \A h \in Handshakers \ {g} : hs'[h] = hs[h]
  BY <1>0, <1>2, <1>4 DEF TypeOK
<1>7. HandshakerOk(g)'
  <2>1. Finishing(g) <=> poller.obj = g /\ poller.at \in {"finish", "assert_failed"}
    BY DEF Finishing
  <2> QED BY <1>0, <1>1, <1>2, <1>f, <1>n, <1>s, <1>t DEF HandshakerOk, AcceptorIdle, Finishing,
     PollerOk, PollerIdle
<1>6. PollerOk'
  BY <1>0, <1>1, <1>2, <1>f, <1>5, <1>7 DEF PollerOk, AcceptorIdle, HandshakerOk, Assumed,
     Finishing, PollerIdle
<1>8. g \in table =>
        /\ hs'[g].state \notin {"stopping", "stopped"}
        /\ hs'[g].start = "ok" /\ hs'[g].state \in {"finished", "error", "timeouted"} => Telling(g)'
  BY <1>0, <1>1, <1>2, <1>f DEF TableOk, Telling, HandshakerOk, PollerIdle
<1> QED BY <1>0, <1>1, <1>2, <1>n, <1>f, <1>5, <1>6, <1>7, <1>8, OneHandshaker DEF PollerIdle

\* A round of the handshake that waits for more.
LEMMA HsRoundWaitsIInv ==
    ASSUME Assumed, IInv, AcceptorIdle, NEW g \in Handshakers, UNCHANGED rpc, HsRoundWaits(g)
    PROVE  IInv'
<1>0. /\ TypeOK /\ ReadLocals /\ PollerOk /\ HandshakersOk /\ TableOk
  BY DEF IInv, HandshakersOk
<1>1. hs[g] \in HandshakerType /\ HandshakerOk(g)
  BY <1>0 DEF TypeOK, HandshakersOk
<1>2. /\ hs' = [hs EXCEPT ![g].tracker = "armed"]
      /\ poller = [obj |-> g, at |-> "process"] /\ poller' = PollerIdle
      /\ hs[g].tracker # "none"
  BY <1>0, <1>1 DEF PollerOk, Assumed, HsRoundWaits, PollerAt
<1>n. hs[g].start # "idle"
  BY <1>1, <1>2 DEF HandshakerOk, NewHandshaker
<1>3. hs'[g] = [hs[g] EXCEPT !.tracker = "armed"]
  BY <1>0, <1>1, <1>2 DEF TypeOK
<1>f. /\ hs'[g].state = hs[g].state
      /\ hs'[g].start = hs[g].start
      /\ hs'[g].timer = hs[g].timer
      /\ hs'[g].tracker = "armed"
      /\ hs'[g].toPost = hs[g].toPost
      /\ hs'[g].events = hs[g].events
      /\ hs'[g].told = hs[g].told
  BY ONLY <1>1, <1>3 DEF HandshakerType
<1>t. hs[g].toPost + hs[g].events <= 1 /\ hs[g].toPost \in Nat /\ hs[g].events \in Nat
  BY <1>1, Fields DEF HandshakerOk
<1>s. hs[g].toPost + hs[g].events > 0 => hs[g].state \in {"timeouting", "stopping"}
  BY <1>1, <1>t DEF HandshakerOk
<1>4. hs'[g] \in HandshakerType
  <2>1. hs'[g].toPost \in 0 .. 2 /\ hs'[g].events \in 0 .. 2
    BY <1>1, <1>2, <1>f, <1>t
  <2> QED BY <1>1, <1>3, <1>f, <2>1 DEF HandshakerType
<1>5. hs' \in [Handshakers -> HandshakerType] /\ \A h \in Handshakers \ {g} : hs'[h] = hs[h]
  BY <1>0, <1>2, <1>4 DEF TypeOK
<1>7. HandshakerOk(g)'
  <2>1. Finishing(g) <=> poller.obj = g /\ poller.at \in {"finish", "assert_failed"}
    BY DEF Finishing
  <2> QED BY <1>0, <1>1, <1>2, <1>f, <1>n, <1>s, <1>t DEF HandshakerOk, AcceptorIdle, Finishing,
     PollerOk, PollerIdle
<1>6. PollerOk'
  BY <1>0, <1>1, <1>2, <1>f, <1>5, <1>7 DEF PollerOk, AcceptorIdle, HandshakerOk, Assumed,
     Finishing, PollerIdle
<1>8. g \in table =>
        /\ hs'[g].state \notin {"stopping", "stopped"}
        /\ hs'[g].start = "ok" /\ hs'[g].state \in {"finished", "error", "timeouted"} => Telling(g)'
  BY <1>0, <1>1, <1>2, <1>f DEF TableOk, Telling, HandshakerOk, PollerIdle
<1> QED BY <1>0, <1>1, <1>2, <1>n, <1>f, <1>5, <1>6, <1>7, <1>8, OneHandshaker DEF PollerIdle

-----------------------------------------------------------------------------
(* The rest of a handshaker's start.                                        *)

\* A step of start that goes on, or fails.
LEMMA HsGoesIInv ==
    ASSUME Assumed, IInv, AcceptorIdle, NEW g \in Handshakers, UNCHANGED rpc, cur = g,
             rpc = "starting",
           NEW l \in {"timer", "fail"}, hs' = [hs EXCEPT ![g].start = l], UNCHANGED poller,
           \/ hs[g].start = "flow"
           \/ hs[g].start \in {"timer", "tracker"} /\ l = "fail"
           \/ hs[g].start = "started" /\ l = "fail" /\ hs[g].state # "starting"
    PROVE  IInv'
<1>0. /\ TypeOK /\ ReadLocals /\ PollerOk /\ HandshakersOk /\ TableOk
  BY DEF IInv, HandshakersOk
<1>1. hs[g] \in HandshakerType /\ HandshakerOk(g)
  BY <1>0 DEF TypeOK, HandshakersOk
<1>2. /\ hs' = [hs EXCEPT ![g].start = l]
      /\ UNCHANGED poller
  OBVIOUS
<1>n. hs[g].start # "idle"
  BY <1>1, <1>2 DEF HandshakerOk, NewHandshaker
<1>3. hs'[g] = [hs[g] EXCEPT !.start = l]
  BY <1>0, <1>1, <1>2 DEF TypeOK
<1>f. /\ hs'[g].state = hs[g].state
      /\ hs'[g].start = l
      /\ hs'[g].timer = hs[g].timer
      /\ hs'[g].tracker = hs[g].tracker
      /\ hs'[g].toPost = hs[g].toPost
      /\ hs'[g].events = hs[g].events
      /\ hs'[g].told = hs[g].told
  BY ONLY <1>1, <1>3 DEF HandshakerType
<1>t. hs[g].toPost + hs[g].events <= 1 /\ hs[g].toPost \in Nat /\ hs[g].events \in Nat
  BY <1>1, Fields DEF HandshakerOk
<1>s. hs[g].toPost + hs[g].events > 0 => hs[g].state \in {"timeouting", "stopping"}
  BY <1>1, <1>t DEF HandshakerOk
<1>4. hs'[g] \in HandshakerType
  <2>1. hs'[g].toPost \in 0 .. 2 /\ hs'[g].events \in 0 .. 2
    BY <1>1, <1>2, <1>f, <1>t
  <2> QED BY <1>1, <1>3, <1>f, <2>1 DEF HandshakerType
<1>5. hs' \in [Handshakers -> HandshakerType] /\ \A h \in Handshakers \ {g} : hs'[h] = hs[h]
  BY <1>0, <1>2, <1>4 DEF TypeOK
<1>7. HandshakerOk(g)'
  <2>1. Finishing(g) <=> poller.obj = g /\ poller.at \in {"finish", "assert_failed"}
    BY DEF Finishing
  <2> QED BY <1>0, <1>1, <1>2, <1>f, <1>n, <1>s, <1>t DEF HandshakerOk, AcceptorIdle, Finishing,
     PollerOk, PollerIdle
<1>6. PollerOk'
  BY <1>0, <1>1, <1>2, <1>f, <1>5, <1>7 DEF PollerOk, AcceptorIdle, HandshakerOk, Assumed,
     Finishing, PollerIdle
<1>8. g \in table =>
        /\ hs'[g].state \notin {"stopping", "stopped"}
        /\ hs'[g].start = "ok" /\ hs'[g].state \in {"finished", "error", "timeouted"} => Telling(g)'
  BY <1>0, <1>1, <1>2, <1>f DEF TableOk, Telling, HandshakerOk, PollerIdle
<1> QED BY <1>0, <1>1, <1>2, <1>n, <1>f, <1>5, <1>6, <1>7, <1>8, OneHandshaker DEF PollerIdle

\* The timer is started.
LEMMA HsTimerStartedIInv ==
    ASSUME Assumed, IInv, AcceptorIdle, NEW g \in Handshakers, UNCHANGED rpc, cur = g,
             rpc = "starting",
           NEW i \in {"running", "none"}, hs[g].start = "timer", UNCHANGED poller,
           hs' = [hs EXCEPT ![g].start = "tracker", ![g].timer = i]
    PROVE  IInv'
<1>0. /\ TypeOK /\ ReadLocals /\ PollerOk /\ HandshakersOk /\ TableOk
  BY DEF IInv, HandshakersOk
<1>1. hs[g] \in HandshakerType /\ HandshakerOk(g)
  BY <1>0 DEF TypeOK, HandshakersOk
<1>2. /\ hs' = [hs EXCEPT ![g].start = "tracker", ![g].timer = i]
      /\ UNCHANGED poller
  OBVIOUS
<1>n. hs[g].start # "idle"
  BY <1>1, <1>2 DEF HandshakerOk, NewHandshaker
<1>3. hs'[g] = [hs[g] EXCEPT !.start = "tracker", !.timer = i]
  BY <1>0, <1>1, <1>2 DEF TypeOK
<1>f. /\ hs'[g].state = hs[g].state
      /\ hs'[g].start = "tracker"
      /\ hs'[g].timer = i
      /\ hs'[g].tracker = hs[g].tracker
      /\ hs'[g].toPost = hs[g].toPost
      /\ hs'[g].events = hs[g].events
      /\ hs'[g].told = hs[g].told
  BY ONLY <1>1, <1>3 DEF HandshakerType
<1>t. hs[g].toPost + hs[g].events <= 1 /\ hs[g].toPost \in Nat /\ hs[g].events \in Nat
  BY <1>1, Fields DEF HandshakerOk
<1>s. hs[g].toPost + hs[g].events > 0 => hs[g].state \in {"timeouting", "stopping"}
  BY <1>1, <1>t DEF HandshakerOk
<1>4. hs'[g] \in HandshakerType
  <2>1. hs'[g].toPost \in 0 .. 2 /\ hs'[g].events \in 0 .. 2
    BY <1>1, <1>2, <1>f, <1>t
  <2> QED BY <1>1, <1>3, <1>f, <2>1 DEF HandshakerType
<1>5. hs' \in [Handshakers -> HandshakerType] /\ \A h \in Handshakers \ {g} : hs'[h] = hs[h]
  BY <1>0, <1>2, <1>4 DEF TypeOK
<1>7. HandshakerOk(g)'
  <2>1. Finishing(g) <=> poller.obj = g /\ poller.at \in {"finish", "assert_failed"}
    BY DEF Finishing
  <2> QED BY <1>0, <1>1, <1>2, <1>f, <1>n, <1>s, <1>t DEF HandshakerOk, AcceptorIdle, Finishing,
     PollerOk, PollerIdle
<1>6. PollerOk'
  BY <1>0, <1>1, <1>2, <1>f, <1>5, <1>7 DEF PollerOk, AcceptorIdle, HandshakerOk, Assumed,
     Finishing, PollerIdle
<1>8. g \in table =>
        /\ hs'[g].state \notin {"stopping", "stopped"}
        /\ hs'[g].start = "ok" /\ hs'[g].state \in {"finished", "error", "timeouted"} => Telling(g)'
  BY <1>0, <1>1, <1>2, <1>f DEF TableOk, Telling, HandshakerOk, PollerIdle
<1> QED BY <1>0, <1>1, <1>2, <1>n, <1>f, <1>5, <1>6, <1>7, <1>8, OneHandshaker DEF PollerIdle

\* The tracker is installed.
LEMMA HsInstalledIInv ==
    ASSUME Assumed, IInv, AcceptorIdle, NEW g \in Handshakers, UNCHANGED rpc, cur = g,
             rpc = "starting",
           hs[g].start = "tracker", UNCHANGED poller,
           hs' = [hs EXCEPT ![g].start = "started", ![g].tracker = "armed"]
    PROVE  IInv'
<1>0. /\ TypeOK /\ ReadLocals /\ PollerOk /\ HandshakersOk /\ TableOk
  BY DEF IInv, HandshakersOk
<1>1. hs[g] \in HandshakerType /\ HandshakerOk(g)
  BY <1>0 DEF TypeOK, HandshakersOk
<1>2. /\ hs' = [hs EXCEPT ![g].start = "started", ![g].tracker = "armed"]
      /\ UNCHANGED poller
  OBVIOUS
<1>n. hs[g].start # "idle"
  BY <1>1, <1>2 DEF HandshakerOk, NewHandshaker
<1>3. hs'[g] = [hs[g] EXCEPT !.start = "started", !.tracker = "armed"]
  BY <1>0, <1>1, <1>2 DEF TypeOK
<1>f. /\ hs'[g].state = hs[g].state
      /\ hs'[g].start = "started"
      /\ hs'[g].timer = hs[g].timer
      /\ hs'[g].tracker = "armed"
      /\ hs'[g].toPost = hs[g].toPost
      /\ hs'[g].events = hs[g].events
      /\ hs'[g].told = hs[g].told
  BY ONLY <1>1, <1>3 DEF HandshakerType
<1>t. hs[g].toPost + hs[g].events <= 1 /\ hs[g].toPost \in Nat /\ hs[g].events \in Nat
  BY <1>1, Fields DEF HandshakerOk
<1>s. hs[g].toPost + hs[g].events > 0 => hs[g].state \in {"timeouting", "stopping"}
  BY <1>1, <1>t DEF HandshakerOk
<1>4. hs'[g] \in HandshakerType
  <2>1. hs'[g].toPost \in 0 .. 2 /\ hs'[g].events \in 0 .. 2
    BY <1>1, <1>2, <1>f, <1>t
  <2> QED BY <1>1, <1>3, <1>f, <2>1 DEF HandshakerType
<1>5. hs' \in [Handshakers -> HandshakerType] /\ \A h \in Handshakers \ {g} : hs'[h] = hs[h]
  BY <1>0, <1>2, <1>4 DEF TypeOK
<1>7. HandshakerOk(g)'
  <2>1. Finishing(g) <=> poller.obj = g /\ poller.at \in {"finish", "assert_failed"}
    BY DEF Finishing
  <2> QED BY <1>0, <1>1, <1>2, <1>f, <1>n, <1>s, <1>t DEF HandshakerOk, AcceptorIdle, Finishing,
     PollerOk, PollerIdle
<1>6. PollerOk'
  BY <1>0, <1>1, <1>2, <1>f, <1>5, <1>7 DEF PollerOk, AcceptorIdle, HandshakerOk, Assumed,
     Finishing, PollerIdle
<1>8. g \in table =>
        /\ hs'[g].state \notin {"stopping", "stopped"}
        /\ hs'[g].start = "ok" /\ hs'[g].state \in {"finished", "error", "timeouted"} => Telling(g)'
  BY <1>0, <1>1, <1>2, <1>f DEF TableOk, Telling, HandshakerOk, PollerIdle
<1> QED BY <1>0, <1>1, <1>2, <1>n, <1>f, <1>5, <1>6, <1>7, <1>8, OneHandshaker DEF PollerIdle

\* start succeeds.
LEMMA HsStartOkIInv ==
    ASSUME Assumed, IInv, AcceptorIdle, NEW g \in Handshakers, UNCHANGED rpc, cur = g,
             rpc = "starting",
           hs[g].start = "started", hs[g].state = "starting", UNCHANGED poller,
           hs' = [hs EXCEPT ![g].state = "started", ![g].start = "ok"]
    PROVE  IInv'
<1>0. /\ TypeOK /\ ReadLocals /\ PollerOk /\ HandshakersOk /\ TableOk
  BY DEF IInv, HandshakersOk
<1>1. hs[g] \in HandshakerType /\ HandshakerOk(g)
  BY <1>0 DEF TypeOK, HandshakersOk
<1>2. /\ hs' = [hs EXCEPT ![g].state = "started", ![g].start = "ok"]
      /\ UNCHANGED poller
  OBVIOUS
<1>n. hs[g].start # "idle"
  BY <1>1, <1>2 DEF HandshakerOk, NewHandshaker
<1>3. hs'[g] = [hs[g] EXCEPT !.state = "started", !.start = "ok"]
  BY <1>0, <1>1, <1>2 DEF TypeOK
<1>f. /\ hs'[g].state = "started"
      /\ hs'[g].start = "ok"
      /\ hs'[g].timer = hs[g].timer
      /\ hs'[g].tracker = hs[g].tracker
      /\ hs'[g].toPost = hs[g].toPost
      /\ hs'[g].events = hs[g].events
      /\ hs'[g].told = hs[g].told
  BY ONLY <1>1, <1>3 DEF HandshakerType
<1>t. hs[g].toPost + hs[g].events <= 1 /\ hs[g].toPost \in Nat /\ hs[g].events \in Nat
  BY <1>1, Fields DEF HandshakerOk
<1>s. hs[g].toPost + hs[g].events > 0 => hs[g].state \in {"timeouting", "stopping"}
  BY <1>1, <1>t DEF HandshakerOk
<1>4. hs'[g] \in HandshakerType
  <2>1. hs'[g].toPost \in 0 .. 2 /\ hs'[g].events \in 0 .. 2
    BY <1>1, <1>2, <1>f, <1>t
  <2> QED BY <1>1, <1>3, <1>f, <2>1 DEF HandshakerType
<1>5. hs' \in [Handshakers -> HandshakerType] /\ \A h \in Handshakers \ {g} : hs'[h] = hs[h]
  BY <1>0, <1>2, <1>4 DEF TypeOK
<1>7. HandshakerOk(g)'
  <2>1. Finishing(g) <=> poller.obj = g /\ poller.at \in {"finish", "assert_failed"}
    BY DEF Finishing
  <2> QED BY <1>0, <1>1, <1>2, <1>f, <1>n, <1>s, <1>t DEF HandshakerOk, AcceptorIdle, Finishing,
     PollerOk, PollerIdle
<1>6. PollerOk'
  BY <1>0, <1>1, <1>2, <1>f, <1>5, <1>7 DEF PollerOk, AcceptorIdle, HandshakerOk, Assumed,
     Finishing, PollerIdle
<1>8. g \in table =>
        /\ hs'[g].state \notin {"stopping", "stopped"}
        /\ hs'[g].start = "ok" /\ hs'[g].state \in {"finished", "error", "timeouted"} => Telling(g)'
  BY <1>0, <1>1, <1>2, <1>f DEF TableOk, Telling, HandshakerOk, PollerIdle
<1> QED BY <1>0, <1>1, <1>2, <1>n, <1>f, <1>5, <1>6, <1>7, <1>8, OneHandshaker DEF PollerIdle

\* start fails.
LEMMA HsStartFailsIInv ==
    ASSUME Assumed, IInv, AcceptorIdle, NEW g \in Handshakers, UNCHANGED rpc, cur = g,
             rpc = "starting", HsStartFails(g)
    PROVE  IInv'
<1>0. /\ TypeOK /\ ReadLocals /\ PollerOk /\ HandshakersOk /\ TableOk
  BY DEF IInv, HandshakersOk
<1>1. hs[g] \in HandshakerType /\ HandshakerOk(g)
  BY <1>0 DEF TypeOK, HandshakersOk
<1>2. /\ hs' = [hs EXCEPT ![g].start = "failed", ![g].state = IF hs[g].state = "starting"
                          THEN "error" ELSE hs[g].state, ![g].timer = IF hs[g].timer = "none"
                          THEN hs[g].timer ELSE "off"]
      /\ UNCHANGED poller
      /\ hs[g].start = "fail"
  BY <1>1 DEF HsStartFails, StartGoes
<1>n. hs[g].start # "idle"
  BY <1>1, <1>2 DEF HandshakerOk, NewHandshaker
<1>3. hs'[g] = [hs[g] EXCEPT !.start = "failed", !.state = IF hs[g].state = "starting"
                             THEN "error" ELSE hs[g].state, !.timer = IF hs[g].timer = "none"
                             THEN hs[g].timer ELSE "off"]
  BY <1>0, <1>1, <1>2 DEF TypeOK
<1>f. /\ hs'[g].state = IF hs[g].state = "starting" THEN "error" ELSE hs[g].state
      /\ hs'[g].start = "failed"
      /\ hs'[g].timer = IF hs[g].timer = "none" THEN hs[g].timer ELSE "off"
      /\ hs'[g].tracker = hs[g].tracker
      /\ hs'[g].toPost = hs[g].toPost
      /\ hs'[g].events = hs[g].events
      /\ hs'[g].told = hs[g].told
  BY ONLY <1>1, <1>3 DEF HandshakerType
<1>t. hs[g].toPost + hs[g].events <= 1 /\ hs[g].toPost \in Nat /\ hs[g].events \in Nat
  BY <1>1, Fields DEF HandshakerOk
<1>s. hs[g].toPost + hs[g].events > 0 => hs[g].state \in {"timeouting", "stopping"}
  BY <1>1, <1>t DEF HandshakerOk
<1>4. hs'[g] \in HandshakerType
  <2>1. hs'[g].toPost \in 0 .. 2 /\ hs'[g].events \in 0 .. 2
    BY <1>1, <1>2, <1>f, <1>t
  <2> QED BY <1>1, <1>3, <1>f, <2>1 DEF HandshakerType
<1>5. hs' \in [Handshakers -> HandshakerType] /\ \A h \in Handshakers \ {g} : hs'[h] = hs[h]
  BY <1>0, <1>2, <1>4 DEF TypeOK
<1>7. HandshakerOk(g)'
  <2>1. Finishing(g) <=> poller.obj = g /\ poller.at \in {"finish", "assert_failed"}
    BY DEF Finishing
  <2> QED BY <1>0, <1>1, <1>2, <1>f, <1>n, <1>s, <1>t DEF HandshakerOk, AcceptorIdle, Finishing,
     PollerOk, PollerIdle
<1>6. PollerOk'
  BY <1>0, <1>1, <1>2, <1>f, <1>5, <1>7 DEF PollerOk, AcceptorIdle, HandshakerOk, Assumed,
     Finishing, PollerIdle
<1>8. g \in table =>
        /\ hs'[g].state \notin {"stopping", "stopped"}
        /\ hs'[g].start = "ok" /\ hs'[g].state \in {"finished", "error", "timeouted"} => Telling(g)'
  BY <1>0, <1>1, <1>2, <1>f DEF TableOk, Telling, HandshakerOk, PollerIdle
<1> QED BY <1>0, <1>1, <1>2, <1>n, <1>f, <1>5, <1>6, <1>7, <1>8, OneHandshaker DEF PollerIdle

\* start, in the read poller.
LEMMA HsStartingIInv ==
    ASSUME Assumed, IInv, AcceptorIdle, UNCHANGED rpc, rpc = "starting", HsStarting(cur)
    PROVE  IInv'
<1>0. cur \in Handshakers
  BY DEF IInv, TypeOK, ReadLocals
<1>1. CASE HsFirstRound(cur)
  BY <1>0, <1>1, HsGoesIInv DEF HsFirstRound, StartGoes
<1>2. CASE HsStartTimer(cur)
  BY <1>0, <1>2, HsGoesIInv, HsTimerStartedIInv DEF HsStartTimer, StartGoes
<1>3. CASE HsInstallTracker(cur)
  BY <1>0, <1>3, HsGoesIInv, HsInstalledIInv DEF HsInstallTracker, StartGoes
<1>4. CASE HsStarted(cur)
  BY <1>0, <1>4, HsGoesIInv, HsStartOkIInv DEF HsStarted, StartGoes
<1>5. CASE HsStartFails(cur)
  BY <1>0, <1>5, HsStartFailsIInv
<1> QED BY <1>1, <1>2, <1>3, <1>4, <1>5 DEF HsStarting

-----------------------------------------------------------------------------
(* The end of a handshake, in the send poller.                             *)

\* The round ends the handshake.
LEMMA HsRoundOverIInv ==
    ASSUME Assumed, IInv, AcceptorIdle, NEW g \in Handshakers, UNCHANGED rpc,
           NEW s \in {"finished", "error"}, hs[g].state = "started",
           poller = [obj |-> g, at |-> "process"], poller' = [obj |-> g, at |-> "finish"],
           hs' = [hs EXCEPT ![g].state = s]
    PROVE  IInv'
<1>0. /\ TypeOK /\ ReadLocals /\ PollerOk /\ HandshakersOk /\ TableOk
  BY DEF IInv, HandshakersOk
<1>1. hs[g] \in HandshakerType /\ HandshakerOk(g)
  BY <1>0 DEF TypeOK, HandshakersOk
<1>2. /\ hs' = [hs EXCEPT ![g].state = s]
      /\ poller = [obj |-> g, at |-> "process"] /\ poller' = [obj |-> g, at |-> "finish"]
  OBVIOUS
<1>n. hs[g].start # "idle"
  BY <1>1, <1>2 DEF HandshakerOk, NewHandshaker
<1>3. hs'[g] = [hs[g] EXCEPT !.state = s]
  BY <1>0, <1>1, <1>2 DEF TypeOK
<1>f. /\ hs'[g].state = s
      /\ hs'[g].start = hs[g].start
      /\ hs'[g].timer = hs[g].timer
      /\ hs'[g].tracker = hs[g].tracker
      /\ hs'[g].toPost = hs[g].toPost
      /\ hs'[g].events = hs[g].events
      /\ hs'[g].told = hs[g].told
  BY ONLY <1>1, <1>3 DEF HandshakerType
<1>t. hs[g].toPost + hs[g].events <= 1 /\ hs[g].toPost \in Nat /\ hs[g].events \in Nat
  BY <1>1, Fields DEF HandshakerOk
<1>s. hs[g].toPost + hs[g].events > 0 => hs[g].state \in {"timeouting", "stopping"}
  BY <1>1, <1>t DEF HandshakerOk
<1>4. hs'[g] \in HandshakerType
  <2>1. hs'[g].toPost \in 0 .. 2 /\ hs'[g].events \in 0 .. 2
    BY <1>1, <1>2, <1>f, <1>t
  <2> QED BY <1>1, <1>3, <1>f, <2>1 DEF HandshakerType
<1>5. hs' \in [Handshakers -> HandshakerType] /\ \A h \in Handshakers \ {g} : hs'[h] = hs[h]
  BY <1>0, <1>2, <1>4 DEF TypeOK
<1>7. HandshakerOk(g)'
  <2>1. Finishing(g) <=> poller.obj = g /\ poller.at \in {"finish", "assert_failed"}
    BY DEF Finishing
  <2> QED BY <1>0, <1>1, <1>2, <1>f, <1>n, <1>s, <1>t DEF HandshakerOk, AcceptorIdle, Finishing,
     PollerOk, PollerIdle
<1>6. PollerOk'
  BY <1>0, <1>1, <1>2, <1>f, <1>5, <1>7 DEF PollerOk, AcceptorIdle, HandshakerOk, Assumed,
     Finishing, PollerIdle
<1>8. g \in table =>
        /\ hs'[g].state \notin {"stopping", "stopped"}
        /\ hs'[g].start = "ok" /\ hs'[g].state \in {"finished", "error", "timeouted"} => Telling(g)'
  BY <1>0, <1>1, <1>2, <1>f DEF TableOk, Telling, HandshakerOk, PollerIdle
<1> QED BY <1>0, <1>1, <1>2, <1>n, <1>f, <1>5, <1>6, <1>7, <1>8, OneHandshaker DEF PollerIdle

\* The handshake ended before.
LEMMA HsRoundLateIInv ==
    ASSUME Assumed, IInv, AcceptorIdle, NEW g \in Handshakers, UNCHANGED rpc,
           poller = [obj |-> g, at |-> "process"], poller' = PollerIdle, UNCHANGED hs,
           hs[g].state # "starting"
    PROVE  IInv'
<1>0. /\ TypeOK /\ ReadLocals /\ PollerOk /\ HandshakersOk /\ TableOk
  BY DEF IInv, HandshakersOk
<1>1. hs[g] \in HandshakerType /\ HandshakerOk(g)
  BY <1>0 DEF TypeOK, HandshakersOk
<1>2. /\ hs' = [hs EXCEPT ![g].start = hs[g].start]
      /\ poller = [obj |-> g, at |-> "process"] /\ poller' = PollerIdle
      /\ hs[g].tracker # "none"
  <2>1. [hs EXCEPT ![g].start = hs[g].start] = hs
    BY <1>0, <1>1 DEF TypeOK, HandshakerType
  <2> QED BY <1>0, <1>1, <2>1 DEF PollerOk, Assumed
<1>n. hs[g].start # "idle"
  BY <1>1, <1>2 DEF HandshakerOk, NewHandshaker
<1>3. hs'[g] = [hs[g] EXCEPT !.start = hs[g].start]
  BY <1>0, <1>1, <1>2 DEF TypeOK
<1>f. /\ hs'[g].state = hs[g].state
      /\ hs'[g].start = hs[g].start
      /\ hs'[g].timer = hs[g].timer
      /\ hs'[g].tracker = hs[g].tracker
      /\ hs'[g].toPost = hs[g].toPost
      /\ hs'[g].events = hs[g].events
      /\ hs'[g].told = hs[g].told
  BY ONLY <1>1, <1>3 DEF HandshakerType
<1>t. hs[g].toPost + hs[g].events <= 1 /\ hs[g].toPost \in Nat /\ hs[g].events \in Nat
  BY <1>1, Fields DEF HandshakerOk
<1>s. hs[g].toPost + hs[g].events > 0 => hs[g].state \in {"timeouting", "stopping"}
  BY <1>1, <1>t DEF HandshakerOk
<1>4. hs'[g] \in HandshakerType
  <2>1. hs'[g].toPost \in 0 .. 2 /\ hs'[g].events \in 0 .. 2
    BY <1>1, <1>2, <1>f, <1>t
  <2> QED BY <1>1, <1>3, <1>f, <2>1 DEF HandshakerType
<1>5. hs' \in [Handshakers -> HandshakerType] /\ \A h \in Handshakers \ {g} : hs'[h] = hs[h]
  BY <1>0, <1>2, <1>4 DEF TypeOK
<1>7. HandshakerOk(g)'
  <2>1. Finishing(g) <=> poller.obj = g /\ poller.at \in {"finish", "assert_failed"}
    BY DEF Finishing
  <2> QED BY <1>0, <1>1, <1>2, <1>f, <1>n, <1>s, <1>t DEF HandshakerOk, AcceptorIdle, Finishing,
     PollerOk, PollerIdle
<1>6. PollerOk'
  BY <1>0, <1>1, <1>2, <1>f, <1>5, <1>7 DEF PollerOk, AcceptorIdle, HandshakerOk, Assumed,
     Finishing, PollerIdle
<1>8. g \in table =>
        /\ hs'[g].state \notin {"stopping", "stopped"}
        /\ hs'[g].start = "ok" /\ hs'[g].state \in {"finished", "error", "timeouted"} => Telling(g)'
  BY <1>0, <1>1, <1>2, <1>f DEF TableOk, Telling, HandshakerOk, PollerIdle
<1> QED BY <1>0, <1>1, <1>2, <1>n, <1>f, <1>5, <1>6, <1>7, <1>8, OneHandshaker DEF PollerIdle

\* __handshake_finished: the owner is told, once.
LEMMA HsFinishIInv ==
    ASSUME Assumed, IInv, AcceptorIdle, NEW g \in Handshakers, UNCHANGED rpc, HsFinish(g),
           hs[g].tracker # "none"
    PROVE  IInv'
<1>0. /\ TypeOK /\ ReadLocals /\ PollerOk /\ HandshakersOk /\ TableOk
  BY DEF IInv, HandshakersOk
<1>1. hs[g] \in HandshakerType /\ HandshakerOk(g)
  BY <1>0 DEF TypeOK, HandshakersOk
<1>2. /\ hs' = [hs EXCEPT ![g].timer = IF hs[g].timer = "none" THEN hs[g].timer ELSE "off",
                          ![g].tracker = "gone", ![g].told = hs[g].told + 1,
                          ![g].state = IF hs[g].state = "timeouting" THEN "timeouted"
                          ELSE IF hs[g].state = "stopping" THEN "stopped" ELSE hs[g].state]
      /\ poller = [obj |-> g, at |-> "finish"]
      /\ \/ hs[g].state = "finished" /\ poller' = [obj |-> g, at |-> "handshaked"]
         \/ hs[g].state \in {"error", "timeouting"} /\ poller' = [obj |-> g,
                  at |-> "unhandshaked"]
         \/ hs[g].state = "stopping" /\ poller' = [obj |-> g, at |-> "hs_stopped"]
      /\ hs[g].told = 0
  BY <1>0, <1>1 DEF PollerOk, Assumed, HandshakerOk, Finishing, HsFinish, PollerAt
<1>n. hs[g].start # "idle"
  BY <1>1, <1>2 DEF HandshakerOk, NewHandshaker
<1>3. hs'[g] = [hs[g] EXCEPT !.timer = IF hs[g].timer = "none" THEN hs[g].timer ELSE "off",
                             !.tracker = "gone", !.told = hs[g].told + 1,
                             !.state = IF hs[g].state = "timeouting" THEN "timeouted"
                             ELSE IF hs[g].state = "stopping" THEN "stopped" ELSE hs[g].state]
  BY <1>0, <1>1, <1>2 DEF TypeOK
<1>f. /\ hs'[g].state = IF hs[g].state = "timeouting" THEN "timeouted"
               ELSE IF hs[g].state = "stopping" THEN "stopped" ELSE hs[g].state
      /\ hs'[g].start = hs[g].start
      /\ hs'[g].timer = IF hs[g].timer = "none" THEN hs[g].timer ELSE "off"
      /\ hs'[g].tracker = "gone"
      /\ hs'[g].toPost = hs[g].toPost
      /\ hs'[g].events = hs[g].events
      /\ hs'[g].told = hs[g].told + 1
  BY ONLY <1>1, <1>3 DEF HandshakerType
<1>x. /\ hs'[g].told = 1
      /\ \/ hs[g].state = "finished" /\ hs'[g].state = "finished"
         \/ hs[g].state = "error" /\ hs'[g].state = "error"
         \/ hs[g].state = "timeouting" /\ hs'[g].state = "timeouted"
         \/ hs[g].state = "stopping" /\ hs'[g].state = "stopped"
  BY <1>2, <1>f
<1>t. hs[g].toPost + hs[g].events <= 1 /\ hs[g].toPost \in Nat /\ hs[g].events \in Nat
  BY <1>1, Fields DEF HandshakerOk
<1>s. hs[g].toPost + hs[g].events > 0 => hs[g].state \in {"timeouting", "stopping"}
  BY <1>1, <1>t DEF HandshakerOk
<1>4. hs'[g] \in HandshakerType
  <2>1. hs'[g].toPost \in 0 .. 2 /\ hs'[g].events \in 0 .. 2
    BY <1>1, <1>2, <1>f, <1>t
  <2>2. /\ hs'[g].state \in {"finished", "error", "timeouted", "stopped"}
        /\ hs'[g].timer \in {"none", "running", "off"} /\ hs'[g].told \in 0 .. 2
    BY <1>1, <1>f, <1>x, Fields
  <2>3. hs'[g] = [state |-> hs'[g].state, start |-> hs[g].start, timer |-> hs'[g].timer,
                  tracker |-> "gone", toPost |-> hs'[g].toPost, events |-> hs'[g].events,
                  told |-> hs'[g].told]
    BY ONLY <1>1, <1>3 DEF HandshakerType
  <2>4. hs[g].start \in {"idle", "flow", "timer", "tracker", "started", "fail", "ok", "failed"}
    BY <1>1, Fields
  <2> QED BY ONLY <2>1, <2>2, <2>3, <2>4 DEF HandshakerType
<1>5. hs' \in [Handshakers -> HandshakerType] /\ \A h \in Handshakers \ {g} : hs'[h] = hs[h]
  BY <1>0, <1>2, <1>4 DEF TypeOK
<1>7. HandshakerOk(g)'
  <2>1. Finishing(g) <=> poller.obj = g /\ poller.at \in {"finish", "assert_failed"}
    BY DEF Finishing
  <2> QED BY <1>0, <1>1, <1>2, <1>f, <1>x, <1>n, <1>s, <1>t DEF HandshakerOk, AcceptorIdle,
     Finishing, PollerOk, PollerIdle
<1>6. PollerOk'
  BY <1>0, <1>1, <1>2, <1>f, <1>5, <1>7 DEF PollerOk, AcceptorIdle, HandshakerOk, Assumed,
     Finishing, PollerIdle
<1>8. g \in table =>
        /\ hs'[g].state \notin {"stopping", "stopped"}
        /\ hs'[g].start = "ok" /\ hs'[g].state \in {"finished", "error", "timeouted"} => Telling(g)'
  BY <1>0, <1>1, <1>2, <1>f DEF TableOk, Telling, HandshakerOk, PollerIdle
<1>9. /\ hs'[g].state \notin {"starting", "started", "timeouting"}
      /\ poller.obj = g /\ poller.at # "accepted"
      /\ poller'.obj = g /\ poller'.at # "accepted"
  BY <1>2, <1>x
<1>10. hs[g].start \in {"ok", "failed"} => hs'[g].start = hs[g].start
  BY <1>f
<1>11. hs'[g].start # "idle"
  BY <1>f, <1>n
<1> QED BY <1>5, <1>6, <1>7, <1>8, <1>9, <1>10, <1>11, <1>n, OneHandshaker

\* It has no tracker yet: the send poller goes no further.
LEMMA HsAssertFailsIInv ==
    ASSUME Assumed, IInv, AcceptorIdle, NEW g \in Handshakers, UNCHANGED rpc, HsFinish(g),
           hs[g].tracker = "none"
    PROVE  IInv'
<1>0. /\ TypeOK /\ ReadLocals /\ PollerOk /\ HandshakersOk /\ TableOk
  BY DEF IInv, HandshakersOk
<1>1. hs[g] \in HandshakerType /\ HandshakerOk(g)
  BY <1>0 DEF TypeOK, HandshakersOk
<1>2. /\ hs' = hs /\ poller = [obj |-> g, at |-> "finish"]
      /\ poller' = [obj |-> g, at |-> "assert_failed"]
  BY DEF HsFinish, PollerAt
<1>3. hs[g].state \in {"timeouting", "stopping"} /\ hs[g].start \notin {"idle", "started", "ok"}
  BY <1>0, <1>1, <1>2 DEF PollerOk, HandshakerOk, Assumed
<1>4. HandshakerOk(g)'
  <2>1. Finishing(g) /\ Finishing(g)'
    BY <1>2 DEF Finishing
  <2> QED BY <1>1, <1>2, <1>3, <2>1 DEF HandshakerOk, AcceptorIdle
<1>5. PollerOk'
  BY <1>0, <1>2, <1>3 DEF PollerOk, Assumed
<1> QED BY <1>0, <1>2, <1>3, <1>4, <1>5, OneHandshaker DEF TypeOK, TableOk

\* A step of the send poller for a handshaker, or of its timer.
LEMMA HandshakerIInv ==
    ASSUME Assumed, IInv, AcceptorIdle, UNCHANGED rpc, NEW g \in Handshakers,
           HsTimeout(g) \/ HsPost(g) \/ HsPolling(g)
    PROVE  IInv'
<1>1. CASE HsRoundEnds(g)
  <2>1. CASE hs[g].state = "started"
    BY <1>1, <2>1, HsRoundOverIInv DEF HsRoundEnds, PollerAt
  <2>2. CASE hs[g].state # "started"
    BY <1>1, <2>2, HsRoundLateIInv DEF HsRoundEnds
  <2> QED BY <2>1, <2>2
<1> QED BY <1>1, HsTimeoutIInv, HsPostIInv, HsIoEventIInv, HsChannelEventIInv, HsRoundWaitsIInv,
           HsFinishIInv, HsAssertFailsIInv DEF HsPolling, HsHandling

-----------------------------------------------------------------------------
(* The table.                                                              *)

\* The connections in progress are a finite set.
LEMMA InProgressFinite ==
    ASSUME ConnectionsMatch
    PROVE  IsFiniteSet(InProgress) /\ Cardinality(InProgress) \in Nat
<1>1. {h \in Handshakers : poller = [obj |-> h, at |-> "accepted"]} \subseteq {poller.obj}
  OBVIOUS
<1>2. IsFiniteSet({h \in Handshakers : poller = [obj |-> h, at |-> "accepted"]})
  BY <1>1, FS_Subset, FS_Singleton
<1>3. IsFiniteSet(InProgress)
  BY <1>2, FS_Union DEF InProgress, ConnectionsMatch
<1> QED BY <1>3, FS_CardinalityType

\* Fewer connections in progress match as well.
LEMMA FewerMatch ==
    ASSUME Assumed, TypeOK, ConnectionsMatch, table' \subseteq table,
           InProgress' \subseteq InProgress,
           UNCHANGED <<accepted, waiting, arriving>>,
           rpc' = rpc \/ rpc' \notin {"accepted", "create"}
    PROVE  ConnectionsMatch'
<1>1. IsFiniteSet(table')
  BY FS_Subset DEF ConnectionsMatch
<1>2. IsFiniteSet(InProgress') /\ Cardinality(InProgress') <= Cardinality(InProgress)
  BY InProgressFinite, FS_Subset
<1>3. Cardinality(InProgress') \in Nat /\ Cardinality(InProgress) \in Nat
  BY <1>2, InProgressFinite, FS_CardinalityType
<1>4. accepted \in Nat /\ waiting \in Nat /\ arriving \in Nat /\ MaxConnects \in Nat
  BY DEF TypeOK, Assumed
<1>5. (IF rpc' \in {"accepted", "create"} THEN 1 ELSE 0)
          <= (IF rpc \in {"accepted", "create"} THEN 1 ELSE 0)
  OBVIOUS
<1> QED BY <1>1, <1>2, <1>3, <1>4, <1>5 DEF ConnectionsMatch

\* A new handshaker.
LEMMA CreateHandshakerIInv ==
    ASSUME Assumed, IInv, CreateHandshaker
    PROVE  IInv'
<1>0. /\ TypeOK /\ AcceptorLocals /\ ReadLocals /\ PollerOk /\ HandshakersOk /\ TableOk
      /\ ConnectionsMatch
  BY DEF IInv, HandshakersOk
<1>1. PICK g \in Handshakers : hs[g] = NewHandshaker /\ cur' = g /\ table' = table \cup {g}
  BY DEF CreateHandshaker, Fresh
<1>2. /\ rpc = "create" /\ rpc' = "init" /\ cur = None
      /\ UNCHANGED <<kind, state, spc, stoppc, open, tracker, waiting, arriving,
                     events, stopped, accepted, hs, poller>>
  BY <1>0 DEF CreateHandshaker, ReadLocals
<1>3. g \notin table /\ poller.obj # g
  BY <1>0, <1>1, <1>2 DEF TableOk, Assumed, NewHandshaker, PollerOk
<1>4. TypeOK'
  BY <1>0, <1>1, <1>2 DEF TypeOK
<1>5. AcceptorLocals'
  BY <1>0, <1>2 DEF AcceptorLocals
<1>6. ReadLocals'
  BY <1>0, <1>1, <1>2 DEF ReadLocals, Assumed
<1>7. PollerOk'
  BY <1>0, <1>1, <1>2, <1>3 DEF PollerOk
<1>8. HandshakersOk'
  <2>1. ASSUME NEW h \in Handshakers
        PROVE  /\ Finishing(h)' <=> Finishing(h)
               /\ hs[h].start \notin {"flow", "timer", "tracker", "started", "fail"}
    BY <1>0, <1>2 DEF Finishing, HandshakersOk, HandshakerOk
  <2> QED BY <1>0, <1>2, <2>1, HandshakerFrame DEF HandshakersOk
<1>9. TableOk'
  <2>1. state \notin {"none", "starting"}
    BY <1>0, <1>2 DEF ReadLocals
  <2>2. \A h \in Handshakers : Telling(h)' <=> Telling(h)
    BY <1>2 DEF Telling
  <2>3. \A h \in table : hs[h].start = "ok"
    BY <1>0, <1>2 DEF TableOk, TypeOK, Assumed
  <2> QED BY <1>0, <1>1, <1>2, <2>1, <2>2, <2>3 DEF TableOk, NewHandshaker, TypeOK
<1>10. ConnectionsMatch'
  <2>1. InProgress' = InProgress \cup {g} /\ g \notin InProgress
    BY <1>1, <1>2, <1>3 DEF InProgress
  <2>2. Cardinality(InProgress') = Cardinality(InProgress) + 1
    BY <1>0, <2>1, InProgressFinite, FS_AddElement
  <2>3. IsFiniteSet(table')
    BY <1>0, <1>1, FS_AddElement DEF ConnectionsMatch
  <2> QED BY <1>0, <1>2, <2>2, <2>3, InProgressFinite DEF ConnectionsMatch, TypeOK
<1> QED BY <1>4, <1>5, <1>6, <1>7, <1>8, <1>9, <1>10 DEF IInv, HandshakersOk

\* A handshaker that did not start is taken out again.
LEMMA RemoveHandshakerIInv ==
    ASSUME Assumed, IInv, RemoveHandshaker
    PROVE  IInv'
<1>0. /\ TypeOK /\ AcceptorLocals /\ ReadLocals /\ PollerOk /\ HandshakersOk /\ TableOk
      /\ ConnectionsMatch
  BY DEF IInv, HandshakersOk
<1>1. /\ rpc = "remove" /\ rpc' = "again" /\ table' = table \ {cur}
      /\ UNCHANGED <<kind, state, spc, stoppc, open, tracker, waiting, arriving, cur,
                     events, stopped, accepted, hs, poller>>
  BY DEF RemoveHandshaker
<1>2. cur \in Handshakers /\ hs[cur].start \in {"idle", "failed"}
  BY <1>0, <1>1 DEF TypeOK, ReadLocals
<1>4. TypeOK'
  BY <1>0, <1>1 DEF TypeOK
<1>5. AcceptorLocals'
  BY <1>0, <1>1 DEF AcceptorLocals
<1>6. ReadLocals'
  BY <1>0, <1>1 DEF ReadLocals
<1>7. PollerOk'
  BY <1>0, <1>1 DEF PollerOk
<1>8. HandshakersOk'
  <2>1. ASSUME NEW h \in Handshakers
        PROVE  /\ Finishing(h)' <=> Finishing(h)
               /\ hs[h].start \notin {"flow", "timer", "tracker", "started", "fail"}
    BY <1>0, <1>1 DEF Finishing, HandshakersOk, HandshakerOk
  <2> QED BY <1>0, <1>1, <2>1, HandshakerFrame DEF HandshakersOk
<1>9. TableOk'
  <2>1. state \notin {"none", "starting"}
    BY <1>0, <1>1 DEF ReadLocals
  <2>2. \A h \in Handshakers : Telling(h)' <=> Telling(h)
    BY <1>1 DEF Telling
  <2>3. hs[cur].start = "idle" => hs[cur].state = "none"
    BY <1>0, <1>2 DEF HandshakersOk, HandshakerOk, NewHandshaker
  <2>4. state = "started" =>
          \A h \in Handshakers :
              hs[h].state \in {"starting", "started", "timeouting"} =>
                  h \in table' \/ hs[h].start \in {"fail", "failed"}
    BY <1>0, <1>1, <1>2, <2>3 DEF TableOk
  <2>5. \A h \in table' :
          /\ h = cur \/ hs[h].start = "ok"
          /\ hs[h].state \notin {"stopping", "stopped"}
          /\ hs[h].start = "ok" /\ hs[h].state \in {"finished", "error", "timeouted"}
               => Telling(h)'
    BY <1>0, <1>1, <2>2 DEF TableOk, TypeOK
  <2> QED BY <1>1, <2>1, <2>4, <2>5 DEF TableOk
<1>10. ConnectionsMatch'
  <2>1. InProgress' \subseteq InProgress
    BY <1>1 DEF InProgress
  <2> QED BY <1>0, <1>1, <2>1, FewerMatch
<1> QED BY <1>4, <1>5, <1>6, <1>7, <1>8, <1>9, <1>10 DEF IInv, HandshakersOk

\* stop empties the table.
LEMMA StopAllHandshakersIInv ==
    ASSUME Assumed, IInv, StopAllHandshakers
    PROVE  IInv'
<1>0. /\ TypeOK /\ AcceptorLocals /\ ReadLocals /\ PollerOk /\ HandshakersOk /\ TableOk
      /\ ConnectionsMatch
  BY DEF IInv, HandshakersOk
<1>1. /\ stoppc = "stop_all" /\ stoppc' = "post" /\ table' = {}
      /\ hs' = [h \in Handshakers |-> IF h \in table THEN HsStop(hs[h]) ELSE hs[h]]
      /\ UNCHANGED <<kind, state, spc, open, tracker, waiting, arriving, rpc, cur,
                     events, stopped, accepted, poller>>
  BY DEF StopAllHandshakers
<1>2. state = "stopping"
  BY <1>0, <1>1 DEF AcceptorLocals
<1>3. ASSUME NEW h \in Handshakers
      PROVE  /\ hs'[h] \in HandshakerType /\ HandshakerOk(h)'
             /\ hs'[h].start = hs[h].start /\ hs'[h].tracker = hs[h].tracker
             /\ \/ hs'[h].state = hs[h].state
                \/ hs[h].state \in {"started", "timeouting"} /\ hs'[h].state = "stopping"
             /\ hs[h] = NewHandshaker => hs'[h] = NewHandshaker
  <2>1. hs[h] \in HandshakerType /\ HandshakerOk(h)
    BY <1>0 DEF TypeOK, HandshakersOk
  <2>2. CASE hs[h].state \in {"started", "timeouting"} /\ h \in table
    <3>1. hs'[h] = [hs[h] EXCEPT !.state = "stopping",
                      !.toPost = IF hs[h].state = "started" THEN hs[h].toPost + 1
                                                             ELSE hs[h].toPost]
      BY <1>1, <2>1, <2>2 DEF HsStop, HandshakerType
    <3>2. /\ hs'[h].state = "stopping" /\ hs'[h].start = hs[h].start
          /\ hs'[h].timer = hs[h].timer /\ hs'[h].tracker = hs[h].tracker
          /\ hs'[h].toPost = IF hs[h].state = "started" THEN hs[h].toPost + 1
                                                         ELSE hs[h].toPost
          /\ hs'[h].events = hs[h].events /\ hs'[h].told = hs[h].told
      BY ONLY <2>1, <3>1 DEF HandshakerType
    <3>3. /\ hs[h].state = "started" => hs[h].toPost = 0 /\ hs[h].events = 0
          /\ hs[h].state = "started" => hs[h].start = "ok" /\ hs[h].told = 0 /\ ~Finishing(h)
      BY <1>0, <2>1 DEF HandshakerOk, Finishing, PollerOk, Assumed
    <3>4. hs'[h].toPost \in 0 .. 2
      BY <2>1, <2>2, <3>2, <3>3, Fields
    <3>5. hs'[h] \in HandshakerType
      BY <2>1, <3>1, <3>2, <3>4 DEF HandshakerType
    <3>6. Finishing(h)' <=> Finishing(h)
      BY <1>1 DEF Finishing
    <3>7. HandshakerOk(h)'
      <4>1. CASE hs[h].state = "started"
        BY <1>1, <2>1, <3>2, <3>3, <3>6, <4>1 DEF HandshakerOk, NewHandshaker
      <4>2. CASE hs[h].state = "timeouting"
        BY <1>1, <2>1, <3>2, <3>6, <4>2 DEF HandshakerOk, NewHandshaker
      <4> QED BY <2>2, <4>1, <4>2
    <3> QED BY <2>2, <3>2, <3>5, <3>7 DEF NewHandshaker
  <2>3. CASE ~(hs[h].state \in {"started", "timeouting"} /\ h \in table)
    <3>1. hs'[h] = hs[h]
      <4>1. hs[h].state \notin {"started", "timeouting"} => HsStop(hs[h]) = hs[h]
        BY <2>1 DEF HsStop, HandshakerType
      <4> QED BY <1>1, <2>3, <4>1
    <3>2. Finishing(h)' <=> Finishing(h)
      BY <1>1 DEF Finishing
    <3>3. UNCHANGED <<cur, rpc>>
      BY <1>1
    <3>4. HandshakerOk(h)'
      BY <2>1, <3>1, <3>2, <3>3, HandshakerFrame
    <3>5. hs'[h] \in HandshakerType
      BY <2>1, <3>1
    <3> QED BY ONLY <3>1, <3>4, <3>5
  <2> QED BY <2>2, <2>3
<1>4. TypeOK'
  <2>1. hs' \in [Handshakers -> HandshakerType]
    BY <1>1, <1>3
  <2> QED BY <1>0, <1>1, <2>1 DEF TypeOK
<1>5. AcceptorLocals'
  BY <1>0, <1>1, <1>2 DEF AcceptorLocals
<1>6. ReadLocals'
  BY <1>0, <1>1, <1>2, <1>3 DEF ReadLocals, TypeOK
<1>7. PollerOk'
  BY <1>0, <1>1, <1>3 DEF PollerOk
<1>8. HandshakersOk'
  BY <1>3 DEF HandshakersOk
<1>9. TableOk'
  BY <1>1, <1>2 DEF TableOk
<1>10. ConnectionsMatch'
  <2>1. InProgress' \subseteq InProgress
    BY <1>1 DEF InProgress
  <2> QED BY <1>0, <1>1, <2>1, FewerMatch
<1> QED BY <1>4, <1>5, <1>6, <1>7, <1>8, <1>9, <1>10 DEF IInv, HandshakersOk

\* The acceptor has nothing but what it is told of, in the table and by the
\* send poller, to take handshaker g out.
LEMMA LeaveTable ==
    ASSUME Assumed, IInv, NEW g \in Handshakers, poller.obj = g, poller.at # "accepted",
           table' = table \ {g},
           UNCHANGED <<kind, state, spc, stoppc, open, tracker, waiting, arriving, rpc,
                       cur, events, stopped, accepted, hs>>,
           \/ poller' = PollerIdle
           \/ /\ g \in table /\ state = "started" /\ hs[g].state = "finished"
              /\ poller' = [obj |-> g, at |-> "accepted"],
           hs[g].state \notin {"starting", "started", "timeouting"}, ~Finishing(g)
    PROVE  IInv'
<1>0. /\ TypeOK /\ AcceptorLocals /\ ReadLocals /\ PollerOk /\ HandshakersOk /\ TableOk
      /\ ConnectionsMatch
  BY DEF IInv, HandshakersOk
<1>1. hs[g].tracker # "none" /\ hs[g].state # "none" /\ hs[g] # NewHandshaker
  BY <1>0 DEF PollerOk, HandshakersOk, HandshakerOk, NewHandshaker, Assumed, Finishing
<1>2. state \notin {"none", "starting"}
  BY <1>0, <1>1 DEF TableOk
<1>4. TypeOK'
  BY <1>0 DEF TypeOK
<1>5. AcceptorLocals'
  BY <1>0 DEF AcceptorLocals
<1>6. ReadLocals'
  BY <1>0, <1>1 DEF ReadLocals
<1>7. PollerOk'
  BY <1>0, <1>1 DEF PollerOk, PollerIdle, Assumed
<1>8. HandshakersOk'
  <2>1. ASSUME NEW h \in Handshakers
        PROVE  Finishing(h)' <=> Finishing(h)
    BY DEF Finishing, PollerIdle, Assumed
  <2> QED BY <1>0, <2>1, HandshakerFrame DEF HandshakersOk
<1>9. TableOk'
  <2>1. \A h \in table' : Telling(h) => Telling(h)'
    BY DEF Telling
  <2>2. state = "started" =>
          \A h \in Handshakers :
              hs[h].state \in {"starting", "started", "timeouting"} =>
                  h \in table' \/ hs[h].start \in {"fail", "failed"}
    BY <1>0 DEF TableOk
  <2>3. \A h \in table' :
          /\ h = cur \/ hs[h].start = "ok"
          /\ hs[h].state \notin {"stopping", "stopped"}
          /\ hs[h].start = "ok" /\ hs[h].state \in {"finished", "error", "timeouted"}
               => Telling(h)'
    BY <1>0, <2>1 DEF TableOk
  <2> QED BY <1>2, <2>2, <2>3 DEF TableOk
<1>10. ConnectionsMatch'
  <2>1. InProgress' \subseteq InProgress
    BY DEF InProgress, PollerIdle, Assumed
  <2> QED BY <1>0, <2>1, FewerMatch
<1> QED BY <1>4, <1>5, <1>6, <1>7, <1>8, <1>9, <1>10 DEF IInv, HandshakersOk

\* on_handshaked, on_handshake_stopped.
LEMMA CallingIInv ==
    ASSUME Assumed, IInv, NEW h \in Handshakers, Calling(h)
    PROVE  IInv'
<1>0. PollerOk
  BY DEF IInv
<1>1. CASE Handshaked(h)
  <2>1. /\ poller.obj = h /\ poller.at \in {"handshaked", "unhandshaked"}
        /\ hs[h].state \in {"finished", "error", "timeouted"} /\ ~Finishing(h)
    BY <1>0, <1>1 DEF Handshaked, PollerOk, Assumed, Finishing
  <2>2. \/ poller' = PollerIdle
        \/ /\ h \in table /\ state = "started" /\ hs[h].state = "finished"
           /\ poller' = [obj |-> h, at |-> "accepted"]
    BY <1>0, <1>1, <2>1 DEF Handshaked, PollerAt, PollerOk, Assumed
  <2> QED BY <1>1, <2>1, <2>2, LeaveTable DEF Handshaked
<1>2. CASE HandshakeStopped(h)
  <2>1. /\ poller.obj = h /\ poller.at = "hs_stopped"
        /\ hs[h].state = "stopped" /\ ~Finishing(h)
    BY <1>0, <1>2 DEF HandshakeStopped, PollerOk, Assumed, Finishing
  <2> QED BY <1>2, <2>1, LeaveTable DEF HandshakeStopped
<1> QED BY <1>1, <1>2 DEF Calling

\* The connection of a finished handshake is handed over.
LEMMA TlsAcceptedIInv ==
    ASSUME Assumed, IInv, TlsAccepted
    PROVE  IInv'
<1>0. /\ TypeOK /\ AcceptorLocals /\ ReadLocals /\ PollerOk /\ HandshakersOk /\ TableOk
      /\ ConnectionsMatch
  BY DEF IInv, HandshakersOk
<1>1. /\ poller.at = "accepted" /\ accepted' = accepted + 1 /\ poller' = PollerIdle
      /\ UNCHANGED <<kind, state, spc, stoppc, open, tracker, waiting, arriving, rpc,
                     cur, table, events, stopped, hs>>
  BY DEF TlsAccepted
<1>2. PICK g \in Handshakers : poller = [obj |-> g, at |-> "accepted"]
  BY <1>0, <1>1 DEF PollerOk
<1>3. g \notin table
  BY <1>0, <1>2 DEF PollerOk, Assumed
<1>10. ConnectionsMatch' /\ accepted' \in 0 .. MaxConnects
  <2>1. InProgress = table \cup {g} /\ InProgress' = table
    BY <1>1, <1>2 DEF InProgress, PollerIdle, Assumed
  <2>2. Cardinality(InProgress) = Cardinality(table) + 1 /\ Cardinality(table) \in Nat
    BY <1>0, <1>3, <2>1, FS_AddElement, FS_CardinalityType DEF ConnectionsMatch
  <2> QED BY <1>0, <1>1, <2>1, <2>2 DEF ConnectionsMatch, TypeOK, Assumed
<1>4. TypeOK'
  BY <1>0, <1>1, <1>10 DEF TypeOK
<1>5. AcceptorLocals'
  BY <1>0, <1>1 DEF AcceptorLocals
<1>6. ReadLocals'
  BY <1>0, <1>1 DEF ReadLocals
<1>7. PollerOk'
  BY <1>0, <1>1 DEF PollerOk, PollerIdle, Assumed
<1>8. HandshakersOk'
  <2>1. ASSUME NEW h \in Handshakers
        PROVE  Finishing(h)' <=> Finishing(h)
    BY <1>1, <1>2 DEF Finishing, PollerIdle, Assumed
  <2> QED BY <1>0, <1>1, <2>1, HandshakerFrame DEF HandshakersOk
<1>9. TableOk'
  <2>1. \A h \in Handshakers : Telling(h)' <=> Telling(h)
    BY <1>1, <1>2 DEF Telling, PollerIdle
  <2> QED BY <1>0, <1>1, <2>1 DEF TableOk, TypeOK
<1> QED BY <1>4, <1>5, <1>6, <1>7, <1>8, <1>9, <1>10 DEF IInv, HandshakersOk

-----------------------------------------------------------------------------
(* The read poller goes from one handshaker's call to the next.            *)

\* A step of the read poller alone.
LEMMA ReadStep ==
    ASSUME Assumed, IInv, AcceptorIdle, UNCHANGED <<hs, poller>>, ReadLocals',
           rpc \in {"init", "starting"}, rpc' \in {"again", "remove"},
           rpc = "starting" => hs[cur].start \in {"ok", "failed"}
    PROVE  IInv'
<1>0. /\ TypeOK /\ AcceptorLocals /\ ReadLocals /\ PollerOk /\ HandshakersOk /\ TableOk
      /\ ConnectionsMatch
  BY DEF IInv, HandshakersOk
<1>1. TypeOK'
  BY <1>0 DEF TypeOK, AcceptorIdle
<1>2. AcceptorLocals'
  BY <1>0 DEF AcceptorLocals, AcceptorIdle
<1>3. PollerOk'
  BY <1>0 DEF PollerOk, AcceptorIdle
<1>4. HandshakersOk'
  <2>1. ASSUME NEW h \in Handshakers
        PROVE  /\ Finishing(h)' <=> Finishing(h)
               /\ hs[h].start \notin {"flow", "timer", "tracker", "started", "fail"}
    BY <1>0 DEF Finishing, HandshakersOk, HandshakerOk
  <2> QED BY <1>0, <2>1, HandshakerFrame DEF HandshakersOk
<1>5. TableOk'
  <2>1. \A h \in Handshakers : Telling(h)' <=> Telling(h)
    BY DEF Telling
  <2> QED BY <1>0, <2>1 DEF TableOk, TypeOK, AcceptorIdle
<1>6. ConnectionsMatch'
  BY <1>0 DEF ConnectionsMatch, InProgress, AcceptorIdle
<1> QED BY <1>1, <1>2, <1>3, <1>4, <1>5, <1>6 DEF IInv, HandshakersOk

\* init of a handshaker fails.
LEMMA InitFailsIInv ==
    ASSUME Assumed, IInv, InitHandshaker, UNCHANGED <<hs, poller>>, rpc' = "remove"
    PROVE  IInv'
<1>0. rpc = "init" /\ AcceptorIdle /\ ReadLocals /\ TypeOK
  BY DEF InitHandshaker, AcceptorIdle, IInv
<1>1. ReadLocals'
  BY <1>0 DEF ReadLocals, NewHandshaker, AcceptorIdle
<1> QED BY <1>0, <1>1, ReadStep

\* start has returned.
LEMMA StartedOrNotIInv ==
    ASSUME Assumed, IInv, StartHandshaker, ~(HsStarting(cur) /\ UNCHANGED rpc)
    PROVE  IInv'
<1>0. /\ rpc = "starting" /\ AcceptorIdle /\ ReadLocals /\ TypeOK
      /\ UNCHANGED <<hs, poller>>
      /\ \/ hs[cur].start = "ok" /\ rpc' = "again"
         \/ hs[cur].start = "failed" /\ rpc' = "remove"
  BY DEF StartHandshaker, AcceptorIdle, IInv
<1>1. ReadLocals'
  BY <1>0 DEF ReadLocals, AcceptorIdle
<1> QED BY <1>0, <1>1, ReadStep

-----------------------------------------------------------------------------
(* Everything together.                                                    *)

\* The acceptor as it was created.
LEMMA InitIInv ==
    ASSUME Assumed, Init
    PROVE  IInv
<1>1. /\ hs = [h \in Handshakers |-> NewHandshaker] /\ poller = PollerIdle
      /\ kind \in {"tcp", "tls"} /\ state = "none" /\ spc = "idle" /\ stoppc = "idle"
      /\ open = FALSE /\ tracker = "none" /\ waiting = 0 /\ arriving = MaxConnects
      /\ rpc = "idle" /\ cur = None /\ table = {}
      /\ events = 0 /\ stopped = FALSE /\ accepted = 0
  BY DEF Init, HandshakerInit
<1>2. NewHandshaker \in HandshakerType
  BY DEF NewHandshaker, HandshakerType
<1>3. TypeOK
  <2>1. hs \in [Handshakers -> HandshakerType]
    BY <1>1, <1>2
  <2>2. open \in BOOLEAN /\ stopped \in BOOLEAN
    BY <1>1
  <2>3. cur \in Handshakers \cup {None} /\ table \subseteq Handshakers
    BY <1>1
  <2>4. /\ waiting \in 0 .. MaxConnects /\ arriving \in 0 .. MaxConnects
        /\ accepted \in 0 .. MaxConnects /\ events \in 0 .. 1
    BY <1>1 DEF Assumed
  <2>5. /\ kind \in {"tcp", "tls"} /\ state = "none" /\ spc = "idle" /\ stoppc = "idle"
        /\ tracker = "none" /\ rpc = "idle"
    BY <1>1
  <2> QED BY ONLY <2>1, <2>2, <2>3, <2>4, <2>5 DEF TypeOK
<1>4. AcceptorLocals /\ ReadLocals
  BY <1>1 DEF AcceptorLocals, ReadLocals
<1>5. PollerOk
  BY <1>1 DEF PollerOk, PollerIdle
<1>6. \A h \in Handshakers : HandshakerOk(h)
  BY <1>1 DEF HandshakerOk, NewHandshaker
<1>7. TableOk
  BY <1>1 DEF TableOk
<1>8. ConnectionsMatch
  <2>1. InProgress = {}
    BY <1>1 DEF InProgress, PollerIdle
  <2> QED BY <1>1, <2>1, FS_EmptySet DEF ConnectionsMatch, Assumed
<1> QED BY <1>3, <1>4, <1>5, <1>6, <1>7, <1>8 DEF IInv

\* A step that changes nothing.
LEMMA IdleIInv ==
    ASSUME IInv, UNCHANGED vars
    PROVE  IInv'
BY DEF IInv, vars, acceptVars, TypeOK, AcceptorLocals, ReadLocals, PollerOk, HandshakerOk,
       Finishing, TableOk, Telling, ConnectionsMatch, InProgress

\* Every step.
LEMMA NextIInv ==
    ASSUME Assumed, IInv, [Next]_vars
    PROVE  IInv'
<1>1. CASE InitHandshaker
  <2>1. CASE UNCHANGED <<hs, poller>> /\ rpc' = "remove"
    BY <1>1, <2>1, InitFailsIInv
  <2>2. CASE HsStart(cur) /\ rpc' = "starting"
    BY <1>1, <2>2, HsStartIInv DEF InitHandshaker, AcceptorIdle
  <2> QED BY <1>1, <2>1, <2>2 DEF InitHandshaker
<1>2. CASE StartHandshaker
  <2>1. CASE HsStarting(cur) /\ UNCHANGED rpc
    BY <1>2, <2>1, HsStartingIInv DEF StartHandshaker, AcceptorIdle
  <2>2. CASE ~(HsStarting(cur) /\ UNCHANGED rpc)
    BY <1>2, <2>2, StartedOrNotIInv
  <2> QED BY <2>1, <2>2
<1>3. ASSUME NEW h \in Handshakers, HandshakerThreads(h) \/ HandshakerPolling(h)
      PROVE  IInv'
  BY <1>3, HandshakerIInv DEF HandshakerThreads, HandshakerPolling, acceptVars, AcceptorIdle
<1>4. CASE ~(InitHandshaker \/ StartHandshaker) /\ Next
  BY <1>3, <1>4, AcceptorIInv, CreateHandshakerIInv, RemoveHandshakerIInv,
     StopAllHandshakersIInv, CallingIInv, TlsAcceptedIInv
     DEF Next, Starting, Stopping, Accepting, AcceptorStep, ControlStep, AcceptStep
<1> QED BY <1>1, <1>2, <1>4, IdleIInv

\* What the invariant says of the table.
LEMMA InvTableHasHandshakes ==
    ASSUME Assumed, IInv
    PROVE  TableHasHandshakes /\ AcceptChance
<1>1. /\ TypeOK /\ AcceptorLocals /\ ReadLocals /\ PollerOk /\ HandshakersOk /\ TableOk
  BY DEF IInv, HandshakersOk
<1>2. AcceptChance
  BY <1>1 DEF AcceptorLocals, AcceptChance
<1>3. \A h \in Handshakers : hs[h].told <= 1
  <2>1. ASSUME NEW h \in Handshakers
        PROVE  hs[h].told <= 1
    BY <1>1, Fields DEF TypeOK, HandshakersOk, HandshakerOk
  <2> QED BY <2>1
<1>4. ASSUME NEW h \in table, h # cur
      PROVE  \/ hs[h].state = "started"
             \/ hs[h].state \in {"timeouting", "stopping"}
                /\ (hs[h].toPost > 0 \/ hs[h].events > 0 \/ Telling(h))
             \/ hs[h].state \in {"finished", "error", "timeouted"} /\ Telling(h)
  <2>1. /\ h \in Handshakers /\ hs[h] \in HandshakerType /\ HandshakerOk(h)
        /\ hs[h].start = "ok" /\ hs[h].state \notin {"stopping", "stopped"}
        /\ hs[h].state \in {"finished", "error", "timeouted"} => Telling(h)
    BY <1>1, <1>4 DEF TypeOK, TableOk, HandshakersOk
  <2>2. hs[h].state \in {"started", "timeouting", "finished", "error", "timeouted"}
    BY <2>1, Fields DEF HandshakerOk
  <2>3. hs[h].state = "timeouting" => hs[h].toPost > 0 \/ hs[h].events > 0 \/ Telling(h)
    BY <1>1, <2>1, Fields DEF HandshakerOk, PollerOk, Finishing, Telling, Assumed
  <2> QED BY <2>1, <2>2, <2>3
<1>5. state = "started" =>
        \A h \in Handshakers :
            hs[h].state \in {"starting", "started", "timeouting"} =>
                h \in table \/ hs[h].start \in {"fail", "failed"}
  BY <1>1 DEF TableOk
<1> QED BY <1>2, <1>3, <1>4, <1>5 DEF TableHasHandshakes

-----------------------------------------------------------------------------
(* Nothing is handed over after stopped_cb.                                *)

\* A tcp acceptor alone accepts in the read poller; the send poller is not
\* handing over when stopped_cb is called, nor begins to, as the state is not
\* started.
NotLate ==
    /\ stopped => state = "stopped" /\ poller.at # "accepted"
    /\ rpc = "accepted" => kind = "tcp"

\* The steps of a handshaker do not hand over.
LEMMA HandshakerNotLate ==
    ASSUME NotLate, NEW h \in Handshakers, UNCHANGED <<stopped, state, kind>>,
           UNCHANGED rpc \/ rpc' # "accepted",
           \/ HsStart(h) \/ HsStarting(h) \/ HsTimeout(h) \/ HsPost(h) \/ HsPolling(h)
    PROVE  NotLate'
<1>1. UNCHANGED poller \/ poller'.at # "accepted"
  <2>1. CASE HsStart(h) \/ HsStarting(h) \/ HsTimeout(h) \/ HsPost(h)
    BY <2>1 DEF HsStart, HsStarting, HsFirstRound, HsStartTimer, HsInstallTracker, HsStarted,
       HsStartFails, HsTimeout, HsPost
  <2>2. CASE HsIoEvent(h) \/ HsChannelEvent(h) \/ HsRoundEnds(h) \/ HsRoundWaits(h)
    BY <2>2 DEF HsIoEvent, HsChannelEvent, HsRoundEnds, HsRoundWaits, PollerAt, PollerIdle
  <2>3. CASE HsFinish(h)
    <3> DEFINE then == CASE hs[h].state = "finished" -> "handshaked"
                         [] hs[h].state \in {"error", "timeouting"} -> "unhandshaked"
                         [] hs[h].state = "stopping" -> "hs_stopped"
                         [] OTHER -> "idle"
    <3>1. \/ poller' = [obj |-> h, at |-> "assert_failed"] \/ poller' = PollerIdle
          \/ poller' = [obj |-> h, at |-> then]
      BY <2>3 DEF HsFinish, PollerAt
    <3>2. then # "accepted"
      OBVIOUS
    <3> QED BY <3>1, <3>2 DEF PollerIdle
  <2> QED BY <2>1, <2>2, <2>3 DEF HsPolling, HsHandling
<1> QED BY <1>1 DEF NotLate

\* Every step keeps that, and hands nothing over.
LEMMA NextNotLate ==
    ASSUME Assumed, IInv, NotLate, [Next]_vars
    PROVE  NotLate' /\ (kind = "tls" /\ stopped => accepted' = accepted)
<1>0. TypeOK /\ AcceptorLocals
  BY DEF IInv
<1>1. accepted' # accepted => TcpAccepted \/ TlsAccepted
  <2>1. CASE UNCHANGED vars
    BY <2>1 DEF vars, acceptVars
  <2>2. CASE Next /\ ~TcpAccepted /\ ~TlsAccepted
    BY <2>2 DEF Next, Start, Starting, OpenAcceptFlow, InstallAcceptTracker, Started, StartFails,
       Stop, Stopping, CloseAcceptFlow, StopAllHandshakers, StopPost, ConnectionArrives,
                ReadEvent,
       Accepting, Accept, CreateHandshaker, UseDestroyed, InitHandshaker,
       StartHandshaker, RemoveHandshaker, StartAcceptTracker, ChannelEvent,
       HandshakerThreads, HandshakerPolling, Calling, Handshaked, HandshakeStopped, acceptVars
  <2> QED BY <2>1, <2>2
<1>2. kind = "tls" /\ stopped => accepted' = accepted
  BY <1>1 DEF NotLate, TcpAccepted, TlsAccepted
<1>3. NotLate'
  <2>1. CASE UNCHANGED vars
    BY <2>1 DEF NotLate, vars, acceptVars
  <2>2. CASE Start \/ Starting \/ Stop \/ Stopping
    <3>1. CASE Start \/ Starting
      BY <1>0, <3>1 DEF NotLate, AcceptorLocals, Start, Starting, OpenAcceptFlow,
         InstallAcceptTracker, Started, StartFails
    <3>2. CASE Stop \/ Stopping
      BY <3>2 DEF NotLate, Stop, Stopping, CloseAcceptFlow, StopAllHandshakers, StopPost
    <3> QED BY <2>2, <3>1, <3>2
  <2>3. CASE InitHandshaker \/ StartHandshaker
    <3>1. CASE UNCHANGED poller
      BY <2>3, <3>1 DEF NotLate, InitHandshaker, StartHandshaker
    <3>2. CASE HsStart(cur) \/ HsStarting(cur)
      <4>1. cur \in Handshakers
        BY <2>3, <1>0 DEF InitHandshaker, StartHandshaker, IInv, ReadLocals, TypeOK
      <4>2. /\ UNCHANGED <<stopped, state, kind>>
            /\ UNCHANGED rpc \/ rpc' # "accepted"
        BY <2>3 DEF InitHandshaker, StartHandshaker
      <4> QED BY <3>2, <4>1, <4>2, HandshakerNotLate
    <3> QED BY <2>3, <3>1, <3>2 DEF InitHandshaker, StartHandshaker
  <2>4. CASE ConnectionArrives \/ ReadEvent \/ Accept \/ TcpAccepted \/ CreateHandshaker
             \/ UseDestroyed \/ RemoveHandshaker \/ StartAcceptTracker
    BY <1>0, <2>4 DEF NotLate, TypeOK, ConnectionArrives, ReadEvent, Accept, TcpAccepted,
       CreateHandshaker, UseDestroyed, RemoveHandshaker, StartAcceptTracker
  <2>5. CASE TlsAccepted \/ ChannelEvent
    BY <1>0, <2>5 DEF NotLate, TypeOK, TlsAccepted, ChannelEvent, PollerIdle
  <2>6. ASSUME NEW h \in Handshakers, Calling(h)
        PROVE  NotLate'
    BY <1>0, <2>6 DEF NotLate, TypeOK, Calling, Handshaked, HandshakeStopped, PollerIdle, PollerAt
  <2>7. ASSUME NEW h \in Handshakers, HandshakerThreads(h) \/ HandshakerPolling(h)
        PROVE  NotLate'
    BY <2>7, HandshakerNotLate DEF HandshakerThreads, HandshakerPolling, acceptVars
  <2> QED BY <2>1, <2>2, <2>3, <2>4, <2>5, <2>6, <2>7 DEF Next, Accepting
<1> QED BY <1>2, <1>3

(***************************************************************************)
(* The dialer.                                                             *)
(***************************************************************************)

\* The dialer has a handshaker.
DialAssumed == None \notin Handshakers /\ Handshakers # {}

\* The dialer's handshaker is one of them.
LEMMA HsIsOne ==
    ASSUME DialAssumed
    PROVE  D!Hs \in Handshakers /\ D!Hs # None
BY DEF D!Hs, DialAssumed

\* The order of the steps of start.
LEMMA StartOrder ==
    ASSUME dkind \in {"tcp", "tls"}, NEW l, D!Then(l)
    PROVE  /\ dspc = l
           /\ \/ l = "open" /\ dspc' = IF dkind = "tcp" THEN "timer" ELSE "connect"
              \/ l = "timer" /\ dspc' = IF dkind = "tcp" THEN "connect" ELSE "install"
              \/ l = "connect" /\ dspc' = IF dkind = "tcp" THEN "install" ELSE "timer"
              \/ l = "install" /\ dspc' = "cas"
<1>1. PICK i \in 1 .. 4 : dspc = l /\ D!StartSteps[i] = l /\ dspc' = D!StartSteps[i + 1]
  BY DEF D!Then
<1>2. i = 1 \/ i = 2 \/ i = 3 \/ i = 4
  OBVIOUS
<1>3. CASE dkind = "tcp"
  BY <1>1, <1>2, <1>3 DEF D!StartSteps
<1>4. CASE dkind = "tls"
  BY <1>1, <1>2, <1>4 DEF D!StartSteps
<1> QED BY <1>3, <1>4

\* The first callback.
LEMMA TellOnce ==
    ASSUME NEW s \in D!Outcomes, told = <<>>
    PROVE  Append(told, s) = <<s>>
OBVIOUS

\* start.
LEMMA StartDInv ==
    ASSUME DialAssumed, D!IInv, D!Start
    PROVE  D!IInv'
<1>0. /\ D!TypeOK /\ D!DialLocals /\ D!EventMatches /\ D!ToldOk
      /\ D!DialPollerOk /\ D!DialHandshakerOk
      /\ D!Hs \in Handshakers /\ D!Hs # None
  BY HsIsOne DEF D!IInv
<1>1. /\ dstate = "none" /\ dspc = "idle" /\ dstate' = "starting" /\ dspc' = "open"
      /\ UNCHANGED <<dkind, sync, result, dstoppc, timer, dtracker, net, bound, toPost, devents,
               told, dhs, dpoller>>
  BY <1>0 DEF D!Start, D!TypeOK
<1>2. D!TypeOK'
  BY <1>0, <1>1 DEF D!TypeOK
<1>3. D!DialLocals'
  BY <1>0, <1>1 DEF D!TypeOK, D!DialLocals, D!DialPollerOk, D!ToldOk
<1>4. D!EventMatches'
  BY <1>0, <1>1 DEF D!TypeOK, D!EventMatches
<1>5. D!ToldOk'
  BY <1>0, <1>1 DEF D!TypeOK, D!ToldOk, D!DialPollerOk
<1>6. D!DialPollerOk'
  BY <1>0, <1>1 DEF D!TypeOK, D!DialLocals, D!DialPollerOk, D!ToldOk, D!PollerIdle
<1>7. D!DialHandshakerOk'
  BY <1>0, <1>1 DEF D!TypeOK, D!DialHandshakerOk, D!DialPollerOk, D!PollerIdle
<1> QED BY <1>2, <1>3, <1>4, <1>5, <1>6, <1>7 DEF D!IInv

\* The socket.
LEMMA OpenDialFlowDInv ==
    ASSUME DialAssumed, D!IInv, D!OpenDialFlow
    PROVE  D!IInv'
<1>0. /\ D!TypeOK /\ D!DialLocals /\ D!EventMatches /\ D!ToldOk
      /\ D!DialPollerOk /\ D!DialHandshakerOk
      /\ D!Hs \in Handshakers /\ D!Hs # None
  BY HsIsOne DEF D!IInv
<1>1. /\ dspc = "open"
      /\ \/ dspc' = (IF dkind = "tcp" THEN "timer" ELSE "connect") /\ bound' = TRUE
         \/ dspc' = "fail" /\ bound' = bound
      /\ UNCHANGED <<dkind, sync, result, dstate, dstoppc, timer, dtracker, net, toPost,
               devents, told, dhs, dpoller>>
  BY <1>0, StartOrder DEF D!OpenDialFlow, D!TypeOK, D!Fails
<1>2. D!TypeOK'
  <2>1. bound' \in BOOLEAN
    BY <1>0, <1>1 DEF D!TypeOK
  <2> QED BY <1>0, <1>1, <2>1 DEF D!TypeOK
<1>3. D!DialLocals'
  BY <1>0, <1>1 DEF D!TypeOK, D!DialLocals, D!DialPollerOk, D!ToldOk
<1>4. D!EventMatches'
  BY <1>0, <1>1 DEF D!TypeOK, D!EventMatches
<1>5. D!ToldOk'
  BY <1>0, <1>1 DEF D!TypeOK, D!ToldOk, D!DialPollerOk, D!DialLocals
<1>6. D!DialPollerOk'
  BY <1>0, <1>1 DEF D!TypeOK, D!DialLocals, D!DialPollerOk, D!ToldOk, D!PollerIdle
<1>7. D!DialHandshakerOk'
  BY <1>0, <1>1 DEF D!TypeOK, D!DialHandshakerOk, D!DialPollerOk, D!PollerIdle
<1> QED BY <1>2, <1>3, <1>4, <1>5, <1>6, <1>7 DEF D!IInv

\* The timer of the connect.
LEMMA StartDialTimerDInv ==
    ASSUME DialAssumed, D!IInv, D!StartDialTimer
    PROVE  D!IInv'
<1>0. /\ D!TypeOK /\ D!DialLocals /\ D!EventMatches /\ D!ToldOk
      /\ D!DialPollerOk /\ D!DialHandshakerOk
      /\ D!Hs \in Handshakers /\ D!Hs # None
  BY HsIsOne DEF D!IInv
<1>1. /\ dspc = "timer"
      /\ \/ dspc' = (IF dkind = "tcp" THEN "connect"
                  ELSE "install") /\ timer' \in {"running", "none"}
         \/ dspc' = "fail" /\ timer' = timer
      /\ UNCHANGED <<dkind, sync, result, dstate, dstoppc, dtracker, net, bound, toPost,
               devents, told, dhs, dpoller>>
  BY <1>0, StartOrder DEF D!StartDialTimer, D!TypeOK, D!Fails
<1>2. D!TypeOK'
  BY <1>0, <1>1 DEF D!TypeOK
<1>3. D!DialLocals'
  BY <1>0, <1>1 DEF D!TypeOK, D!DialLocals, D!DialPollerOk, D!ToldOk
<1>4. D!EventMatches'
  BY <1>0, <1>1 DEF D!TypeOK, D!EventMatches
<1>5. D!ToldOk'
  BY <1>0, <1>1 DEF D!TypeOK, D!ToldOk, D!DialPollerOk
<1>6. D!DialPollerOk'
  BY <1>0, <1>1 DEF D!TypeOK, D!DialLocals, D!DialPollerOk, D!ToldOk, D!PollerIdle
<1>7. D!DialHandshakerOk'
  BY <1>0, <1>1 DEF D!TypeOK, D!DialHandshakerOk, D!DialPollerOk, D!PollerIdle
<1> QED BY <1>2, <1>3, <1>4, <1>5, <1>6, <1>7 DEF D!IInv

\* The connect.
LEMMA PostConnectDInv ==
    ASSUME DialAssumed, D!IInv, D!PostConnect
    PROVE  D!IInv'
<1>0. /\ D!TypeOK /\ D!DialLocals /\ D!EventMatches /\ D!ToldOk
      /\ D!DialPollerOk /\ D!DialHandshakerOk
      /\ D!Hs \in Handshakers /\ D!Hs # None
  BY HsIsOne DEF D!IInv
<1>1. /\ dspc = "connect"
      /\ \/ dspc' = (IF dkind = "tcp" THEN "install" ELSE "timer") /\ net' = "pending"
         \/ dspc' = "fail" /\ net' = net
      /\ UNCHANGED <<dkind, sync, result, dstate, dstoppc, timer, dtracker, bound, toPost,
               devents, told, dhs, dpoller>>
  BY <1>0, StartOrder DEF D!PostConnect, D!TypeOK, D!Fails
<1>2. D!TypeOK'
  BY <1>0, <1>1 DEF D!TypeOK
<1>3. D!DialLocals'
  BY <1>0, <1>1 DEF D!TypeOK, D!DialLocals, D!DialPollerOk, D!ToldOk
<1>4. D!EventMatches'
  BY <1>0, <1>1 DEF D!TypeOK, D!EventMatches
<1>5. D!ToldOk'
  BY <1>0, <1>1 DEF D!TypeOK, D!ToldOk, D!DialPollerOk, D!DialLocals
<1>6. D!DialPollerOk'
  BY <1>0, <1>1 DEF D!TypeOK, D!DialLocals, D!DialPollerOk, D!ToldOk, D!PollerIdle
<1>7. D!DialHandshakerOk'
  BY <1>0, <1>1 DEF D!TypeOK, D!DialHandshakerOk, D!DialPollerOk, D!PollerIdle
<1> QED BY <1>2, <1>3, <1>4, <1>5, <1>6, <1>7 DEF D!IInv

\* The tracker.
LEMMA InstallDialTrackerDInv ==
    ASSUME DialAssumed, D!IInv, D!InstallDialTracker
    PROVE  D!IInv'
<1>0. /\ D!TypeOK /\ D!DialLocals /\ D!EventMatches /\ D!ToldOk
      /\ D!DialPollerOk /\ D!DialHandshakerOk
      /\ D!Hs \in Handshakers /\ D!Hs # None
  BY HsIsOne DEF D!IInv
<1>1. /\ dspc = "install"
      /\ \/ dspc' = "cas" /\ dtracker' = "armed"
         \/ dspc' = "fail" /\ dtracker' = dtracker
      /\ UNCHANGED <<dkind, sync, result, dstate, dstoppc, timer, net, bound, toPost, devents,
               told, dhs, dpoller>>
  BY <1>0, StartOrder DEF D!InstallDialTracker, D!TypeOK, D!Fails
<1>2. D!TypeOK'
  BY <1>0, <1>1 DEF D!TypeOK
<1>3. D!DialLocals'
  BY <1>0, <1>1 DEF D!TypeOK, D!DialLocals, D!DialPollerOk, D!ToldOk
<1>4. D!EventMatches'
  BY <1>0, <1>1 DEF D!TypeOK, D!EventMatches
<1>5. D!ToldOk'
  BY <1>0, <1>1 DEF D!TypeOK, D!ToldOk, D!DialPollerOk
<1>6. D!DialPollerOk'
  BY <1>0, <1>1 DEF D!TypeOK, D!DialLocals, D!DialPollerOk, D!ToldOk, D!PollerIdle
<1>7. D!DialHandshakerOk'
  BY <1>0, <1>1 DEF D!TypeOK, D!DialHandshakerOk, D!DialPollerOk, D!PollerIdle
<1> QED BY <1>2, <1>3, <1>4, <1>5, <1>6, <1>7 DEF D!IInv

\* start has done its work.
LEMMA StartedDInv ==
    ASSUME DialAssumed, D!IInv, D!Started
    PROVE  D!IInv'
<1>0. /\ D!TypeOK /\ D!DialLocals /\ D!EventMatches /\ D!ToldOk
      /\ D!DialPollerOk /\ D!DialHandshakerOk
      /\ D!Hs \in Handshakers /\ D!Hs # None
  BY HsIsOne DEF D!IInv
<1>1. /\ dspc = "cas"
      /\ \/ dstate = "starting" /\ dstate' = "started" /\ dspc' = "ok"
         \/ dstate # "starting" /\ dstate' = dstate /\ dspc' = "fail"
      /\ UNCHANGED <<dkind, sync, result, dstoppc, timer, dtracker, net, bound, toPost, devents,
               told, dhs, dpoller>>
  BY <1>0 DEF D!Started, D!TypeOK
<1>2. D!TypeOK'
  BY <1>0, <1>1 DEF D!TypeOK
<1>3. D!DialLocals'
  BY <1>0, <1>1 DEF D!TypeOK, D!DialLocals, D!DialPollerOk, D!ToldOk
<1>4. D!EventMatches'
  BY <1>0, <1>1 DEF D!TypeOK, D!EventMatches
<1>5. D!ToldOk'
  BY <1>0, <1>1 DEF D!TypeOK, D!ToldOk, D!DialPollerOk
<1>6. D!DialPollerOk'
  BY <1>0, <1>1 DEF D!TypeOK, D!DialLocals, D!DialPollerOk, D!ToldOk, D!PollerIdle
<1>7. D!DialHandshakerOk'
  BY <1>0, <1>1 DEF D!TypeOK, D!DialHandshakerOk, D!DialPollerOk, D!PollerIdle
<1> QED BY <1>2, <1>3, <1>4, <1>5, <1>6, <1>7 DEF D!IInv

\* start fails.
LEMMA StartFailsDInv ==
    ASSUME DialAssumed, D!IInv, D!StartFails
    PROVE  D!IInv'
<1>0. /\ D!TypeOK /\ D!DialLocals /\ D!EventMatches /\ D!ToldOk
      /\ D!DialPollerOk /\ D!DialHandshakerOk
      /\ D!Hs \in Handshakers /\ D!Hs # None
  BY HsIsOne DEF D!IInv
<1>1. /\ dspc = "fail" /\ dspc' = "failed" /\ timer' \in {"none", "off"}
      /\ dstate' = IF dstate = "starting" THEN "error" ELSE dstate
      /\ UNCHANGED <<dkind, sync, result, dstoppc, dtracker, net, bound, toPost, devents, told,
               dhs, dpoller>>
  BY <1>0 DEF D!StartFails, D!TypeOK, D!Off
<1>2. D!TypeOK'
  BY <1>0, <1>1 DEF D!TypeOK
<1>3. D!DialLocals'
  BY <1>0, <1>1 DEF D!TypeOK, D!DialLocals, D!DialPollerOk, D!ToldOk
<1>4. D!EventMatches'
  BY <1>0, <1>1 DEF D!TypeOK, D!EventMatches
<1>5. D!ToldOk'
  BY <1>0, <1>1 DEF D!TypeOK, D!ToldOk, D!DialPollerOk
<1>6. D!DialPollerOk'
  BY <1>0, <1>1 DEF D!TypeOK, D!DialLocals, D!DialPollerOk, D!ToldOk, D!PollerIdle
<1>7. D!DialHandshakerOk'
  BY <1>0, <1>1 DEF D!TypeOK, D!DialHandshakerOk, D!DialPollerOk, D!PollerIdle
<1> QED BY <1>2, <1>3, <1>4, <1>5, <1>6, <1>7 DEF D!IInv

\* stop.
LEMMA StopDInv ==
    ASSUME DialAssumed, D!IInv, D!Stop
    PROVE  D!IInv'
<1>0. /\ D!TypeOK /\ D!DialLocals /\ D!EventMatches /\ D!ToldOk
      /\ D!DialPollerOk /\ D!DialHandshakerOk
      /\ D!Hs \in Handshakers /\ D!Hs # None
  BY HsIsOne DEF D!IInv
<1>1. /\ ~sync /\ dstoppc = "idle" /\ dspc # "idle" /\ timer' \in {timer, "none", "off"}
      /\ \/ dstate \in {"started", "handshaking"} /\ dstoppc' = "posting" /\ dstate' = "stopping"
         \/ dstate = "timeouting" /\ dstoppc' = "done" /\ dstate' = "stopping"
         \/ dstoppc' = "done" /\ dstate' = dstate
      /\ UNCHANGED <<dkind, sync, result, dspc, dtracker, net, bound, toPost, devents, told,
               dhs, dpoller>>
  BY <1>0 DEF D!Stop, D!TypeOK, D!Off, D!TcpStoppable, D!TlsStoppable
<1>2. D!TypeOK'
  BY <1>0, <1>1 DEF D!TypeOK
<1>3. D!DialLocals'
  BY <1>0, <1>1 DEF D!TypeOK, D!DialLocals, D!DialPollerOk, D!ToldOk
<1>4. D!EventMatches'
  BY <1>0, <1>1 DEF D!TypeOK, D!EventMatches
<1>5. D!ToldOk'
  BY <1>0, <1>1 DEF D!TypeOK, D!ToldOk, D!DialPollerOk
<1>6. D!DialPollerOk'
  BY <1>0, <1>1 DEF D!TypeOK, D!DialLocals, D!DialPollerOk, D!ToldOk, D!PollerIdle
<1>7. D!DialHandshakerOk'
  BY <1>0, <1>1 DEF D!TypeOK, D!DialHandshakerOk, D!DialPollerOk, D!PollerIdle
<1> QED BY <1>2, <1>3, <1>4, <1>5, <1>6, <1>7 DEF D!IInv

\* stop posts its event.
LEMMA StopPostDInv ==
    ASSUME DialAssumed, D!IInv, D!StopPost
    PROVE  D!IInv'
<1>0. /\ D!TypeOK /\ D!DialLocals /\ D!EventMatches /\ D!ToldOk
      /\ D!DialPollerOk /\ D!DialHandshakerOk
      /\ D!Hs \in Handshakers /\ D!Hs # None
  BY HsIsOne DEF D!IInv
<1>1. /\ dstoppc = "posting" /\ dstoppc' = "done" /\ devents' = devents + 1
      /\ UNCHANGED <<dkind, sync, result, dstate, dspc, timer, dtracker, net, bound, toPost,
               told, dhs, dpoller>>
  BY <1>0 DEF D!StopPost, D!TypeOK
<1>2. D!TypeOK'
  BY <1>0, <1>1 DEF D!TypeOK, D!EventMatches
<1>3. D!DialLocals'
  BY <1>0, <1>1 DEF D!TypeOK, D!DialLocals, D!DialPollerOk, D!ToldOk
<1>4. D!EventMatches'
  BY <1>0, <1>1 DEF D!TypeOK, D!EventMatches
<1>5. D!ToldOk'
  BY <1>0, <1>1 DEF D!TypeOK, D!ToldOk, D!DialPollerOk
<1>6. D!DialPollerOk'
  BY <1>0, <1>1 DEF D!TypeOK, D!DialLocals, D!DialPollerOk, D!ToldOk, D!PollerIdle
<1>7. D!DialHandshakerOk'
  BY <1>0, <1>1 DEF D!TypeOK, D!DialHandshakerOk, D!DialPollerOk, D!PollerIdle
<1> QED BY <1>2, <1>3, <1>4, <1>5, <1>6, <1>7 DEF D!IInv

\* The connect takes too long.
LEMMA TcpTimeoutDInv ==
    ASSUME DialAssumed, D!IInv, D!TcpTimeout
    PROVE  D!IInv'
<1>0. /\ D!TypeOK /\ D!DialLocals /\ D!EventMatches /\ D!ToldOk
      /\ D!DialPollerOk /\ D!DialHandshakerOk
      /\ D!Hs \in Handshakers /\ D!Hs # None
  BY HsIsOne DEF D!IInv
<1>1. /\ timer = "running" /\ timer' = "off"
      /\ \/ dstate = "started" /\ dstate' = "timeouting" /\ toPost' = toPost + 1
         \/ dstate # "started" /\ dstate' = dstate /\ toPost' = toPost
      /\ UNCHANGED <<dkind, sync, result, dspc, dstoppc, dtracker, net, bound, devents, told,
               dhs, dpoller>>
  BY <1>0 DEF D!TcpTimeout, D!TypeOK, D!OnTimeout
<1>2. D!TypeOK'
  <2>1. dstate = "started" => toPost = 0 /\ devents = 0
    BY <1>0 DEF D!TypeOK, D!EventMatches
  <2> QED BY <1>0, <1>1, <2>1 DEF D!TypeOK
<1>3. D!DialLocals'
  BY <1>0, <1>1 DEF D!TypeOK, D!DialLocals, D!DialPollerOk, D!ToldOk
<1>4. D!EventMatches'
  <2>1. dstate = "started" => toPost + devents + (IF dstoppc = "posting" THEN 1 ELSE 0) = 0
    BY <1>0 DEF D!EventMatches
  <2>2. toPost \in Nat /\ devents \in Nat
    BY <1>0 DEF D!TypeOK
  <2>3. CASE dstate = "started"
    BY <1>1, <2>1, <2>2, <2>3 DEF D!EventMatches
  <2>4. CASE dstate # "started"
    BY <1>0, <1>1, <2>4 DEF D!EventMatches
  <2> QED BY <2>3, <2>4
<1>5. D!ToldOk'
  BY <1>0, <1>1 DEF D!TypeOK, D!ToldOk, D!DialPollerOk
<1>6. D!DialPollerOk'
  BY <1>0, <1>1 DEF D!TypeOK, D!DialLocals, D!DialPollerOk, D!ToldOk, D!PollerIdle
<1>7. D!DialHandshakerOk'
  BY <1>0, <1>1 DEF D!TypeOK, D!DialHandshakerOk, D!DialPollerOk, D!PollerIdle
<1> QED BY <1>2, <1>3, <1>4, <1>5, <1>6, <1>7 DEF D!IInv

\* The connect takes too long.
LEMMA TlsTimeoutDInv ==
    ASSUME DialAssumed, D!IInv, D!TlsTimeout
    PROVE  D!IInv'
<1>0. /\ D!TypeOK /\ D!DialLocals /\ D!EventMatches /\ D!ToldOk
      /\ D!DialPollerOk /\ D!DialHandshakerOk
      /\ D!Hs \in Handshakers /\ D!Hs # None
  BY HsIsOne DEF D!IInv
<1>1. /\ timer = "running" /\ timer' = "off"
      /\ \/ dstate = "started" /\ dstate' = "timeouting" /\ toPost' = toPost + 1
         \/ dstate # "started" /\ dstate' = dstate /\ toPost' = toPost
      /\ UNCHANGED <<dkind, sync, result, dspc, dstoppc, dtracker, net, bound, devents, told,
               dhs, dpoller>>
  BY <1>0 DEF D!TlsTimeout, D!TypeOK, D!OnTimeout
<1>2. D!TypeOK'
  <2>1. dstate = "started" => toPost = 0 /\ devents = 0
    BY <1>0 DEF D!TypeOK, D!EventMatches
  <2> QED BY <1>0, <1>1, <2>1 DEF D!TypeOK
<1>3. D!DialLocals'
  BY <1>0, <1>1 DEF D!TypeOK, D!DialLocals, D!DialPollerOk, D!ToldOk
<1>4. D!EventMatches'
  <2>1. dstate = "started" => toPost + devents + (IF dstoppc = "posting" THEN 1 ELSE 0) = 0
    BY <1>0 DEF D!EventMatches
  <2>2. toPost \in Nat /\ devents \in Nat
    BY <1>0 DEF D!TypeOK
  <2>3. CASE dstate = "started"
    BY <1>1, <2>1, <2>2, <2>3 DEF D!EventMatches
  <2>4. CASE dstate # "started"
    BY <1>0, <1>1, <2>4 DEF D!EventMatches
  <2> QED BY <2>3, <2>4
<1>5. D!ToldOk'
  BY <1>0, <1>1 DEF D!TypeOK, D!ToldOk, D!DialPollerOk
<1>6. D!DialPollerOk'
  BY <1>0, <1>1 DEF D!TypeOK, D!DialLocals, D!DialPollerOk, D!ToldOk, D!PollerIdle
<1>7. D!DialHandshakerOk'
  BY <1>0, <1>1 DEF D!TypeOK, D!DialHandshakerOk, D!DialPollerOk, D!PollerIdle
<1> QED BY <1>2, <1>3, <1>4, <1>5, <1>6, <1>7 DEF D!IInv

\* The timeout posts its event.
LEMMA TimeoutPostDInv ==
    ASSUME DialAssumed, D!IInv, D!TimeoutPost
    PROVE  D!IInv'
<1>0. /\ D!TypeOK /\ D!DialLocals /\ D!EventMatches /\ D!ToldOk
      /\ D!DialPollerOk /\ D!DialHandshakerOk
      /\ D!Hs \in Handshakers /\ D!Hs # None
  BY HsIsOne DEF D!IInv
<1>1. /\ toPost > 0 /\ toPost' = toPost - 1 /\ devents' = devents + 1
      /\ UNCHANGED <<dkind, sync, result, dstate, dspc, dstoppc, timer, dtracker, net, bound,
               told, dhs, dpoller>>
  BY <1>0 DEF D!TimeoutPost, D!TypeOK
<1>2. D!TypeOK'
  BY <1>0, <1>1 DEF D!TypeOK, D!EventMatches
<1>3. D!DialLocals'
  BY <1>0, <1>1 DEF D!TypeOK, D!DialLocals, D!DialPollerOk, D!ToldOk
<1>4. D!EventMatches'
  BY <1>0, <1>1 DEF D!TypeOK, D!EventMatches
<1>5. D!ToldOk'
  BY <1>0, <1>1 DEF D!TypeOK, D!ToldOk, D!DialPollerOk
<1>6. D!DialPollerOk'
  BY <1>0, <1>1 DEF D!TypeOK, D!DialLocals, D!DialPollerOk, D!ToldOk, D!PollerIdle
<1>7. D!DialHandshakerOk'
  BY <1>0, <1>1 DEF D!TypeOK, D!DialHandshakerOk, D!DialPollerOk, D!PollerIdle
<1> QED BY <1>2, <1>3, <1>4, <1>5, <1>6, <1>7 DEF D!IInv

\* The connect is answered.
LEMMA NetAnswersDInv ==
    ASSUME DialAssumed, D!IInv, D!NetAnswers
    PROVE  D!IInv'
<1>0. /\ D!TypeOK /\ D!DialLocals /\ D!EventMatches /\ D!ToldOk
      /\ D!DialPollerOk /\ D!DialHandshakerOk
      /\ D!Hs \in Handshakers /\ D!Hs # None
  BY HsIsOne DEF D!IInv
<1>1. /\ net = "pending" /\ net' \in {"ok", "refused"}
      /\ UNCHANGED <<dkind, sync, result, dstate, dspc, dstoppc, timer, dtracker, bound, toPost,
               devents, told, dhs, dpoller>>
  BY <1>0 DEF D!NetAnswers, D!TypeOK
<1>2. D!TypeOK'
  BY <1>0, <1>1 DEF D!TypeOK
<1>3. D!DialLocals'
  BY <1>0, <1>1 DEF D!TypeOK, D!DialLocals, D!DialPollerOk, D!ToldOk
<1>4. D!EventMatches'
  BY <1>0, <1>1 DEF D!TypeOK, D!EventMatches
<1>5. D!ToldOk'
  BY <1>0, <1>1 DEF D!TypeOK, D!ToldOk, D!DialPollerOk
<1>6. D!DialPollerOk'
  BY <1>0, <1>1 DEF D!TypeOK, D!DialLocals, D!DialPollerOk, D!ToldOk, D!PollerIdle
<1>7. D!DialHandshakerOk'
  BY <1>0, <1>1 DEF D!TypeOK, D!DialHandshakerOk, D!DialPollerOk, D!PollerIdle
<1> QED BY <1>2, <1>3, <1>4, <1>5, <1>6, <1>7 DEF D!IInv

\* on_send_event.
LEMMA SendEventDInv ==
    ASSUME DialAssumed, D!IInv, D!SendEvent
    PROVE  D!IInv'
<1>0. /\ D!TypeOK /\ D!DialLocals /\ D!EventMatches /\ D!ToldOk
      /\ D!DialPollerOk /\ D!DialHandshakerOk
      /\ D!Hs \in Handshakers /\ D!Hs # None
  BY HsIsOne DEF D!IInv
<1>1. /\ dpoller = D!PollerIdle /\ dtracker = "armed" /\ net \in {"ok", "refused"}
      /\ timer' \in {"none", "off"} /\ dtracker' = "gone"
      /\ dpoller' = [obj |-> None, at |-> "connect"]
      /\ UNCHANGED <<dkind, sync, result, dstate, dspc, dstoppc, net, bound, toPost, devents,
               told, dhs>>
  BY <1>0 DEF D!SendEvent, D!TypeOK, D!Off, D!PollerAt
<1>2. D!TypeOK'
  BY <1>0, <1>1 DEF D!TypeOK
<1>3. D!DialLocals'
  BY <1>0, <1>1 DEF D!TypeOK, D!DialLocals, D!DialPollerOk, D!ToldOk
<1>4. D!EventMatches'
  BY <1>0, <1>1 DEF D!TypeOK, D!EventMatches
<1>5. D!ToldOk'
  BY <1>0, <1>1 DEF D!TypeOK, D!ToldOk, D!DialPollerOk
<1>6. D!DialPollerOk'
  BY <1>0, <1>1 DEF D!TypeOK, D!DialLocals, D!DialPollerOk, D!ToldOk, D!PollerIdle
<1>7. D!DialHandshakerOk'
  BY <1>0, <1>1 DEF D!TypeOK, D!DialHandshakerOk, D!DialPollerOk, D!PollerIdle
<1> QED BY <1>2, <1>3, <1>4, <1>5, <1>6, <1>7 DEF D!IInv

\* The end of a tcp dial.
LEMMA TcpConnectedDInv ==
    ASSUME DialAssumed, D!IInv, D!TcpConnected
    PROVE  D!IInv'
<1>0. /\ D!TypeOK /\ D!DialLocals /\ D!EventMatches /\ D!ToldOk
      /\ D!DialPollerOk /\ D!DialHandshakerOk
      /\ D!Hs \in Handshakers /\ D!Hs # None
  BY HsIsOne DEF D!IInv
<1>1. /\ dpoller = [obj |-> None, at |-> "connect"] /\ dkind = "tcp"
      /\ \/ /\ dstate \in {"starting", "started"} /\ net = "ok" /\ dstate' = "finished"
            /\ bound' = FALSE
            /\ dpoller' = [obj |-> None, at |-> "dialed"]
         \/ /\ dstate \in {"starting", "started"} /\ net # "ok" /\ dstate' = "error"
            /\ bound' = TRUE
            /\ dpoller' = [obj |-> None, at |-> "not_dialed"]
         \/ dstate' = dstate /\ bound' = bound /\ dpoller' = D!PollerIdle
      /\ UNCHANGED <<dkind, sync, result, dspc, dstoppc, timer, dtracker, net, toPost, devents,
               told, dhs>>
  BY <1>0 DEF D!TcpConnected, D!TypeOK, D!DialGoes, D!PollerAt
<1>2. D!TypeOK'
  <2>1. bound' \in BOOLEAN
    BY <1>0, <1>1 DEF D!TypeOK
  <2> QED BY <1>0, <1>1, <2>1 DEF D!TypeOK
<1>3. D!DialLocals'
  BY <1>0, <1>1 DEF D!TypeOK, D!DialLocals, D!DialPollerOk, D!ToldOk
<1>4. D!EventMatches'
  BY <1>0, <1>1 DEF D!TypeOK, D!EventMatches
<1>5. D!ToldOk'
  BY <1>0, <1>1 DEF D!TypeOK, D!ToldOk, D!DialPollerOk
<1>6. D!DialPollerOk'
  BY <1>0, <1>1 DEF D!TypeOK, D!DialLocals, D!DialPollerOk, D!ToldOk, D!PollerIdle
<1>7. D!DialHandshakerOk'
  BY <1>0, <1>1 DEF D!TypeOK, D!DialHandshakerOk, D!DialPollerOk, D!PollerIdle
<1> QED BY <1>2, <1>3, <1>4, <1>5, <1>6, <1>7 DEF D!IInv

\* The connect of a tls dial is over.
LEMMA TlsConnectedDInv ==
    ASSUME DialAssumed, D!IInv, D!TlsConnected
    PROVE  D!IInv'
<1>0. /\ D!TypeOK /\ D!DialLocals /\ D!EventMatches /\ D!ToldOk
      /\ D!DialPollerOk /\ D!DialHandshakerOk
      /\ D!Hs \in Handshakers /\ D!Hs # None
  BY HsIsOne DEF D!IInv
<1>1. /\ dpoller = [obj |-> None, at |-> "connect"] /\ dkind = "tls"
      /\ \/ /\ dstate \in {"starting", "started"} /\ net = "ok" /\ dstate' = "handshaking"
            /\ bound' = FALSE
            /\ dpoller' = [obj |-> None, at |-> "handshaker"]
         \/ /\ dstate \in {"starting", "started"} /\ net # "ok" /\ dstate' = "error"
            /\ bound' = TRUE
            /\ dpoller' = [obj |-> None, at |-> "unshaken"]
         \/ dstate' = dstate /\ bound' = bound /\ dpoller' = D!PollerIdle
      /\ UNCHANGED <<dkind, sync, result, dspc, dstoppc, timer, dtracker, net, toPost, devents,
               told, dhs>>
  BY <1>0 DEF D!TlsConnected, D!TypeOK, D!DialGoes, D!PollerAt
<1>2. D!TypeOK'
  <2>1. bound' \in BOOLEAN
    BY <1>0, <1>1 DEF D!TypeOK
  <2> QED BY <1>0, <1>1, <2>1 DEF D!TypeOK
<1>3. D!DialLocals'
  BY <1>0, <1>1 DEF D!TypeOK, D!DialLocals, D!DialPollerOk, D!ToldOk
<1>4. D!EventMatches'
  BY <1>0, <1>1 DEF D!TypeOK, D!EventMatches
<1>5. D!ToldOk'
  BY <1>0, <1>1 DEF D!TypeOK, D!ToldOk, D!DialPollerOk
<1>6. D!DialPollerOk'
  BY <1>0, <1>1 DEF D!TypeOK, D!DialLocals, D!DialPollerOk, D!ToldOk, D!PollerIdle
<1>7. D!DialHandshakerOk'
  BY <1>0, <1>1 DEF D!TypeOK, D!DialHandshakerOk, D!DialPollerOk, D!PollerIdle
<1> QED BY <1>2, <1>3, <1>4, <1>5, <1>6, <1>7 DEF D!IInv

\* The handshake is over.
LEMMA HandshakeOverDInv ==
    ASSUME DialAssumed, D!IInv, D!HandshakeOver
    PROVE  D!IInv'
<1>0. /\ D!TypeOK /\ D!DialLocals /\ D!EventMatches /\ D!ToldOk
      /\ D!DialPollerOk /\ D!DialHandshakerOk
      /\ D!Hs \in Handshakers /\ D!Hs # None
  BY HsIsOne DEF D!IInv
<1>1. /\ dpoller.at \in {"unshaken", "handshaked", "unhandshaked"}
      /\ \/ /\ dstate = "handshaking" /\ dpoller.at = "handshaked" /\ dstate' = "finished"
            /\ dpoller' = [obj |-> None, at |-> "dialed"]
         \/ /\ dstate = "handshaking" /\ dstate' \in {"error", "finished"}
            /\ dpoller' = [obj |-> None, at |-> "not_dialed"]
         \/ dstate' = dstate /\ dpoller' = D!PollerIdle
      /\ UNCHANGED <<dkind, sync, result, dspc, dstoppc, timer, dtracker, net, bound, toPost,
               devents, told, dhs>>
  BY <1>0 DEF D!HandshakeOver, D!TypeOK, D!PollerAt
<1>2. D!TypeOK'
  BY <1>0, <1>1 DEF D!TypeOK
<1>3. D!DialLocals'
  BY <1>0, <1>1 DEF D!TypeOK, D!DialLocals, D!DialPollerOk, D!ToldOk
<1>4. D!EventMatches'
  BY <1>0, <1>1 DEF D!TypeOK, D!EventMatches
<1>5. D!ToldOk'
  BY <1>0, <1>1 DEF D!TypeOK, D!ToldOk, D!DialPollerOk
<1>6. D!DialPollerOk'
  BY <1>0, <1>1 DEF D!TypeOK, D!DialLocals, D!DialPollerOk, D!ToldOk, D!PollerIdle
<1>7. D!DialHandshakerOk'
  BY <1>0, <1>1 DEF D!TypeOK, D!DialHandshakerOk, D!DialPollerOk, D!PollerIdle
<1> QED BY <1>2, <1>3, <1>4, <1>5, <1>6, <1>7 DEF D!IInv

\* dialed_cb.
LEMMA DialedCallbackDInv ==
    ASSUME DialAssumed, D!IInv, D!DialedCallback
    PROVE  D!IInv'
<1>0. /\ D!TypeOK /\ D!DialLocals /\ D!EventMatches /\ D!ToldOk
      /\ D!DialPollerOk /\ D!DialHandshakerOk
      /\ D!Hs \in Handshakers /\ D!Hs # None
  BY HsIsOne DEF D!IInv
<1>1. /\ dpoller.obj = None /\ dpoller.at \in {"dialed", "not_dialed"} /\ told = <<>>
      /\ told' = <<dpoller.at>> /\ dpoller' = D!PollerIdle
      /\ UNCHANGED <<dkind, sync, result, dstate, dspc, dstoppc, timer, dtracker, net, bound,
               toPost, devents, dhs>>
  BY <1>0, TellOnce DEF D!DialedCallback, D!TypeOK, D!DialPollerOk, D!Outcomes
<1>2. D!TypeOK'
  <2>1. told' \in Seq(D!Outcomes)
    <3>1. \A s \in D!Outcomes : <<s>> \in Seq(D!Outcomes)
      OBVIOUS
    <3> QED BY <1>0, <1>1, <3>1 DEF D!TypeOK, D!Outcomes
  <2> QED BY <1>0, <1>1, <2>1 DEF D!TypeOK
<1>3. D!DialLocals'
  BY <1>0, <1>1 DEF D!TypeOK, D!DialLocals, D!DialPollerOk, D!ToldOk
<1>4. D!EventMatches'
  BY <1>0, <1>1 DEF D!TypeOK, D!EventMatches
<1>5. D!ToldOk'
  BY <1>0, <1>1 DEF D!TypeOK, D!ToldOk, D!DialPollerOk
<1>6. D!DialPollerOk'
  BY <1>0, <1>1 DEF D!TypeOK, D!DialLocals, D!DialPollerOk, D!ToldOk, D!PollerIdle
<1>7. D!DialHandshakerOk'
  BY <1>0, <1>1 DEF D!TypeOK, D!DialHandshakerOk, D!DialPollerOk, D!PollerIdle
<1> QED BY <1>2, <1>3, <1>4, <1>5, <1>6, <1>7 DEF D!IInv

\* on_channel_event.
LEMMA ChannelEventDInv ==
    ASSUME DialAssumed, D!IInv, D!ChannelEvent
    PROVE  D!IInv'
<1>0. /\ D!TypeOK /\ D!DialLocals /\ D!EventMatches /\ D!ToldOk
      /\ D!DialPollerOk /\ D!DialHandshakerOk
      /\ D!Hs \in Handshakers /\ D!Hs # None
  BY HsIsOne DEF D!IInv
<1>1. /\ dpoller = D!PollerIdle /\ devents > 0 /\ devents' = devents - 1
      /\ \/ dstate = "timeouting" /\ dstate' = "timeouted" /\ told = <<>> /\ told' = <<"timeouted">>
         \/ dstate = "stopping" /\ dstate' = "stopped" /\ told = <<>> /\ told' = <<"stopped">>
      /\ UNCHANGED <<dkind, sync, result, dspc, dstoppc, timer, dtracker, net, bound, toPost,
               dhs, dpoller>>
  <2>1. devents > 0 => dstate \in {"timeouting", "stopping"}
    BY <1>0 DEF D!TypeOK, D!EventMatches
  <2>2. dstate \in {"timeouting", "stopping"} => told = <<>>
    BY <1>0 DEF D!ToldOk
  <2>3. Append(<<>>, "timeouted") = <<"timeouted">> /\ Append(<<>>, "stopped") = <<"stopped">>
    OBVIOUS
  <2>4. CASE dstate = "timeouting"
    BY <2>2, <2>3, <2>4 DEF D!ChannelEvent
  <2>5. CASE dstate = "stopping"
    BY <2>2, <2>3, <2>5 DEF D!ChannelEvent
  <2> QED BY <2>1, <2>4, <2>5 DEF D!ChannelEvent
<1>2. D!TypeOK'
  <2>1. told' \in Seq(D!Outcomes)
    <3>1. \A s \in D!Outcomes : <<s>> \in Seq(D!Outcomes)
      OBVIOUS
    <3> QED BY <1>0, <1>1, <3>1 DEF D!TypeOK, D!Outcomes
  <2> QED BY <1>0, <1>1, <2>1 DEF D!TypeOK
<1>3. D!DialLocals'
  BY <1>0, <1>1 DEF D!TypeOK, D!DialLocals, D!DialPollerOk, D!ToldOk
<1>4. D!EventMatches'
  BY <1>0, <1>1 DEF D!TypeOK, D!EventMatches
<1>5. D!ToldOk'
  BY <1>0, <1>1 DEF D!TypeOK, D!ToldOk, D!DialPollerOk
<1>6. D!DialPollerOk'
  BY <1>0, <1>1 DEF D!TypeOK, D!DialLocals, D!DialPollerOk, D!ToldOk, D!PollerIdle
<1>7. D!DialHandshakerOk'
  BY <1>0, <1>1 DEF D!TypeOK, D!DialHandshakerOk, D!DialPollerOk, D!PollerIdle
<1> QED BY <1>2, <1>3, <1>4, <1>5, <1>6, <1>7 DEF D!IInv

\* The synchronous dial returns.
LEMMA DialReturnsDInv ==
    ASSUME DialAssumed, D!IInv, D!DialReturns
    PROVE  D!IInv'
<1>0. /\ D!TypeOK /\ D!DialLocals /\ D!EventMatches /\ D!ToldOk
      /\ D!DialPollerOk /\ D!DialHandshakerOk
      /\ D!Hs \in Handshakers /\ D!Hs # None
  BY HsIsOne DEF D!IInv
<1>1. /\ result' \in {"null", "transport"}
      /\ UNCHANGED <<dkind, sync, dstate, dspc, dstoppc, timer, dtracker, net, bound, toPost,
               devents, told, dhs, dpoller>>
  BY <1>0 DEF D!DialReturns, D!TypeOK, D!Promise
<1>2. D!TypeOK'
  BY <1>0, <1>1 DEF D!TypeOK
<1>3. D!DialLocals'
  BY <1>0, <1>1 DEF D!TypeOK, D!DialLocals, D!DialPollerOk, D!ToldOk
<1>4. D!EventMatches'
  BY <1>0, <1>1 DEF D!TypeOK, D!EventMatches
<1>5. D!ToldOk'
  BY <1>0, <1>1 DEF D!TypeOK, D!ToldOk, D!DialPollerOk
<1>6. D!DialPollerOk'
  BY <1>0, <1>1 DEF D!TypeOK, D!DialLocals, D!DialPollerOk, D!ToldOk, D!PollerIdle
<1>7. D!DialHandshakerOk'
  BY <1>0, <1>1 DEF D!TypeOK, D!DialHandshakerOk, D!DialPollerOk, D!PollerIdle
<1> QED BY <1>2, <1>3, <1>4, <1>5, <1>6, <1>7 DEF D!IInv

-----------------------------------------------------------------------------
(* The handshaker of the dialer.                                           *)

\* The fields of a handshaker.
LEMMA DialFields ==
    ASSUME NEW r \in D!HandshakerType
    PROVE  /\ r.toPost \in 0 .. 2 /\ r.events \in 0 .. 2 /\ r.told \in 0 .. 2
           /\ r.state \in {"none", "starting", "started", "finished", "error", "timeouting",
                           "timeouted", "stopping", "stopped"}
           /\ r.start \in {"idle", "flow", "timer", "tracker", "started", "fail", "ok", "failed"}
           /\ r.timer \in {"none", "running", "off"}
           /\ r.tracker \in {"none", "armed", "idle", "gone"}
BY DEF D!HandshakerType

\* One channel event at most is posted, and it is for a timeout.
LEMMA EventOnce ==
    ASSUME D!DialHandshakerOk, dhs[D!Hs] \in D!HandshakerType
    PROVE  /\ dhs[D!Hs].toPost + dhs[D!Hs].events =
                IF dhs[D!Hs].state = "timeouting" /\ dpoller.at \notin
                                        {"finish", "assert_failed"} THEN 1 ELSE 0
           /\ dhs[D!Hs].toPost \in Nat /\ dhs[D!Hs].events \in Nat /\ dhs[D!Hs].told \in 0 .. 1
           /\ dhs[D!Hs].toPost + dhs[D!Hs].events <= 1
           /\ dhs[D!Hs].toPost + dhs[D!Hs].events > 0 => dhs[D!Hs].state = "timeouting"
BY DialFields DEF D!DialHandshakerOk

\* The dialer's share of such a step: nothing.
LEMMA HandshakerMoves ==
    ASSUME DialAssumed, D!IInv, UNCHANGED D!dialVars,
           dhs' \in [Handshakers -> D!HandshakerType],
           dhs'[D!Hs].start # "idle" \/ dpoller' = [obj |-> None, at |-> "unshaken"],
           \/ dhs[D!Hs].start # "idle" /\ (UNCHANGED dpoller \/ dpoller' = D!PollerIdle)
           \/ dtracker = "gone" /\ dpoller' = [obj |-> None, at |-> "hs_start"]
           \/ (dhs[D!Hs].start # "idle" \/ dtracker = "gone")
              /\ dpoller' = [obj |-> None, at |-> "unshaken"]
           \/ dhs[D!Hs].start # "idle"
              /\ \E l \in {"process", "finish", "assert_failed", "handshaked", "unhandshaked"} :
                    dpoller' = [obj |-> D!Hs, at |-> l],
           D!DialHandshakerOk'
    PROVE  D!IInv'
<1>0. /\ D!TypeOK /\ D!DialLocals /\ D!EventMatches /\ D!ToldOk
      /\ D!DialPollerOk /\ D!DialHandshakerOk
      /\ D!Hs \in Handshakers /\ D!Hs # None
  BY HsIsOne DEF D!IInv
<1>1. /\ dtracker = "gone"
      /\ dhs[D!Hs].start # "idle" => dhs[D!Hs] # D!NewHandshaker
  BY <1>0 DEF D!DialPollerOk, D!NewHandshaker
<1>2. D!TypeOK'
  BY <1>0 DEF D!TypeOK, D!dialVars
<1>3. D!DialLocals' /\ D!EventMatches' /\ D!ToldOk'
  BY <1>0 DEF D!DialLocals, D!EventMatches, D!ToldOk, D!dialVars
<1>4. D!DialPollerOk'
  BY <1>0, <1>1 DEF D!DialPollerOk, D!PollerIdle, D!dialVars
<1> QED BY <1>2, <1>3, <1>4 DEF D!IInv

\* The timer worker.
LEMMA HsTimeoutDInv ==
    ASSUME DialAssumed, D!IInv, UNCHANGED D!dialVars, D!HsTimeout(D!Hs)
    PROVE  D!IInv'
<1>0. /\ D!TypeOK /\ D!DialPollerOk /\ D!DialHandshakerOk
      /\ D!Hs \in Handshakers /\ D!Hs # None /\ dhs[D!Hs] \in D!HandshakerType
  BY HsIsOne DEF D!IInv, D!TypeOK
<1>1. /\ dhs' = [dhs EXCEPT ![D!Hs].timer = "off",
                            ![D!Hs].state = IF dhs[D!Hs].state \in {"starting", "started"}
                            THEN "timeouting" ELSE dhs[D!Hs].state,
                            ![D!Hs].toPost = IF dhs[D!Hs].state \in {"starting", "started"}
                            THEN dhs[D!Hs].toPost + 1 ELSE dhs[D!Hs].toPost]
      /\ UNCHANGED dpoller
      /\ dhs[D!Hs].timer = "running"
  BY <1>0 DEF D!HsTimeout, D!TypeOK
<1>2. dhs'[D!Hs] = [dhs[D!Hs] EXCEPT !.timer = "off",
                                     !.state = IF dhs[D!Hs].state \in {"starting", "started"}
                                     THEN "timeouting" ELSE dhs[D!Hs].state,
                                     !.toPost = IF dhs[D!Hs].state \in {"starting", "started"}
                                     THEN dhs[D!Hs].toPost + 1 ELSE dhs[D!Hs].toPost]
  BY <1>0, <1>1 DEF D!TypeOK
<1>f. /\ dhs'[D!Hs].state = IF dhs[D!Hs].state \in {"starting", "started"} THEN "timeouting"
               ELSE dhs[D!Hs].state
      /\ dhs'[D!Hs].start = dhs[D!Hs].start
      /\ dhs'[D!Hs].timer = "off"
      /\ dhs'[D!Hs].tracker = dhs[D!Hs].tracker
      /\ dhs'[D!Hs].toPost = IF dhs[D!Hs].state \in {"starting", "started"}
               THEN dhs[D!Hs].toPost + 1 ELSE dhs[D!Hs].toPost
      /\ dhs'[D!Hs].events = dhs[D!Hs].events
      /\ dhs'[D!Hs].told = dhs[D!Hs].told
  BY ONLY <1>0, <1>2 DEF D!HandshakerType
<1>3. dhs[D!Hs].start # "idle"
  BY <1>0, <1>1 DEF D!DialHandshakerOk, D!DialPollerOk, D!NewHandshaker
<1>6. D!DialHandshakerOk'
  BY <1>0, <1>1, <1>f, <1>3, EventOnce DEF D!DialHandshakerOk, D!DialPollerOk, D!PollerIdle,
     D!NewHandshaker
<1>7. dhs'[D!Hs] \in D!HandshakerType
  <2>1. dhs'[D!Hs].toPost \in 0 .. 2 /\ dhs'[D!Hs].events \in 0 .. 2 /\ dhs'[D!Hs].told \in 0 .. 2
    BY <1>0, <1>1, <1>f, EventOnce, DialFields
  <2>2. /\ dhs'[D!Hs].state \in {"none", "starting", "started", "finished", "error", "timeouting",
                              "timeouted", "stopping", "stopped"}
        /\ dhs'[D!Hs].start \in {"idle", "flow", "timer", "tracker", "started", "fail", "ok",
                              "failed"}
        /\ dhs'[D!Hs].timer \in {"none", "running", "off"}
        /\ dhs'[D!Hs].tracker \in {"none", "armed", "idle", "gone"}
    BY <1>0, <1>1, <1>f, DialFields
  <2> QED BY <1>0, <1>2, <1>f, <2>1, <2>2 DEF D!HandshakerType
<1>8. dhs' \in [Handshakers -> D!HandshakerType]
  BY <1>0, <1>1, <1>7 DEF D!TypeOK
<1> QED BY <1>1, <1>f, <1>3, <1>6, <1>8, HandshakerMoves

\* The channel event is posted.
LEMMA HsPostDInv ==
    ASSUME DialAssumed, D!IInv, UNCHANGED D!dialVars, D!HsPost(D!Hs)
    PROVE  D!IInv'
<1>0. /\ D!TypeOK /\ D!DialPollerOk /\ D!DialHandshakerOk
      /\ D!Hs \in Handshakers /\ D!Hs # None /\ dhs[D!Hs] \in D!HandshakerType
  BY HsIsOne DEF D!IInv, D!TypeOK
<1>1. /\ dhs' = [dhs EXCEPT ![D!Hs].toPost = dhs[D!Hs].toPost - 1,
                            ![D!Hs].events = dhs[D!Hs].events + 1]
      /\ UNCHANGED dpoller
      /\ dhs[D!Hs].toPost = 1 /\ dhs[D!Hs].events = 0 /\ dhs[D!Hs].state = "timeouting"
  <2>1. dhs[D!Hs].toPost \in Nat /\ dhs[D!Hs].events \in Nat /\ dhs[D!Hs].toPost > 0
    BY <1>0, DialFields DEF D!HsPost
  <2>2. /\ dhs[D!Hs].toPost + dhs[D!Hs].events <= 1
        /\ dhs[D!Hs].toPost + dhs[D!Hs].events > 0 => dhs[D!Hs].state = "timeouting"
    BY <1>0 DEF D!DialHandshakerOk
  <2>3. dhs[D!Hs].toPost = 1 /\ dhs[D!Hs].events = 0 /\ dhs[D!Hs].state = "timeouting"
    BY ONLY <2>1, <2>2
  <2> QED BY <1>0, <2>3 DEF D!HsPost
<1>2. dhs'[D!Hs] = [dhs[D!Hs] EXCEPT !.toPost = dhs[D!Hs].toPost - 1,
                                     !.events = dhs[D!Hs].events + 1]
  BY <1>0, <1>1 DEF D!TypeOK
<1>f. /\ dhs'[D!Hs].state = dhs[D!Hs].state
      /\ dhs'[D!Hs].start = dhs[D!Hs].start
      /\ dhs'[D!Hs].timer = dhs[D!Hs].timer
      /\ dhs'[D!Hs].tracker = dhs[D!Hs].tracker
      /\ dhs'[D!Hs].toPost = dhs[D!Hs].toPost - 1
      /\ dhs'[D!Hs].events = dhs[D!Hs].events + 1
      /\ dhs'[D!Hs].told = dhs[D!Hs].told
  BY ONLY <1>0, <1>2 DEF D!HandshakerType
<1>3. dhs[D!Hs].start # "idle"
  BY <1>0, <1>1 DEF D!DialHandshakerOk, D!DialPollerOk, D!NewHandshaker
<1>6. D!DialHandshakerOk'
  BY <1>0, <1>1, <1>f, <1>3, EventOnce DEF D!DialHandshakerOk, D!DialPollerOk, D!PollerIdle,
     D!NewHandshaker
<1>7. dhs'[D!Hs] \in D!HandshakerType
  <2>1. dhs'[D!Hs].toPost \in 0 .. 2 /\ dhs'[D!Hs].events \in 0 .. 2 /\ dhs'[D!Hs].told \in 0 .. 2
    BY <1>0, <1>1, <1>f, EventOnce, DialFields
  <2>2. /\ dhs'[D!Hs].state \in {"none", "starting", "started", "finished", "error", "timeouting",
                              "timeouted", "stopping", "stopped"}
        /\ dhs'[D!Hs].start \in {"idle", "flow", "timer", "tracker", "started", "fail", "ok",
                              "failed"}
        /\ dhs'[D!Hs].timer \in {"none", "running", "off"}
        /\ dhs'[D!Hs].tracker \in {"none", "armed", "idle", "gone"}
    BY <1>0, <1>1, <1>f, DialFields
  <2> QED BY <1>0, <1>2, <1>f, <2>1, <2>2 DEF D!HandshakerType
<1>8. dhs' \in [Handshakers -> D!HandshakerType]
  BY <1>0, <1>1, <1>7 DEF D!TypeOK
<1> QED BY <1>1, <1>f, <1>3, <1>6, <1>8, HandshakerMoves

\* The descriptor is ready.
LEMMA HsIoEventDInv ==
    ASSUME DialAssumed, D!IInv, UNCHANGED D!dialVars, D!HsIoEvent(D!Hs)
    PROVE  D!IInv'
<1>0. /\ D!TypeOK /\ D!DialPollerOk /\ D!DialHandshakerOk
      /\ D!Hs \in Handshakers /\ D!Hs # None /\ dhs[D!Hs] \in D!HandshakerType
  BY HsIsOne DEF D!IInv, D!TypeOK
<1>1. /\ dhs' = [dhs EXCEPT ![D!Hs].tracker = "idle"]
      /\ dpoller = D!PollerIdle /\ dpoller' = [obj |-> D!Hs, at |-> "process"]
      /\ dhs[D!Hs].tracker = "armed"
  BY <1>0 DEF D!HsIoEvent, D!TypeOK, D!PollerAt
<1>2. dhs'[D!Hs] = [dhs[D!Hs] EXCEPT !.tracker = "idle"]
  BY <1>0, <1>1 DEF D!TypeOK
<1>f. /\ dhs'[D!Hs].state = dhs[D!Hs].state
      /\ dhs'[D!Hs].start = dhs[D!Hs].start
      /\ dhs'[D!Hs].timer = dhs[D!Hs].timer
      /\ dhs'[D!Hs].tracker = "idle"
      /\ dhs'[D!Hs].toPost = dhs[D!Hs].toPost
      /\ dhs'[D!Hs].events = dhs[D!Hs].events
      /\ dhs'[D!Hs].told = dhs[D!Hs].told
  BY ONLY <1>0, <1>2 DEF D!HandshakerType
<1>3. dhs[D!Hs].start # "idle"
  BY <1>0, <1>1 DEF D!DialHandshakerOk, D!DialPollerOk, D!NewHandshaker
<1>6. D!DialHandshakerOk'
  BY <1>0, <1>1, <1>f, <1>3, EventOnce DEF D!DialHandshakerOk, D!DialPollerOk, D!PollerIdle,
     D!NewHandshaker
<1>7. dhs'[D!Hs] \in D!HandshakerType
  <2>1. dhs'[D!Hs].toPost \in 0 .. 2 /\ dhs'[D!Hs].events \in 0 .. 2 /\ dhs'[D!Hs].told \in 0 .. 2
    BY <1>0, <1>1, <1>f, EventOnce, DialFields
  <2>2. /\ dhs'[D!Hs].state \in {"none", "starting", "started", "finished", "error", "timeouting",
                              "timeouted", "stopping", "stopped"}
        /\ dhs'[D!Hs].start \in {"idle", "flow", "timer", "tracker", "started", "fail", "ok",
                              "failed"}
        /\ dhs'[D!Hs].timer \in {"none", "running", "off"}
        /\ dhs'[D!Hs].tracker \in {"none", "armed", "idle", "gone"}
    BY <1>0, <1>1, <1>f, DialFields
  <2> QED BY <1>0, <1>2, <1>f, <2>1, <2>2 DEF D!HandshakerType
<1>8. dhs' \in [Handshakers -> D!HandshakerType]
  BY <1>0, <1>1, <1>7 DEF D!TypeOK
<1> QED BY <1>1, <1>f, <1>3, <1>6, <1>8, HandshakerMoves

\* The channel event is handled.
LEMMA HsChannelEventDInv ==
    ASSUME DialAssumed, D!IInv, UNCHANGED D!dialVars, D!HsChannelEvent(D!Hs)
    PROVE  D!IInv'
<1>0. /\ D!TypeOK /\ D!DialPollerOk /\ D!DialHandshakerOk
      /\ D!Hs \in Handshakers /\ D!Hs # None /\ dhs[D!Hs] \in D!HandshakerType
  BY HsIsOne DEF D!IInv, D!TypeOK
<1>1. /\ dhs' = [dhs EXCEPT ![D!Hs].events = dhs[D!Hs].events - 1]
      /\ dpoller = D!PollerIdle /\ dpoller' = [obj |-> D!Hs, at |-> "finish"]
      /\ dhs[D!Hs].events > 0
  BY <1>0 DEF D!HsChannelEvent, D!TypeOK, D!PollerAt
<1>2. dhs'[D!Hs] = [dhs[D!Hs] EXCEPT !.events = dhs[D!Hs].events - 1]
  BY <1>0, <1>1 DEF D!TypeOK
<1>f. /\ dhs'[D!Hs].state = dhs[D!Hs].state
      /\ dhs'[D!Hs].start = dhs[D!Hs].start
      /\ dhs'[D!Hs].timer = dhs[D!Hs].timer
      /\ dhs'[D!Hs].tracker = dhs[D!Hs].tracker
      /\ dhs'[D!Hs].toPost = dhs[D!Hs].toPost
      /\ dhs'[D!Hs].events = dhs[D!Hs].events - 1
      /\ dhs'[D!Hs].told = dhs[D!Hs].told
  BY ONLY <1>0, <1>2 DEF D!HandshakerType
<1>3. dhs[D!Hs].start # "idle"
  BY <1>0, <1>1 DEF D!DialHandshakerOk, D!DialPollerOk, D!NewHandshaker
<1>6. D!DialHandshakerOk'
  BY <1>0, <1>1, <1>f, <1>3, EventOnce DEF D!DialHandshakerOk, D!DialPollerOk, D!PollerIdle,
     D!NewHandshaker
<1>7. dhs'[D!Hs] \in D!HandshakerType
  <2>1. dhs'[D!Hs].toPost \in 0 .. 2 /\ dhs'[D!Hs].events \in 0 .. 2 /\ dhs'[D!Hs].told \in 0 .. 2
    BY <1>0, <1>1, <1>f, EventOnce, DialFields
  <2>2. /\ dhs'[D!Hs].state \in {"none", "starting", "started", "finished", "error", "timeouting",
                              "timeouted", "stopping", "stopped"}
        /\ dhs'[D!Hs].start \in {"idle", "flow", "timer", "tracker", "started", "fail", "ok",
                              "failed"}
        /\ dhs'[D!Hs].timer \in {"none", "running", "off"}
        /\ dhs'[D!Hs].tracker \in {"none", "armed", "idle", "gone"}
    BY <1>0, <1>1, <1>f, DialFields
  <2> QED BY <1>0, <1>2, <1>f, <2>1, <2>2 DEF D!HandshakerType
<1>8. dhs' \in [Handshakers -> D!HandshakerType]
  BY <1>0, <1>1, <1>7 DEF D!TypeOK
<1> QED BY <1>1, <1>f, <1>3, <1>6, <1>8, HandshakerMoves

\* A round of the handshake that waits for more.
LEMMA HsRoundWaitsDInv ==
    ASSUME DialAssumed, D!IInv, UNCHANGED D!dialVars, D!HsRoundWaits(D!Hs)
    PROVE  D!IInv'
<1>0. /\ D!TypeOK /\ D!DialPollerOk /\ D!DialHandshakerOk
      /\ D!Hs \in Handshakers /\ D!Hs # None /\ dhs[D!Hs] \in D!HandshakerType
  BY HsIsOne DEF D!IInv, D!TypeOK
<1>1. /\ dhs' = [dhs EXCEPT ![D!Hs].tracker = "armed"]
      /\ dpoller = [obj |-> D!Hs, at |-> "process"] /\ dpoller' = D!PollerIdle
  BY <1>0 DEF D!HsRoundWaits, D!TypeOK
<1>2. dhs'[D!Hs] = [dhs[D!Hs] EXCEPT !.tracker = "armed"]
  BY <1>0, <1>1 DEF D!TypeOK
<1>f. /\ dhs'[D!Hs].state = dhs[D!Hs].state
      /\ dhs'[D!Hs].start = dhs[D!Hs].start
      /\ dhs'[D!Hs].timer = dhs[D!Hs].timer
      /\ dhs'[D!Hs].tracker = "armed"
      /\ dhs'[D!Hs].toPost = dhs[D!Hs].toPost
      /\ dhs'[D!Hs].events = dhs[D!Hs].events
      /\ dhs'[D!Hs].told = dhs[D!Hs].told
  BY ONLY <1>0, <1>2 DEF D!HandshakerType
<1>3. dhs[D!Hs].start # "idle"
  BY <1>0, <1>1 DEF D!DialHandshakerOk, D!DialPollerOk, D!NewHandshaker
<1>6. D!DialHandshakerOk'
  BY <1>0, <1>1, <1>f, <1>3, EventOnce DEF D!DialHandshakerOk, D!DialPollerOk, D!PollerIdle,
     D!NewHandshaker
<1>7. dhs'[D!Hs] \in D!HandshakerType
  <2>1. dhs'[D!Hs].toPost \in 0 .. 2 /\ dhs'[D!Hs].events \in 0 .. 2 /\ dhs'[D!Hs].told \in 0 .. 2
    BY <1>0, <1>1, <1>f, EventOnce, DialFields
  <2>2. /\ dhs'[D!Hs].state \in {"none", "starting", "started", "finished", "error", "timeouting",
                              "timeouted", "stopping", "stopped"}
        /\ dhs'[D!Hs].start \in {"idle", "flow", "timer", "tracker", "started", "fail", "ok",
                              "failed"}
        /\ dhs'[D!Hs].timer \in {"none", "running", "off"}
        /\ dhs'[D!Hs].tracker \in {"none", "armed", "idle", "gone"}
    BY <1>0, <1>1, <1>f, DialFields
  <2> QED BY <1>0, <1>2, <1>f, <2>1, <2>2 DEF D!HandshakerType
<1>8. dhs' \in [Handshakers -> D!HandshakerType]
  BY <1>0, <1>1, <1>7 DEF D!TypeOK
<1> QED BY <1>1, <1>f, <1>3, <1>6, <1>8, HandshakerMoves

\* The round ends the handshake.
LEMMA HsRoundOverDInv ==
    ASSUME DialAssumed, D!IInv, UNCHANGED D!dialVars, NEW s \in {"finished", "error"},
           dhs[D!Hs].state = "started",
           dpoller = [obj |-> D!Hs, at |-> "process"], dpoller' = [obj |-> D!Hs, at |-> "finish"],
           dhs' = [dhs EXCEPT ![D!Hs].state = s]
    PROVE  D!IInv'
<1>0. /\ D!TypeOK /\ D!DialPollerOk /\ D!DialHandshakerOk
      /\ D!Hs \in Handshakers /\ D!Hs # None /\ dhs[D!Hs] \in D!HandshakerType
  BY HsIsOne DEF D!IInv, D!TypeOK
<1>1. /\ dhs' = [dhs EXCEPT ![D!Hs].state = s]
      /\ dpoller = [obj |-> D!Hs, at |-> "process"] /\ dpoller' = [obj |-> D!Hs, at |-> "finish"]
      /\ dhs[D!Hs].state = "started"
  BY <1>0 DEF D!TypeOK
<1>2. dhs'[D!Hs] = [dhs[D!Hs] EXCEPT !.state = s]
  BY <1>0, <1>1 DEF D!TypeOK
<1>f. /\ dhs'[D!Hs].state = s
      /\ dhs'[D!Hs].start = dhs[D!Hs].start
      /\ dhs'[D!Hs].timer = dhs[D!Hs].timer
      /\ dhs'[D!Hs].tracker = dhs[D!Hs].tracker
      /\ dhs'[D!Hs].toPost = dhs[D!Hs].toPost
      /\ dhs'[D!Hs].events = dhs[D!Hs].events
      /\ dhs'[D!Hs].told = dhs[D!Hs].told
  BY ONLY <1>0, <1>2 DEF D!HandshakerType
<1>3. dhs[D!Hs].start # "idle"
  BY <1>0, <1>1 DEF D!DialHandshakerOk, D!DialPollerOk, D!NewHandshaker
<1>6. D!DialHandshakerOk'
  BY <1>0, <1>1, <1>f, <1>3, EventOnce DEF D!DialHandshakerOk, D!DialPollerOk, D!PollerIdle,
     D!NewHandshaker
<1>7. dhs'[D!Hs] \in D!HandshakerType
  <2>1. dhs'[D!Hs].toPost \in 0 .. 2 /\ dhs'[D!Hs].events \in 0 .. 2 /\ dhs'[D!Hs].told \in 0 .. 2
    BY <1>0, <1>1, <1>f, EventOnce, DialFields
  <2>2. /\ dhs'[D!Hs].state \in {"none", "starting", "started", "finished", "error", "timeouting",
                              "timeouted", "stopping", "stopped"}
        /\ dhs'[D!Hs].start \in {"idle", "flow", "timer", "tracker", "started", "fail", "ok",
                              "failed"}
        /\ dhs'[D!Hs].timer \in {"none", "running", "off"}
        /\ dhs'[D!Hs].tracker \in {"none", "armed", "idle", "gone"}
    BY <1>0, <1>1, <1>f, DialFields
  <2> QED BY <1>0, <1>2, <1>f, <2>1, <2>2 DEF D!HandshakerType
<1>8. dhs' \in [Handshakers -> D!HandshakerType]
  BY <1>0, <1>1, <1>7 DEF D!TypeOK
<1> QED BY <1>1, <1>f, <1>3, <1>6, <1>8, HandshakerMoves

\* The handshake ended before.
LEMMA HsRoundLateDInv ==
    ASSUME DialAssumed, D!IInv, UNCHANGED D!dialVars, UNCHANGED dhs,
           dpoller = [obj |-> D!Hs, at |-> "process"], dpoller' = D!PollerIdle
    PROVE  D!IInv'
<1>0. /\ D!TypeOK /\ D!DialPollerOk /\ D!DialHandshakerOk
      /\ D!Hs \in Handshakers /\ D!Hs # None /\ dhs[D!Hs] \in D!HandshakerType
  BY HsIsOne DEF D!IInv, D!TypeOK
<1>1. /\ dhs' = [dhs EXCEPT ![D!Hs].state = dhs[D!Hs].state]
      /\ dpoller = [obj |-> D!Hs, at |-> "process"] /\ dpoller' = D!PollerIdle
  <2>1. [dhs EXCEPT ![D!Hs].state = dhs[D!Hs].state] = dhs
    BY <1>0 DEF D!TypeOK, D!HandshakerType
  <2> QED BY <2>1
<1>2. dhs'[D!Hs] = [dhs[D!Hs] EXCEPT !.state = dhs[D!Hs].state]
  BY <1>0, <1>1 DEF D!TypeOK
<1>f. /\ dhs'[D!Hs].state = dhs[D!Hs].state
      /\ dhs'[D!Hs].start = dhs[D!Hs].start
      /\ dhs'[D!Hs].timer = dhs[D!Hs].timer
      /\ dhs'[D!Hs].tracker = dhs[D!Hs].tracker
      /\ dhs'[D!Hs].toPost = dhs[D!Hs].toPost
      /\ dhs'[D!Hs].events = dhs[D!Hs].events
      /\ dhs'[D!Hs].told = dhs[D!Hs].told
  BY ONLY <1>0, <1>2 DEF D!HandshakerType
<1>3. dhs[D!Hs].start # "idle"
  BY <1>0, <1>1 DEF D!DialHandshakerOk, D!DialPollerOk, D!NewHandshaker
<1>6. D!DialHandshakerOk'
  BY <1>0, <1>1, <1>f, <1>3, EventOnce DEF D!DialHandshakerOk, D!DialPollerOk, D!PollerIdle,
     D!NewHandshaker
<1>7. dhs'[D!Hs] \in D!HandshakerType
  <2>1. dhs'[D!Hs].toPost \in 0 .. 2 /\ dhs'[D!Hs].events \in 0 .. 2 /\ dhs'[D!Hs].told \in 0 .. 2
    BY <1>0, <1>1, <1>f, EventOnce, DialFields
  <2>2. /\ dhs'[D!Hs].state \in {"none", "starting", "started", "finished", "error", "timeouting",
                              "timeouted", "stopping", "stopped"}
        /\ dhs'[D!Hs].start \in {"idle", "flow", "timer", "tracker", "started", "fail", "ok",
                              "failed"}
        /\ dhs'[D!Hs].timer \in {"none", "running", "off"}
        /\ dhs'[D!Hs].tracker \in {"none", "armed", "idle", "gone"}
    BY <1>0, <1>1, <1>f, DialFields
  <2> QED BY <1>0, <1>2, <1>f, <2>1, <2>2 DEF D!HandshakerType
<1>8. dhs' \in [Handshakers -> D!HandshakerType]
  BY <1>0, <1>1, <1>7 DEF D!TypeOK
<1> QED BY <1>1, <1>f, <1>3, <1>6, <1>8, HandshakerMoves

\* There is no tracker to uninstall.
LEMMA HsAssertFailsDInv ==
    ASSUME DialAssumed, D!IInv, UNCHANGED D!dialVars, UNCHANGED dhs,
           dpoller = [obj |-> D!Hs, at |-> "finish"], dpoller' = [obj |-> D!Hs,
                    at |-> "assert_failed"],
           dhs[D!Hs].tracker = "none"
    PROVE  D!IInv'
<1>0. /\ D!TypeOK /\ D!DialPollerOk /\ D!DialHandshakerOk
      /\ D!Hs \in Handshakers /\ D!Hs # None /\ dhs[D!Hs] \in D!HandshakerType
  BY HsIsOne DEF D!IInv, D!TypeOK
<1>1. /\ dhs' = [dhs EXCEPT ![D!Hs].state = dhs[D!Hs].state]
      /\ dpoller = [obj |-> D!Hs, at |-> "finish"] /\ dpoller' = [obj |-> D!Hs,
               at |-> "assert_failed"]
  <2>1. [dhs EXCEPT ![D!Hs].state = dhs[D!Hs].state] = dhs
    BY <1>0 DEF D!TypeOK, D!HandshakerType
  <2> QED BY <2>1
<1>2. dhs'[D!Hs] = [dhs[D!Hs] EXCEPT !.state = dhs[D!Hs].state]
  BY <1>0, <1>1 DEF D!TypeOK
<1>f. /\ dhs'[D!Hs].state = dhs[D!Hs].state
      /\ dhs'[D!Hs].start = dhs[D!Hs].start
      /\ dhs'[D!Hs].timer = dhs[D!Hs].timer
      /\ dhs'[D!Hs].tracker = dhs[D!Hs].tracker
      /\ dhs'[D!Hs].toPost = dhs[D!Hs].toPost
      /\ dhs'[D!Hs].events = dhs[D!Hs].events
      /\ dhs'[D!Hs].told = dhs[D!Hs].told
  BY ONLY <1>0, <1>2 DEF D!HandshakerType
<1>3. dhs[D!Hs].start # "idle"
  BY <1>0, <1>1 DEF D!DialHandshakerOk, D!DialPollerOk, D!NewHandshaker
<1>6. D!DialHandshakerOk'
  BY <1>0, <1>1, <1>f, <1>3, EventOnce DEF D!DialHandshakerOk, D!DialPollerOk, D!PollerIdle,
     D!NewHandshaker
<1>7. dhs'[D!Hs] \in D!HandshakerType
  <2>1. dhs'[D!Hs].toPost \in 0 .. 2 /\ dhs'[D!Hs].events \in 0 .. 2 /\ dhs'[D!Hs].told \in 0 .. 2
    BY <1>0, <1>1, <1>f, EventOnce, DialFields
  <2>2. /\ dhs'[D!Hs].state \in {"none", "starting", "started", "finished", "error", "timeouting",
                              "timeouted", "stopping", "stopped"}
        /\ dhs'[D!Hs].start \in {"idle", "flow", "timer", "tracker", "started", "fail", "ok",
                              "failed"}
        /\ dhs'[D!Hs].timer \in {"none", "running", "off"}
        /\ dhs'[D!Hs].tracker \in {"none", "armed", "idle", "gone"}
    BY <1>0, <1>1, <1>f, DialFields
  <2> QED BY <1>0, <1>2, <1>f, <2>1, <2>2 DEF D!HandshakerType
<1>8. dhs' \in [Handshakers -> D!HandshakerType]
  BY <1>0, <1>1, <1>7 DEF D!TypeOK
<1> QED BY <1>1, <1>f, <1>3, <1>6, <1>8, HandshakerMoves

\* __handshake_finished: the owner is told, once.
LEMMA HsFinishTellsDInv ==
    ASSUME DialAssumed, D!IInv, UNCHANGED D!dialVars, D!HsFinish(D!Hs), dhs[D!Hs].tracker # "none"
    PROVE  D!IInv'
<1>0. /\ D!TypeOK /\ D!DialPollerOk /\ D!DialHandshakerOk
      /\ D!Hs \in Handshakers /\ D!Hs # None /\ dhs[D!Hs] \in D!HandshakerType
  BY HsIsOne DEF D!IInv, D!TypeOK
<1>1. /\ dhs' = [dhs EXCEPT ![D!Hs].timer = IF dhs[D!Hs].timer = "none" THEN dhs[D!Hs].timer
                            ELSE "off", ![D!Hs].tracker = "gone",
                            ![D!Hs].told = dhs[D!Hs].told + 1,
                            ![D!Hs].state = IF dhs[D!Hs].state = "timeouting" THEN "timeouted"
                            ELSE dhs[D!Hs].state]
      /\ dpoller = [obj |-> D!Hs, at |-> "finish"]
      /\ \/ dhs[D!Hs].state = "finished" /\ dpoller' = [obj |-> D!Hs, at |-> "handshaked"]
         \/ /\ \/ dhs[D!Hs].state = "timeouting"
               \/ dhs[D!Hs].state = "error" /\ dhs[D!Hs].start = "ok"
            /\ dpoller' = [obj |-> D!Hs, at |-> "unhandshaked"]
      /\ dhs[D!Hs].told = 0
  BY <1>0 DEF D!HsFinish, D!PollerAt, D!DialHandshakerOk, D!TypeOK
<1>2. dhs'[D!Hs] = [dhs[D!Hs] EXCEPT !.timer = IF dhs[D!Hs].timer = "none" THEN dhs[D!Hs].timer
                                     ELSE "off", !.tracker = "gone",
                                     !.told = dhs[D!Hs].told + 1,
                                     !.state = IF dhs[D!Hs].state = "timeouting"
                                     THEN "timeouted" ELSE dhs[D!Hs].state]
  BY <1>0, <1>1 DEF D!TypeOK
<1>f. /\ dhs'[D!Hs].state = IF dhs[D!Hs].state = "timeouting" THEN "timeouted"
               ELSE dhs[D!Hs].state
      /\ dhs'[D!Hs].start = dhs[D!Hs].start
      /\ dhs'[D!Hs].timer = IF dhs[D!Hs].timer = "none" THEN dhs[D!Hs].timer ELSE "off"
      /\ dhs'[D!Hs].tracker = "gone"
      /\ dhs'[D!Hs].toPost = dhs[D!Hs].toPost
      /\ dhs'[D!Hs].events = dhs[D!Hs].events
      /\ dhs'[D!Hs].told = dhs[D!Hs].told + 1
  BY ONLY <1>0, <1>2 DEF D!HandshakerType
<1>3. dhs[D!Hs].start # "idle"
  BY <1>0, <1>1 DEF D!DialHandshakerOk, D!DialPollerOk, D!NewHandshaker
<1>6. D!DialHandshakerOk'
  <2>1. /\ dpoller.at = "finish" /\ dpoller'.at # "finish" /\ dpoller'.at # "assert_failed"
        /\ dpoller'.at # "hs_start"
        /\ dhs[D!Hs].start \in {"idle", "ok", "failed"}
        /\ dhs[D!Hs].toPost + dhs[D!Hs].events = 0
    BY <1>0, <1>1, EventOnce DEF D!DialHandshakerOk
  <2>2. /\ dhs'[D!Hs].toPost + dhs'[D!Hs].events = 0 /\ dhs'[D!Hs].told = 1
        /\ dhs'[D!Hs].start = dhs[D!Hs].start /\ dhs'[D!Hs].tracker = "gone"
        /\ \/ dhs'[D!Hs].state = "timeouted"
           \/ dhs'[D!Hs].state \in {"finished", "error"} /\ dhs[D!Hs].start = "ok"
    BY <1>0, <1>1, <1>f, <2>1 DEF D!DialHandshakerOk
  <2> QED BY <1>3, <2>1, <2>2 DEF D!DialHandshakerOk
<1>7. dhs'[D!Hs] \in D!HandshakerType
  <2>1. dhs'[D!Hs].toPost \in 0 .. 2 /\ dhs'[D!Hs].events \in 0 .. 2 /\ dhs'[D!Hs].told \in 0 .. 2
    BY <1>0, <1>1, <1>f, EventOnce, DialFields
  <2>2. /\ dhs'[D!Hs].state \in {"none", "starting", "started", "finished", "error", "timeouting",
                              "timeouted", "stopping", "stopped"}
        /\ dhs'[D!Hs].start \in {"idle", "flow", "timer", "tracker", "started", "fail", "ok",
                              "failed"}
        /\ dhs'[D!Hs].timer \in {"none", "running", "off"}
        /\ dhs'[D!Hs].tracker \in {"none", "armed", "idle", "gone"}
    BY <1>0, <1>1, <1>f, DialFields
  <2> QED BY <1>0, <1>2, <1>f, <2>1, <2>2 DEF D!HandshakerType
<1>8. dhs' \in [Handshakers -> D!HandshakerType]
  BY <1>0, <1>1, <1>7 DEF D!TypeOK
<1> QED BY <1>1, <1>f, <1>3, <1>6, <1>8, HandshakerMoves

(* Its start, in the send poller.                                          *)

\* A step of start that goes on, or fails.
LEMMA HsGoesDInv ==
    ASSUME DialAssumed, D!IInv, UNCHANGED D!dialVars, dpoller = [obj |-> None,
             at |-> "hs_start"], UNCHANGED dpoller,
           NEW l \in {"timer", "fail"}, dhs' = [dhs EXCEPT ![D!Hs].start = l],
           \/ dhs[D!Hs].start = "flow"
           \/ dhs[D!Hs].start \in {"timer", "tracker"} /\ l = "fail"
           \/ dhs[D!Hs].start = "started" /\ l = "fail" /\ dhs[D!Hs].state # "starting"
    PROVE  D!IInv'
<1>0. /\ D!TypeOK /\ D!DialPollerOk /\ D!DialHandshakerOk
      /\ D!Hs \in Handshakers /\ D!Hs # None /\ dhs[D!Hs] \in D!HandshakerType
  BY HsIsOne DEF D!IInv, D!TypeOK
<1>1. /\ dhs' = [dhs EXCEPT ![D!Hs].start = l]
      /\ dpoller = [obj |-> None, at |-> "hs_start"] /\ UNCHANGED dpoller
  BY <1>0 DEF D!TypeOK
<1>2. dhs'[D!Hs] = [dhs[D!Hs] EXCEPT !.start = l]
  BY <1>0, <1>1 DEF D!TypeOK
<1>f. /\ dhs'[D!Hs].state = dhs[D!Hs].state
      /\ dhs'[D!Hs].start = l
      /\ dhs'[D!Hs].timer = dhs[D!Hs].timer
      /\ dhs'[D!Hs].tracker = dhs[D!Hs].tracker
      /\ dhs'[D!Hs].toPost = dhs[D!Hs].toPost
      /\ dhs'[D!Hs].events = dhs[D!Hs].events
      /\ dhs'[D!Hs].told = dhs[D!Hs].told
  BY ONLY <1>0, <1>2 DEF D!HandshakerType
<1>3. dhs[D!Hs].start # "idle"
  BY <1>0, <1>1 DEF D!DialHandshakerOk, D!DialPollerOk, D!NewHandshaker
<1>6. D!DialHandshakerOk'
  BY <1>0, <1>1, <1>f, <1>3, EventOnce DEF D!DialHandshakerOk, D!DialPollerOk, D!PollerIdle,
     D!NewHandshaker
<1>7. dhs'[D!Hs] \in D!HandshakerType
  <2>1. dhs'[D!Hs].toPost \in 0 .. 2 /\ dhs'[D!Hs].events \in 0 .. 2 /\ dhs'[D!Hs].told \in 0 .. 2
    BY <1>0, <1>1, <1>f, EventOnce, DialFields
  <2>2. /\ dhs'[D!Hs].state \in {"none", "starting", "started", "finished", "error", "timeouting",
                              "timeouted", "stopping", "stopped"}
        /\ dhs'[D!Hs].start \in {"idle", "flow", "timer", "tracker", "started", "fail", "ok",
                              "failed"}
        /\ dhs'[D!Hs].timer \in {"none", "running", "off"}
        /\ dhs'[D!Hs].tracker \in {"none", "armed", "idle", "gone"}
    BY <1>0, <1>1, <1>f, DialFields
  <2> QED BY <1>0, <1>2, <1>f, <2>1, <2>2 DEF D!HandshakerType
<1>8. dhs' \in [Handshakers -> D!HandshakerType]
  BY <1>0, <1>1, <1>7 DEF D!TypeOK
<1> QED BY <1>1, <1>f, <1>3, <1>6, <1>8, HandshakerMoves

\* The timer is started.
LEMMA HsTimerStartedDInv ==
    ASSUME DialAssumed, D!IInv, UNCHANGED D!dialVars, dpoller = [obj |-> None,
             at |-> "hs_start"], UNCHANGED dpoller,
           NEW i \in {"running", "none"}, dhs[D!Hs].start = "timer",
           dhs' = [dhs EXCEPT ![D!Hs].start = "tracker", ![D!Hs].timer = i]
    PROVE  D!IInv'
<1>0. /\ D!TypeOK /\ D!DialPollerOk /\ D!DialHandshakerOk
      /\ D!Hs \in Handshakers /\ D!Hs # None /\ dhs[D!Hs] \in D!HandshakerType
  BY HsIsOne DEF D!IInv, D!TypeOK
<1>1. /\ dhs' = [dhs EXCEPT ![D!Hs].start = "tracker", ![D!Hs].timer = i]
      /\ dpoller = [obj |-> None, at |-> "hs_start"] /\ UNCHANGED dpoller
  BY <1>0 DEF D!TypeOK
<1>2. dhs'[D!Hs] = [dhs[D!Hs] EXCEPT !.start = "tracker", !.timer = i]
  BY <1>0, <1>1 DEF D!TypeOK
<1>f. /\ dhs'[D!Hs].state = dhs[D!Hs].state
      /\ dhs'[D!Hs].start = "tracker"
      /\ dhs'[D!Hs].timer = i
      /\ dhs'[D!Hs].tracker = dhs[D!Hs].tracker
      /\ dhs'[D!Hs].toPost = dhs[D!Hs].toPost
      /\ dhs'[D!Hs].events = dhs[D!Hs].events
      /\ dhs'[D!Hs].told = dhs[D!Hs].told
  BY ONLY <1>0, <1>2 DEF D!HandshakerType
<1>3. dhs[D!Hs].start # "idle"
  BY <1>0, <1>1 DEF D!DialHandshakerOk, D!DialPollerOk, D!NewHandshaker
<1>6. D!DialHandshakerOk'
  BY <1>0, <1>1, <1>f, <1>3, EventOnce DEF D!DialHandshakerOk, D!DialPollerOk, D!PollerIdle,
     D!NewHandshaker
<1>7. dhs'[D!Hs] \in D!HandshakerType
  <2>1. dhs'[D!Hs].toPost \in 0 .. 2 /\ dhs'[D!Hs].events \in 0 .. 2 /\ dhs'[D!Hs].told \in 0 .. 2
    BY <1>0, <1>1, <1>f, EventOnce, DialFields
  <2>2. /\ dhs'[D!Hs].state \in {"none", "starting", "started", "finished", "error", "timeouting",
                              "timeouted", "stopping", "stopped"}
        /\ dhs'[D!Hs].start \in {"idle", "flow", "timer", "tracker", "started", "fail", "ok",
                              "failed"}
        /\ dhs'[D!Hs].timer \in {"none", "running", "off"}
        /\ dhs'[D!Hs].tracker \in {"none", "armed", "idle", "gone"}
    BY <1>0, <1>1, <1>f, DialFields
  <2> QED BY <1>0, <1>2, <1>f, <2>1, <2>2 DEF D!HandshakerType
<1>8. dhs' \in [Handshakers -> D!HandshakerType]
  BY <1>0, <1>1, <1>7 DEF D!TypeOK
<1> QED BY <1>1, <1>f, <1>3, <1>6, <1>8, HandshakerMoves

\* The tracker is installed.
LEMMA HsInstalledDInv ==
    ASSUME DialAssumed, D!IInv, UNCHANGED D!dialVars, dpoller = [obj |-> None,
             at |-> "hs_start"], UNCHANGED dpoller,
           dhs[D!Hs].start = "tracker",
           dhs' = [dhs EXCEPT ![D!Hs].start = "started", ![D!Hs].tracker = "armed"]
    PROVE  D!IInv'
<1>0. /\ D!TypeOK /\ D!DialPollerOk /\ D!DialHandshakerOk
      /\ D!Hs \in Handshakers /\ D!Hs # None /\ dhs[D!Hs] \in D!HandshakerType
  BY HsIsOne DEF D!IInv, D!TypeOK
<1>1. /\ dhs' = [dhs EXCEPT ![D!Hs].start = "started", ![D!Hs].tracker = "armed"]
      /\ dpoller = [obj |-> None, at |-> "hs_start"] /\ UNCHANGED dpoller
  BY <1>0 DEF D!TypeOK
<1>2. dhs'[D!Hs] = [dhs[D!Hs] EXCEPT !.start = "started", !.tracker = "armed"]
  BY <1>0, <1>1 DEF D!TypeOK
<1>f. /\ dhs'[D!Hs].state = dhs[D!Hs].state
      /\ dhs'[D!Hs].start = "started"
      /\ dhs'[D!Hs].timer = dhs[D!Hs].timer
      /\ dhs'[D!Hs].tracker = "armed"
      /\ dhs'[D!Hs].toPost = dhs[D!Hs].toPost
      /\ dhs'[D!Hs].events = dhs[D!Hs].events
      /\ dhs'[D!Hs].told = dhs[D!Hs].told
  BY ONLY <1>0, <1>2 DEF D!HandshakerType
<1>3. dhs[D!Hs].start # "idle"
  BY <1>0, <1>1 DEF D!DialHandshakerOk, D!DialPollerOk, D!NewHandshaker
<1>6. D!DialHandshakerOk'
  BY <1>0, <1>1, <1>f, <1>3, EventOnce DEF D!DialHandshakerOk, D!DialPollerOk, D!PollerIdle,
     D!NewHandshaker
<1>7. dhs'[D!Hs] \in D!HandshakerType
  <2>1. dhs'[D!Hs].toPost \in 0 .. 2 /\ dhs'[D!Hs].events \in 0 .. 2 /\ dhs'[D!Hs].told \in 0 .. 2
    BY <1>0, <1>1, <1>f, EventOnce, DialFields
  <2>2. /\ dhs'[D!Hs].state \in {"none", "starting", "started", "finished", "error", "timeouting",
                              "timeouted", "stopping", "stopped"}
        /\ dhs'[D!Hs].start \in {"idle", "flow", "timer", "tracker", "started", "fail", "ok",
                              "failed"}
        /\ dhs'[D!Hs].timer \in {"none", "running", "off"}
        /\ dhs'[D!Hs].tracker \in {"none", "armed", "idle", "gone"}
    BY <1>0, <1>1, <1>f, DialFields
  <2> QED BY <1>0, <1>2, <1>f, <2>1, <2>2 DEF D!HandshakerType
<1>8. dhs' \in [Handshakers -> D!HandshakerType]
  BY <1>0, <1>1, <1>7 DEF D!TypeOK
<1> QED BY <1>1, <1>f, <1>3, <1>6, <1>8, HandshakerMoves

\* start succeeds.
LEMMA HsStartOkDInv ==
    ASSUME DialAssumed, D!IInv, UNCHANGED D!dialVars, dpoller = [obj |-> None,
             at |-> "hs_start"], UNCHANGED dpoller,
           dhs[D!Hs].start = "started", dhs[D!Hs].state = "starting",
           dhs' = [dhs EXCEPT ![D!Hs].state = "started", ![D!Hs].start = "ok"]
    PROVE  D!IInv'
<1>0. /\ D!TypeOK /\ D!DialPollerOk /\ D!DialHandshakerOk
      /\ D!Hs \in Handshakers /\ D!Hs # None /\ dhs[D!Hs] \in D!HandshakerType
  BY HsIsOne DEF D!IInv, D!TypeOK
<1>1. /\ dhs' = [dhs EXCEPT ![D!Hs].state = "started", ![D!Hs].start = "ok"]
      /\ dpoller = [obj |-> None, at |-> "hs_start"] /\ UNCHANGED dpoller
  BY <1>0 DEF D!TypeOK
<1>2. dhs'[D!Hs] = [dhs[D!Hs] EXCEPT !.state = "started", !.start = "ok"]
  BY <1>0, <1>1 DEF D!TypeOK
<1>f. /\ dhs'[D!Hs].state = "started"
      /\ dhs'[D!Hs].start = "ok"
      /\ dhs'[D!Hs].timer = dhs[D!Hs].timer
      /\ dhs'[D!Hs].tracker = dhs[D!Hs].tracker
      /\ dhs'[D!Hs].toPost = dhs[D!Hs].toPost
      /\ dhs'[D!Hs].events = dhs[D!Hs].events
      /\ dhs'[D!Hs].told = dhs[D!Hs].told
  BY ONLY <1>0, <1>2 DEF D!HandshakerType
<1>3. dhs[D!Hs].start # "idle"
  BY <1>0, <1>1 DEF D!DialHandshakerOk, D!DialPollerOk, D!NewHandshaker
<1>6. D!DialHandshakerOk'
  BY <1>0, <1>1, <1>f, <1>3, EventOnce DEF D!DialHandshakerOk, D!DialPollerOk, D!PollerIdle,
     D!NewHandshaker
<1>7. dhs'[D!Hs] \in D!HandshakerType
  <2>1. dhs'[D!Hs].toPost \in 0 .. 2 /\ dhs'[D!Hs].events \in 0 .. 2 /\ dhs'[D!Hs].told \in 0 .. 2
    BY <1>0, <1>1, <1>f, EventOnce, DialFields
  <2>2. /\ dhs'[D!Hs].state \in {"none", "starting", "started", "finished", "error", "timeouting",
                              "timeouted", "stopping", "stopped"}
        /\ dhs'[D!Hs].start \in {"idle", "flow", "timer", "tracker", "started", "fail", "ok",
                              "failed"}
        /\ dhs'[D!Hs].timer \in {"none", "running", "off"}
        /\ dhs'[D!Hs].tracker \in {"none", "armed", "idle", "gone"}
    BY <1>0, <1>1, <1>f, DialFields
  <2> QED BY <1>0, <1>2, <1>f, <2>1, <2>2 DEF D!HandshakerType
<1>8. dhs' \in [Handshakers -> D!HandshakerType]
  BY <1>0, <1>1, <1>7 DEF D!TypeOK
<1> QED BY <1>1, <1>f, <1>3, <1>6, <1>8, HandshakerMoves

\* start fails.
LEMMA HsStartFailsDInv ==
    ASSUME DialAssumed, D!IInv, UNCHANGED D!dialVars, dpoller = [obj |-> None,
             at |-> "hs_start"], UNCHANGED dpoller, D!HsStartFails(D!Hs)
    PROVE  D!IInv'
<1>0. /\ D!TypeOK /\ D!DialPollerOk /\ D!DialHandshakerOk
      /\ D!Hs \in Handshakers /\ D!Hs # None /\ dhs[D!Hs] \in D!HandshakerType
  BY HsIsOne DEF D!IInv, D!TypeOK
<1>1. /\ dhs' = [dhs EXCEPT ![D!Hs].start = "failed",
                            ![D!Hs].state = IF dhs[D!Hs].state = "starting" THEN "error"
                            ELSE dhs[D!Hs].state, ![D!Hs].timer = IF dhs[D!Hs].timer = "none"
                            THEN dhs[D!Hs].timer ELSE "off"]
      /\ dpoller = [obj |-> None, at |-> "hs_start"] /\ UNCHANGED dpoller
      /\ dhs[D!Hs].start = "fail"
  BY <1>0 DEF D!HsStartFails, D!TypeOK
<1>2. dhs'[D!Hs] = [dhs[D!Hs] EXCEPT !.start = "failed",
                                     !.state = IF dhs[D!Hs].state = "starting" THEN "error"
                                     ELSE dhs[D!Hs].state,
                                     !.timer = IF dhs[D!Hs].timer = "none" THEN dhs[D!Hs].timer
                                     ELSE "off"]
  BY <1>0, <1>1 DEF D!TypeOK
<1>f. /\ dhs'[D!Hs].state = IF dhs[D!Hs].state = "starting" THEN "error" ELSE dhs[D!Hs].state
      /\ dhs'[D!Hs].start = "failed"
      /\ dhs'[D!Hs].timer = IF dhs[D!Hs].timer = "none" THEN dhs[D!Hs].timer ELSE "off"
      /\ dhs'[D!Hs].tracker = dhs[D!Hs].tracker
      /\ dhs'[D!Hs].toPost = dhs[D!Hs].toPost
      /\ dhs'[D!Hs].events = dhs[D!Hs].events
      /\ dhs'[D!Hs].told = dhs[D!Hs].told
  BY ONLY <1>0, <1>2 DEF D!HandshakerType
<1>3. dhs[D!Hs].start # "idle"
  BY <1>0, <1>1 DEF D!DialHandshakerOk, D!DialPollerOk, D!NewHandshaker
<1>6. D!DialHandshakerOk'
  BY <1>0, <1>1, <1>f, <1>3, EventOnce DEF D!DialHandshakerOk, D!DialPollerOk, D!PollerIdle,
     D!NewHandshaker
<1>7. dhs'[D!Hs] \in D!HandshakerType
  <2>1. dhs'[D!Hs].toPost \in 0 .. 2 /\ dhs'[D!Hs].events \in 0 .. 2 /\ dhs'[D!Hs].told \in 0 .. 2
    BY <1>0, <1>1, <1>f, EventOnce, DialFields
  <2>2. /\ dhs'[D!Hs].state \in {"none", "starting", "started", "finished", "error", "timeouting",
                              "timeouted", "stopping", "stopped"}
        /\ dhs'[D!Hs].start \in {"idle", "flow", "timer", "tracker", "started", "fail", "ok",
                              "failed"}
        /\ dhs'[D!Hs].timer \in {"none", "running", "off"}
        /\ dhs'[D!Hs].tracker \in {"none", "armed", "idle", "gone"}
    BY <1>0, <1>1, <1>f, DialFields
  <2> QED BY <1>0, <1>2, <1>f, <2>1, <2>2 DEF D!HandshakerType
<1>8. dhs' \in [Handshakers -> D!HandshakerType]
  BY <1>0, <1>1, <1>7 DEF D!TypeOK
<1> QED BY <1>1, <1>f, <1>3, <1>6, <1>8, HandshakerMoves

\* start has returned.
LEMMA HsStartOverDInv ==
    ASSUME DialAssumed, D!IInv, UNCHANGED D!dialVars, UNCHANGED dhs,
           dpoller = [obj |-> None, at |-> "hs_start"], dhs[D!Hs].start \in {"ok", "failed"},
           dpoller' \in {D!PollerIdle, [obj |-> None, at |-> "unshaken"]}
    PROVE  D!IInv'
<1>0. /\ D!TypeOK /\ D!DialPollerOk /\ D!DialHandshakerOk
      /\ D!Hs \in Handshakers /\ D!Hs # None /\ dhs[D!Hs] \in D!HandshakerType
  BY HsIsOne DEF D!IInv, D!TypeOK
<1>1. /\ dhs' = [dhs EXCEPT ![D!Hs].state = dhs[D!Hs].state]
      /\ dpoller = [obj |-> None, at |-> "hs_start"]
      /\ dpoller' = D!PollerIdle \/ dpoller' = [obj |-> None, at |-> "unshaken"]
  <2>1. [dhs EXCEPT ![D!Hs].state = dhs[D!Hs].state] = dhs
    BY <1>0 DEF D!TypeOK, D!HandshakerType
  <2> QED BY <2>1
<1>2. dhs'[D!Hs] = [dhs[D!Hs] EXCEPT !.state = dhs[D!Hs].state]
  BY <1>0, <1>1 DEF D!TypeOK
<1>f. /\ dhs'[D!Hs].state = dhs[D!Hs].state
      /\ dhs'[D!Hs].start = dhs[D!Hs].start
      /\ dhs'[D!Hs].timer = dhs[D!Hs].timer
      /\ dhs'[D!Hs].tracker = dhs[D!Hs].tracker
      /\ dhs'[D!Hs].toPost = dhs[D!Hs].toPost
      /\ dhs'[D!Hs].events = dhs[D!Hs].events
      /\ dhs'[D!Hs].told = dhs[D!Hs].told
  BY ONLY <1>0, <1>2 DEF D!HandshakerType
<1>3. dhs[D!Hs].start # "idle"
  BY <1>0, <1>1 DEF D!DialHandshakerOk, D!DialPollerOk, D!NewHandshaker
<1>6. D!DialHandshakerOk'
  BY <1>0, <1>1, <1>f, <1>3, EventOnce DEF D!DialHandshakerOk, D!DialPollerOk, D!PollerIdle,
     D!NewHandshaker
<1>7. dhs'[D!Hs] \in D!HandshakerType
  <2>1. dhs'[D!Hs].toPost \in 0 .. 2 /\ dhs'[D!Hs].events \in 0 .. 2 /\ dhs'[D!Hs].told \in 0 .. 2
    BY <1>0, <1>1, <1>f, EventOnce, DialFields
  <2>2. /\ dhs'[D!Hs].state \in {"none", "starting", "started", "finished", "error", "timeouting",
                              "timeouted", "stopping", "stopped"}
        /\ dhs'[D!Hs].start \in {"idle", "flow", "timer", "tracker", "started", "fail", "ok",
                              "failed"}
        /\ dhs'[D!Hs].timer \in {"none", "running", "off"}
        /\ dhs'[D!Hs].tracker \in {"none", "armed", "idle", "gone"}
    BY <1>0, <1>1, <1>f, DialFields
  <2> QED BY <1>0, <1>2, <1>f, <2>1, <2>2 DEF D!HandshakerType
<1>8. dhs' \in [Handshakers -> D!HandshakerType]
  BY <1>0, <1>1, <1>7 DEF D!TypeOK
<1> QED BY <1>1, <1>f, <1>3, <1>6, <1>8, HandshakerMoves

\* Every step of the handshaker.
LEMMA HandshakingDInv ==
    ASSUME DialAssumed, D!IInv, D!Handshaking
    PROVE  D!IInv'
<1>1. CASE D!HsRoundEnds(D!Hs) /\ UNCHANGED D!dialVars
  <2>1. CASE dhs[D!Hs].state = "started"
    BY <1>1, <2>1, HsRoundOverDInv DEF D!HsRoundEnds, D!PollerAt
  <2>2. CASE dhs[D!Hs].state # "started"
    BY <1>1, <2>2, HsRoundLateDInv DEF D!HsRoundEnds
  <2> QED BY <2>1, <2>2
<1>2. CASE D!HsFinish(D!Hs) /\ UNCHANGED D!dialVars
  <2>1. CASE dhs[D!Hs].tracker = "none"
    BY <1>2, <2>1, HsAssertFailsDInv DEF D!HsFinish, D!PollerAt
  <2> QED BY <1>2, <2>1, HsFinishTellsDInv
<1> QED BY <1>1, <1>2, HsTimeoutDInv, HsPostDInv, HsIoEventDInv, HsChannelEventDInv,
           HsRoundWaitsDInv DEF D!Handshaking, D!HsPolling, D!HsHandling

\* handshaker_->start.
LEMMA StartDialHandshakerDInv ==
    ASSUME DialAssumed, D!IInv, D!StartDialHandshaker
    PROVE  D!IInv'
<1>0. /\ dpoller = [obj |-> None, at |-> "hs_start"] /\ UNCHANGED D!dialVars
      /\ \/ D!HsStarting(D!Hs)
         \/ /\ UNCHANGED dhs /\ dhs[D!Hs].start \in {"ok", "failed"}
            /\ dpoller' \in {D!PollerIdle, [obj |-> None, at |-> "unshaken"]}
  BY DEF D!StartDialHandshaker, D!PollerAt
<1>1. CASE D!HsFirstRound(D!Hs)
  BY <1>0, <1>1, HsGoesDInv DEF D!HsFirstRound, D!StartGoes
<1>2. CASE D!HsStartTimer(D!Hs)
  BY <1>0, <1>2, HsGoesDInv, HsTimerStartedDInv DEF D!HsStartTimer, D!StartGoes
<1>3. CASE D!HsInstallTracker(D!Hs)
  BY <1>0, <1>3, HsGoesDInv, HsInstalledDInv DEF D!HsInstallTracker, D!StartGoes
<1>4. CASE D!HsStarted(D!Hs)
  BY <1>0, <1>4, HsGoesDInv, HsStartOkDInv DEF D!HsStarted, D!StartGoes
<1>5. CASE D!HsStartFails(D!Hs)
  BY <1>0, <1>5, HsStartFailsDInv DEF D!HsStartFails
<1>6. CASE UNCHANGED dhs /\ dhs[D!Hs].start \in {"ok", "failed"}
           /\ dpoller' \in {D!PollerIdle, [obj |-> None, at |-> "unshaken"]}
  BY <1>0, <1>6, HsStartOverDInv
<1> QED BY <1>0, <1>1, <1>2, <1>3, <1>4, <1>5, <1>6 DEF D!HsStarting

\* The handshaker is created, or it cannot be.
LEMMA NewDialHandshakerDInv ==
    ASSUME DialAssumed, D!IInv, D!NewDialHandshaker
    PROVE  D!IInv'
<1>0. /\ D!TypeOK /\ D!DialPollerOk /\ D!DialHandshakerOk /\ D!Hs \in Handshakers /\ D!Hs # None
      /\ UNCHANGED D!dialVars
  BY HsIsOne DEF D!IInv, D!NewDialHandshaker
<1>1. /\ dpoller = [obj |-> None, at |-> "handshaker"] /\ dtracker = "gone"
      /\ dhs[D!Hs] = D!NewHandshaker /\ dhs[D!Hs] \in D!HandshakerType
  BY <1>0 DEF D!NewDialHandshaker, D!DialPollerOk, D!TypeOK
<1>2. CASE dhs' = [dhs EXCEPT ![D!Hs].state = "starting", ![D!Hs].start = "flow"]
           /\ dpoller' = [obj |-> None, at |-> "hs_start"]
  <2>1. dhs'[D!Hs] = [dhs[D!Hs] EXCEPT !.state = "starting", !.start = "flow"]
    BY <1>0, <1>2 DEF D!TypeOK
  <2>2. dhs'[D!Hs] \in D!HandshakerType
    BY <1>1, <2>1 DEF D!HandshakerType
  <2>3. dhs' \in [Handshakers -> D!HandshakerType]
    BY <1>0, <1>2, <2>2 DEF D!TypeOK
  <2>4. /\ dhs'[D!Hs].state = "starting" /\ dhs'[D!Hs].start = "flow" /\ dhs'[D!Hs].toPost = 0
        /\ dhs'[D!Hs].events = 0 /\ dhs'[D!Hs].told = 0
    BY <1>1, <2>1 DEF D!NewHandshaker
  <2>5. D!DialHandshakerOk'
    BY ONLY <1>2, <2>4 DEF D!DialHandshakerOk
  <2> QED BY <1>0, <1>1, <1>2, <2>3, <2>4, <2>5, HandshakerMoves
<1>3. CASE UNCHANGED dhs /\ dpoller' = [obj |-> None, at |-> "unshaken"]
  <2>1. D!DialHandshakerOk'
    BY <1>0, <1>1, <1>3 DEF D!DialHandshakerOk, D!NewHandshaker
  <2> QED BY <1>0, <1>1, <1>3, <2>1, HandshakerMoves DEF D!TypeOK
<1> QED BY <1>2, <1>3 DEF D!NewDialHandshaker, D!PollerAt

-----------------------------------------------------------------------------
(* Everything together.                                                    *)

\* The dialer as it was created.
LEMMA InitDInv ==
    ASSUME DialAssumed, D!Init
    PROVE  D!IInv
<1>0. D!Hs \in Handshakers /\ D!Hs # None
  BY HsIsOne
<1>1. /\ dhs = [h \in Handshakers |-> D!NewHandshaker] /\ dpoller = D!PollerIdle
      /\ dkind \in {"tcp", "tls"} /\ sync \in BOOLEAN
      /\ dstate = "none" /\ dspc = "idle" /\ dstoppc = "idle"
      /\ timer = "none" /\ dtracker = "none" /\ net = "none" /\ bound = FALSE
      /\ toPost = 0 /\ devents = 0 /\ told = <<>> /\ result = "none"
  BY DEF D!Init, D!HandshakerInit
<1>2. D!NewHandshaker \in D!HandshakerType
  BY DEF D!NewHandshaker, D!HandshakerType
<1>3. D!TypeOK
  <2>1. dhs \in [Handshakers -> D!HandshakerType]
    BY <1>1, <1>2
  <2>2. told \in Seq(D!Outcomes)
    BY <1>1
  <2>3. bound \in BOOLEAN /\ sync \in BOOLEAN
    BY <1>1
  <2>4. /\ dkind \in {"tcp", "tls"} /\ dstate = "none" /\ dspc = "idle" /\ dstoppc = "idle"
        /\ timer = "none" /\ dtracker = "none" /\ net = "none"
        /\ toPost = 0 /\ devents = 0 /\ result = "none"
    BY <1>1
  <2> QED BY ONLY <2>1, <2>2, <2>3, <2>4 DEF D!TypeOK
<1>4. D!DialLocals /\ D!EventMatches /\ D!ToldOk
  BY <1>1 DEF D!DialLocals, D!EventMatches, D!ToldOk
<1>5. D!DialPollerOk
  BY <1>0, <1>1 DEF D!DialPollerOk, D!PollerIdle
<1>6. D!DialHandshakerOk
  BY <1>0, <1>1 DEF D!DialHandshakerOk, D!NewHandshaker, D!PollerIdle
<1> QED BY <1>3, <1>4, <1>5, <1>6 DEF D!IInv

\* Every step.
LEMMA NextDInv ==
    ASSUME DialAssumed, D!IInv, (D!Next \/ UNCHANGED D!vars)
    PROVE  D!IInv'
<1>1. CASE UNCHANGED D!vars
  BY <1>1 DEF D!vars, D!dialVars, D!IInv, D!TypeOK, D!DialLocals, D!EventMatches, D!ToldOk,
     D!DialPollerOk,
     D!DialHandshakerOk
<1>2. CASE D!Next
  BY <1>2, StartDInv, OpenDialFlowDInv, StartDialTimerDInv, PostConnectDInv,
     InstallDialTrackerDInv, StartedDInv, StartFailsDInv, StopDInv, StopPostDInv,
     TcpTimeoutDInv, TlsTimeoutDInv, TimeoutPostDInv, NetAnswersDInv, SendEventDInv,
     TcpConnectedDInv, TlsConnectedDInv, NewDialHandshakerDInv, StartDialHandshakerDInv,
     HandshakeOverDInv, DialedCallbackDInv, ChannelEventDInv, HandshakingDInv, DialReturnsDInv
     DEF D!Next, D!Starting, D!Polling
<1> QED BY <1>1, <1>2

\* What the invariant says of the outcome.
LEMMA InvOneOutcome ==
    ASSUME DialAssumed, D!IInv
    PROVE  D!OneOutcome
<1>0. /\ D!TypeOK /\ D!DialLocals /\ D!EventMatches /\ D!ToldOk
      /\ D!DialPollerOk /\ D!DialHandshakerOk
  BY DEF D!IInv
<1>1. Len(told) <= 1
  <2>1. Len(<<>>) = 0 /\ \A s \in STRING : Len(<<s>>) = 1
    OBVIOUS
  <2>2. /\ Len(<<"dialed">>) = 1 /\ Len(<<"not_dialed">>) = 1
        /\ Len(<<"timeouted">>) = 1 /\ Len(<<"stopped">>) = 1
    OBVIOUS
  <2>3. \/ told = <<>> \/ told = <<"timeouted">> \/ told = <<"stopped">> \/ told = <<"dialed">>
        \/ told = <<"not_dialed">>
    BY <1>0 DEF D!ToldOk
  <2>4. Len(told) = 0 \/ Len(told) = 1
    BY <2>1, <2>2, <2>3
  <2>5. 0 <= 1 /\ 1 <= 1
    OBVIOUS
  <2> QED BY <2>4, <2>5, Zenon
<1>2. dhs[D!Hs].told <= 1
  BY <1>0 DEF D!DialHandshakerOk
<1>3. /\ told = <<"dialed">> => dstate = "finished" /\ net = "ok" /\ ~bound
      /\ told = <<"not_dialed">> => dstate \in {"error", "finished"}
      /\ told = <<"timeouted">> => dstate = "timeouted"
      /\ told = <<"stopped">> => dstate = "stopped" /\ ~sync
      /\ dpoller.at \in {"dialed", "not_dialed"} => told = <<>>
      /\ dstate \in {"starting", "started", "handshaking", "timeouting", "stopping"} => told = <<>>
  BY <1>0 DEF D!ToldOk, D!DialPollerOk, D!DialLocals
<1>4. dstate \in {"timeouting", "stopping"} => D!EventComing
  BY <1>0 DEF D!TypeOK, D!EventMatches, D!EventComing
<1> QED BY <1>1, <1>2, <1>3, <1>4 DEF D!OneOutcome

-----------------------------------------------------------------------------
(* The theorems.                                                           *)

\* A step of the run is one of the acceptor, which may be idle.
LEMMA AcceptorPart ==
    ASSUME [MCNext]_<<part, vars, dialer>>
    PROVE  [Next]_vars
BY DEF MCNext

\* And one of the dialer, which may be idle.
LEMMA DialerPart ==
    ASSUME [MCNext]_<<part, vars, dialer>>
    PROVE  D!Next \/ UNCHANGED D!vars
BY DEF MCNext, D!vars, D!dialVars, dialer

\* The acceptor's table agrees with the handshakes, no connection is handed
\* over twice and a started acceptor goes on accepting, whatever the number of
\* connections, the order of their handshakes and the time of the stop, also
\* when a handshake times out before its tracker is installed (tls_acceptor.cpp,
\* base_acceptor.cpp).
THEOREM AcceptorStaysRight == MCSpec => []AcceptorInv
<1>0. Assumed
  BY AcceptorAssumption DEF Assumed
<1>1. MCInit => IInv
  BY <1>0, InitIInv DEF MCInit
<1>2. IInv /\ [MCNext]_<<part, vars, dialer>> => IInv'
  BY <1>0, NextIInv, AcceptorPart
<1>3. IInv => AcceptorInv
  BY <1>0, InvTableHasHandshakes DEF AcceptorInv
<1> QED BY <1>1, <1>2, <1>3, PTL DEF MCSpec

\* A tls acceptor hands over no connection after stopped_cb, although
\* handshakes succeed after stop (tls_acceptor.cpp: on_handshaked).
THEOREM NothingAcceptedLate == MCSpec => NoLateAccept
<1>0. Assumed
  BY AcceptorAssumption DEF Assumed
<1>1. MCInit => IInv /\ NotLate
  BY <1>0, InitIInv DEF MCInit, Init, NotLate
<1>2. IInv /\ NotLate /\ [MCNext]_<<part, vars, dialer>>
        => (IInv /\ NotLate)' /\ [(kind = "tls" /\ stopped) => accepted' = accepted]_vars
  BY <1>0, NextIInv, NextNotLate, AcceptorPart
<1> QED BY <1>1, <1>2, PTL DEF MCSpec, NoLateAccept

\* The user of a dialer is told of the end of the dial at most once, and of
\* what really ended it; an interrupted dial has its event on the way
\* (tcp_dialer.cpp, tls_dialer.cpp).
THEOREM DialHasOneOutcome == MCSpec => []OneOutcome
<1>0. DialAssumed
  BY AcceptorAssumption DEF DialAssumed
<1>1. MCInit => D!IInv
  BY <1>0, InitDInv DEF MCInit
<1>2. D!IInv /\ [MCNext]_<<part, vars, dialer>> => D!IInv'
  BY <1>0, NextDInv, DialerPart
<1>3. D!IInv => OneOutcome
  BY <1>0, InvOneOutcome DEF OneOutcome
<1> QED BY <1>1, <1>2, <1>3, PTL DEF MCSpec
=============================================================================
