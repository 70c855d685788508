---------------------------- MODULE MCReactor_proofs ----------------------------
(***************************************************************************)
(* Proofs about Timer, for any number of timers and threads: types, the    *)
(* locals of each control state, a pending timer is being handled, stop is *)
(* final, and a timer is on its way to handle_timeout at most once.  The   *)
(* theorems at the end carry this invariant, and those of Poller, over to  *)
(* the specification in which timers or trackers move.                     *)
(***************************************************************************)
EXTENDS MCReactor, FiniteSetTheorems, SequenceTheorems, TLAPS

\* The part of IInv that is inductive without counting entries.
SInv == TypeOK /\ Locals /\ PendingHandled

LEMMA InitSInv == Init => SInv
<1> SUFFICES ASSUME Init PROVE SInv
  OBVIOUS
<1>1. TypeOK
  BY TimerAssumption DEF TimerAssumption, Init, TypeOK, States, Threads
<1>2. Locals
  BY DEF Init, Locals
<1>3. PendingHandled
  BY DEF Init, PendingHandled
<1> QED BY <1>1, <1>2, <1>3 DEF SInv

-----------------------------------------------------------------------------
\* The operations of users' threads and callbacks keep the invariant.
LEMMA UserSInv ==
    ASSUME SInv, NEW u \in Threads, NEW t \in Timers,
           Start(u, t) \/ Stop(u, t) \/ Drop(u, t)
    PROVE  SInv'
<1> USE DEF engineVars, outsideVars, flags, timerVars, obsVars, workVars, userVars
<1>0. TypeOK /\ Locals /\ PendingHandled
  BY DEF SInv
<1>1. CASE Start(u, t)
  <2>1. TypeOK'
    BY <1>0, <1>1 DEF TypeOK, Start, Free, UGoto
  <2>2. Locals'
    BY <1>0, <1>1 DEF TypeOK, Locals, Start, Free, UGoto
  <2>3. PendingHandled'
    BY <1>0, <1>1 DEF PendingHandled, Start
  <2> QED BY <2>1, <2>2, <2>3 DEF SInv
<1>2. CASE Stop(u, t)
  <2>1. TypeOK'
    BY <1>0, <1>2 DEF TypeOK, States, Stop
  <2>2. Locals'
    BY <1>0, <1>2 DEF Locals, Stop
  <2>3. PendingHandled'
    BY <1>0, <1>2 DEF TypeOK, PendingHandled, Stop
  <2> QED BY <2>1, <2>2, <2>3 DEF SInv
<1>3. CASE Drop(u, t)
  <2>1. TypeOK'
    BY <1>0, <1>3 DEF TypeOK, Drop
  <2>2. Locals'
    BY <1>0, <1>3 DEF Locals, Drop
  <2>3. PendingHandled'
    BY <1>0, <1>3 DEF PendingHandled, Drop
  <2> QED BY <2>1, <2>2, <2>3 DEF SInv
<1> QED BY <1>1, <1>2, <1>3

\* A start in progress keeps the invariant.
LEMMA StartSInv ==
    ASSUME SInv, NEW u \in Threads, StartStep(u)
    PROVE  SInv'
<1> USE DEF engineVars, outsideVars, flags, timerVars, obsVars, workVars, userVars
<1>0. TypeOK /\ Locals /\ PendingHandled
  BY DEF SInv
<1>1. CASE StartLoad(u)
  <2>1. TypeOK'
    BY <1>0, <1>1 DEF TypeOK, StartLoad, UGoto, UReturn
  <2>2. Locals'
    BY <1>0, <1>1 DEF TypeOK, Locals, StartLoad, UGoto, UReturn
  <2>3. PendingHandled'
    BY <1>0, <1>1 DEF PendingHandled, StartLoad
  <2> QED BY <2>1, <2>2, <2>3 DEF SInv
<1>2. CASE StartCas(u)
  <2>1. TypeOK'
    BY <1>0, <1>2 DEF TypeOK, Locals, States, StartCas, Cas, UGoto, UReturn
  <2>2. Locals'
    BY <1>0, <1>2 DEF TypeOK, Locals, StartCas, UGoto, UReturn
  <2>3. PendingHandled'
    BY <1>0, <1>2 DEF TypeOK, PendingHandled, StartCas, Cas
  <2> QED BY <2>1, <2>2, <2>3 DEF SInv
<1>3. CASE StartSetEngine(u)
  <2>1. TypeOK'
    BY <1>0, <1>3 DEF TypeOK, Locals, StartSetEngine, UGoto
  <2>2. Locals'
    <3>1. engineSet \subseteq engineSet'
      BY <1>3 DEF StartSetEngine
    <3>2. new' \in Seq(engineSet') /\ triggered' \in Seq(SUBSET engineSet')
      BY <1>0, <1>3, <3>1, SeqMonotonic DEF Locals, StartSetEngine
    <3> QED BY <1>0, <1>3, <3>1, <3>2 DEF TypeOK, Locals, StartSetEngine, UGoto
  <2>3. PendingHandled'
    BY <1>0, <1>3 DEF PendingHandled, StartSetEngine
  <2> QED BY <2>1, <2>2, <2>3 DEF SInv
<1>4. CASE StartEnqueue(u)
  <2>0. utmr[u] \in Timers /\ utmr[u] \in engineSet
    BY <1>0, <1>4 DEF Locals, StartEnqueue
  <2>a. new' \in Seq(Timers) /\ new' \in Seq(engineSet)
    BY <1>0, <1>4, <2>0, AppendProperties DEF TypeOK, Locals, StartEnqueue
  <2>b. /\ upc' \in [Threads -> {"idle", "load", "cas", "engine", "enqueue", "wait"}]
        /\ utmr' \in [Threads -> Timers \cup {None}]
        /\ \A v \in Threads : upc'[v] # "idle" => utmr'[v] \in Timers
        /\ \A v \in Threads : upc'[v] = "enqueue" => utmr'[v] \in engineSet
    BY <1>0, <1>4 DEF TypeOK, Locals, StartEnqueue, UGoto, UReturn
  <2>1. TypeOK'
    BY <1>0, <1>4, <2>a, <2>b DEF TypeOK, StartEnqueue
  <2>2. Locals'
    BY <1>0, <1>4, <2>a, <2>b DEF Locals, StartEnqueue
  <2>3. PendingHandled'
    BY <1>0, <1>4 DEF PendingHandled, StartEnqueue
  <2> QED BY <2>1, <2>2, <2>3 DEF SInv
<1>5. CASE SyncWake(u)
  <2>1. TypeOK'
    BY <1>0, <1>5 DEF TypeOK, Locals, SyncWake, UGoto, UReturn
  <2>2. Locals'
    BY <1>0, <1>5 DEF TypeOK, Locals, SyncWake, UGoto, UReturn
  <2>3. PendingHandled'
    BY <1>0, <1>5 DEF PendingHandled, SyncWake
  <2> QED BY <2>1, <2>2, <2>3 DEF SInv
<1> QED BY <1>1, <1>2, <1>3, <1>4, <1>5 DEF StartStep

-----------------------------------------------------------------------------
\* A timer that leaves new_timers_ for timers_.
LEMMA QueueTimerSInv ==
    ASSUME SInv, QueueTimer, room > 0, opc' = "drain"
    PROVE  SInv'
<1> USE DEF engineVars, outsideVars, flags, timerVars, obsVars, workVars, userVars
<1>0. TypeOK /\ Locals /\ PendingHandled
  BY DEF SInv
<1>1. /\ Head(new) \in Timers /\ Tail(new) \in Seq(Timers)
      /\ Head(new) \in engineSet /\ Tail(new) \in Seq(engineSet)
  BY <1>0, HeadTailProperties DEF TypeOK, Locals, QueueTimer
<1>2. room - 1 \in 0 .. MaxNew
  BY <1>0, TimerAssumption DEF TypeOK, TimerAssumption
<1>3. TypeOK'
  BY <1>0, <1>1, <1>2 DEF TypeOK, QueueTimer
<1>4. Locals'
  BY <1>0, <1>1 DEF Locals, QueueTimer
<1>5. PendingHandled'
  BY <1>0 DEF PendingHandled, QueueTimer
<1> QED BY <1>3, <1>4, <1>5 DEF SInv

\* The observer keeps the invariant.
LEMMA ObserverSInv ==
    ASSUME SInv, ObserverStep
    PROVE  SInv'
<1> USE DEF engineVars, outsideVars, flags, timerVars, obsVars, workVars, userVars
<1>0. TypeOK /\ Locals /\ PendingHandled
  BY DEF SInv
<1>a. MaxNew \in 0 .. MaxNew /\ MaxNew > 0
  BY TimerAssumption DEF TimerAssumption
<1>1. CASE Observe
  <2>1. TypeOK'
    BY <1>0, <1>1, <1>a DEF TypeOK, Observe
  <2>2. Locals'
    BY <1>0, <1>1, <1>a DEF TypeOK, Locals, Observe
  <2>3. PendingHandled'
    BY <1>0, <1>1 DEF PendingHandled, Observe
  <2> QED BY <2>1, <2>2, <2>3 DEF SInv
<1>2. CASE ObserverWait
  <2>1. CASE QueueTimer
    BY <1>0, <1>2, <2>1, QueueTimerSInv DEF Locals, ObserverWait
  <2>2. CASE ~QueueTimer
    <3>1. TypeOK'
      BY <1>0, <1>2, <2>2 DEF TypeOK, ObserverWait
    <3>2. Locals'
      BY <1>0, <1>2, <2>2 DEF Locals, ObserverWait
    <3>3. PendingHandled'
      BY <1>0, <1>2, <2>2 DEF PendingHandled, ObserverWait
    <3> QED BY <3>1, <3>2, <3>3 DEF SInv
  <2> QED BY <2>1, <2>2
<1>3. CASE ObserverDrain
  BY <1>3, QueueTimerSInv DEF ObserverDrain
<1>4. CASE ObserverPost
  <2>0. found \in SUBSET Timers /\ found \in SUBSET engineSet
    BY <1>0 DEF TypeOK, Locals
  <2>a. triggered' \in Seq(SUBSET Timers) /\ triggered' \in Seq(SUBSET engineSet)
    BY <1>0, <1>4, <2>0, AppendProperties DEF TypeOK, Locals, ObserverPost
  <2>1. TypeOK'
    BY <1>0, <1>4, <2>a DEF TypeOK, ObserverPost
  <2>2. Locals'
    BY <1>0, <1>4, <2>a DEF Locals, ObserverPost
  <2>3. PendingHandled'
    BY <1>0, <1>4 DEF PendingHandled, ObserverPost
  <2> QED BY <2>1, <2>2, <2>3 DEF SInv
<1>5. CASE ObserverExit
  <2>1. TypeOK'
    BY <1>0, <1>5 DEF TypeOK, ObserverExit
  <2>2. Locals'
    BY <1>0, <1>5 DEF Locals, ObserverExit
  <2>3. PendingHandled'
    BY <1>0, <1>5 DEF PendingHandled, ObserverExit
  <2> QED BY <2>1, <2>2, <2>3 DEF SInv
<1> QED BY <1>1, <1>2, <1>3, <1>4, <1>5 DEF ObserverStep
-----------------------------------------------------------------------------
\* The worker keeps the invariant while it goes through its lists ...
LEMMA WorkerListSInv ==
    ASSUME SInv,
           \/ WorkerLoop \/ WorkerDequeue \/ WorkerListEnds
           \/ \E t \in Timers : WorkerLock(t)
    PROVE  SInv'
<1> USE DEF engineVars, outsideVars, flags, timerVars, obsVars, workVars, userVars
<1>0. TypeOK /\ Locals /\ PendingHandled
  BY DEF SInv
<1>1. CASE WorkerLoop
  <2>1. TypeOK'
    BY <1>0, <1>1 DEF TypeOK, WorkerLoop
  <2>2. Locals'
    BY <1>0, <1>1 DEF TypeOK, Locals, WorkerLoop
  <2>3. PendingHandled'
    BY <1>0, <1>1 DEF PendingHandled, WorkerLoop
  <2> QED BY <2>1, <2>2, <2>3 DEF SInv
<1>2. CASE WorkerDequeue
  <2>0. /\ triggered # <<>> => /\ Head(triggered) \in SUBSET Timers
                              /\ Tail(triggered) \in Seq(SUBSET Timers)
                              /\ Head(triggered) \in SUBSET engineSet
                              /\ Tail(triggered) \in Seq(SUBSET engineSet)
    BY <1>0, HeadTailProperties DEF TypeOK, Locals
  <2>1. TypeOK'
    BY <1>0, <1>2, <2>0 DEF TypeOK, WorkerDequeue
  <2>2. Locals'
    BY <1>0, <1>2, <2>0 DEF TypeOK, Locals, WorkerDequeue
  <2>3. PendingHandled'
    BY <1>0, <1>2 DEF PendingHandled, WorkerDequeue
  <2> QED BY <2>1, <2>2, <2>3 DEF SInv
<1>3. CASE WorkerListEnds
  <2>1. TypeOK'
    BY <1>0, <1>3 DEF TypeOK, WorkerListEnds
  <2>2. Locals'
    BY <1>0, <1>3 DEF TypeOK, Locals, WorkerListEnds
  <2>3. PendingHandled'
    BY <1>0, <1>3 DEF PendingHandled, WorkerListEnds
  <2> QED BY <2>1, <2>2, <2>3 DEF SInv
<1>4. ASSUME NEW t \in Timers, WorkerLock(t) PROVE SInv'
  <2>1. TypeOK'
    BY <1>0, <1>4 DEF TypeOK, WorkerLock
  <2>2. Locals'
    BY <1>0, <1>4 DEF TypeOK, Locals, WorkerLock
  <2>3. PendingHandled'
    BY <1>0, <1>4 DEF PendingHandled, WorkerLock
  <2> QED BY <2>1, <2>2, <2>3 DEF SInv
<1> QED BY <1>1, <1>2, <1>3, <1>4

\* ... and while it handles a timeout.
LEMMA HandleSInv ==
    ASSUME SInv,
           \/ HandleTimeout \/ HandleFinish
           \/ RestartCheck \/ Restart \/ RestartEnqueue
           \/ CallbackBegins \/ CallbackReturns
    PROVE  SInv'
<1> USE DEF engineVars, outsideVars, flags, timerVars, obsVars, workVars, userVars
<1>0. TypeOK /\ Locals /\ PendingHandled
  BY DEF SInv
<1>1. CASE HandleTimeout
  <2>1. TypeOK'
    BY <1>0, <1>1 DEF TypeOK, HandleTimeout, Cas, WorkerNext, States
  <2>2. Locals'
    BY <1>0, <1>1 DEF TypeOK, Locals, HandleTimeout, WorkerNext
  <2>3. PendingHandled'
    BY <1>0, <1>1 DEF TypeOK, PendingHandled, HandleTimeout, Cas, WorkerNext
  <2> QED BY <2>1, <2>2, <2>3 DEF SInv
<1>2. CASE HandleFinish
  <2>1. TypeOK'
    BY <1>0, <1>2 DEF TypeOK, HandleFinish, Cas, WorkerNext, States
  <2>2. Locals'
    BY <1>0, <1>2 DEF TypeOK, Locals, HandleFinish, WorkerNext
  <2>3. PendingHandled'
    BY <1>0, <1>2 DEF TypeOK, PendingHandled, HandleFinish, Cas, WorkerNext
  <2> QED BY <2>1, <2>2, <2>3 DEF SInv
<1>3. CASE RestartCheck
  <2>1. TypeOK'
    BY <1>0, <1>3 DEF TypeOK, RestartCheck, WorkerNext
  <2>2. Locals'
    BY <1>0, <1>3 DEF TypeOK, Locals, RestartCheck, WorkerNext
  <2>3. PendingHandled'
    BY <1>0, <1>3 DEF TypeOK, PendingHandled, RestartCheck, WorkerNext
  <2> QED BY <2>1, <2>2, <2>3 DEF SInv
<1>4. CASE Restart
  <2>1. TypeOK'
    BY <1>0, <1>4 DEF TypeOK, Restart, Cas, WorkerNext, States
  <2>2. Locals'
    BY <1>0, <1>4 DEF TypeOK, Locals, Restart, WorkerNext
  <2>3. PendingHandled'
    BY <1>0, <1>4 DEF TypeOK, PendingHandled, Restart, Cas, WorkerNext
  <2> QED BY <2>1, <2>2, <2>3 DEF SInv
<1>5. CASE RestartEnqueue
  <2>0. wtmr \in Timers /\ wtmr \in engineSet
    BY <1>0, <1>5, TimerAssumption DEF TimerAssumption, Locals, RestartEnqueue
  <2>a. new' \in Seq(Timers) /\ new' \in Seq(engineSet)
    BY <1>0, <1>5, <2>0, AppendProperties DEF TypeOK, Locals, RestartEnqueue
  <2>1. TypeOK'
    BY <1>0, <1>5, <2>0, <2>a DEF TypeOK, RestartEnqueue
  <2>2. Locals'
    BY <1>0, <1>5, <2>0, <2>a DEF TypeOK, Locals, RestartEnqueue
  <2>3. PendingHandled'
    BY <1>0, <1>5 DEF PendingHandled, RestartEnqueue
  <2> QED BY <2>1, <2>2, <2>3 DEF SInv
<1>6. CASE CallbackReturns
  <2>1. TypeOK'
    BY <1>0, <1>6 DEF TypeOK, CallbackReturns, Locals, WorkerNext
  <2>2. Locals'
    BY <1>0, <1>6 DEF TypeOK, Locals, CallbackReturns, WorkerNext
  <2>3. PendingHandled'
    BY <1>0, <1>6 DEF TypeOK, PendingHandled, CallbackReturns, WorkerNext
  <2> QED BY <2>1, <2>2, <2>3 DEF SInv
<1>7. CASE CallbackBegins
  BY <1>0, <1>7 DEF SInv, TypeOK, Locals, PendingHandled, CallbackBegins
<1> QED BY <1>1, <1>2, <1>3, <1>4, <1>5, <1>6, <1>7

-----------------------------------------------------------------------------
\* Every step keeps the invariant.
LEMMA NextSInv == SInv /\ [Next]_vars => SInv'
<1> SUFFICES ASSUME SInv, [Next]_vars PROVE SInv'
  OBVIOUS
<1>0. TypeOK /\ Locals /\ PendingHandled
  BY DEF SInv
<1>1. CASE ServiceStop \/ EngineStop
  <2>1. TypeOK'
    BY <1>0, <1>1 DEF TypeOK, ServiceStop, EngineStop, timerVars, obsVars, workVars, userVars
  <2>2. Locals'
    BY <1>0, <1>1 DEF Locals, ServiceStop, EngineStop, timerVars, obsVars, workVars, userVars
  <2>3. PendingHandled'
    BY <1>0, <1>1 DEF PendingHandled, ServiceStop, EngineStop, timerVars, workVars
  <2> QED BY <2>1, <2>2, <2>3 DEF SInv
<1>2. CASE \E u \in Threads, t \in Timers : Start(u, t) \/ Stop(u, t) \/ Drop(u, t)
  BY <1>2, UserSInv
<1>3. CASE \E u \in Threads : StartStep(u)
  BY <1>3, StartSInv
<1>4. ASSUME NEW t \in Timers, Expire(t) PROVE SInv'
  <2>1. TypeOK'
    BY <1>0, <1>4 DEF TypeOK, Expire, outsideVars, flags, timerVars, workVars, userVars
  <2>2. Locals'
    BY <1>0, <1>4 DEF Locals, Expire, outsideVars, flags, timerVars, workVars, userVars
  <2>3. PendingHandled'
    BY <1>0, <1>4 DEF PendingHandled, Expire, outsideVars, flags, timerVars, workVars
  <2> QED BY <2>1, <2>2, <2>3 DEF SInv
<1>5. CASE ObserverStep
  BY <1>5, ObserverSInv
<1>6. CASE WorkerStep
  BY <1>6, WorkerListSInv, HandleSInv DEF WorkerStep
<1>7. CASE UNCHANGED vars
  <2> USE DEF vars, flags, timerVars, obsVars, workVars, userVars
  <2>1. TypeOK'
    BY <1>0, <1>7 DEF TypeOK
  <2>2. Locals'
    BY <1>0, <1>7 DEF Locals
  <2>3. PendingHandled'
    BY <1>0, <1>7 DEF PendingHandled
  <2> QED BY <2>1, <2>2, <2>3 DEF SInv
<1> QED BY <1>1, <1>2, <1>3, <1>4, <1>5, <1>6, <1>7 DEF Next

\* Types, locals and the handling of pending timers are right in every
\* reachable state of timers, observer and worker.
THEOREM Invariance == Spec => []SInv
<1> QED BY InitSInv, NextSInv, PTL DEF Spec

\* Type correctness of timers, observer and worker.
THEOREM TypeCorrect == Spec => []TypeOK
<1>1. SInv => TypeOK
  BY DEF SInv
<1> QED BY Invariance, <1>1, PTL

\* is_started() of a pending timer is right: it is being handled, unless the
\* engine was stopped under it.
THEOREM PendingIsHandled == Spec => []PendingHandled
<1>1. SInv => PendingHandled
  BY DEF SInv
<1> QED BY Invariance, <1>1, PTL

\* Every step respects a stop.
LEMMA StepStopHolds ==
    ASSUME SInv, Next, NEW t \in Timers, state[t] = "stopped"
    PROVE  state'[t] = "stopped" /\ (Decided(t)' => Decided(t))
<1> USE DEF engineVars, outsideVars, flags, timerVars, obsVars, workVars, userVars
<1>0. TypeOK /\ Locals
  BY DEF SInv
<1>1. CASE ServiceStop \/ EngineStop
  BY <1>1 DEF ServiceStop, EngineStop, Decided
<1>2. CASE \E u \in Threads, s \in Timers : Start(u, s) \/ Stop(u, s) \/ Drop(u, s)
  BY <1>0, <1>2 DEF TypeOK, Start, Stop, Drop, Decided
<1>3. ASSUME NEW u \in Threads, StartStep(u)
      PROVE  state'[t] = "stopped" /\ (Decided(t)' => Decided(t))
  <2>1. CASE StartCas(u)
    BY <1>0, <2>1 DEF TypeOK, StartCas, Cas, Decided
  <2>2. CASE StartLoad(u) \/ StartSetEngine(u) \/ StartEnqueue(u) \/ SyncWake(u)
    BY <2>2 DEF StartLoad, StartSetEngine, StartEnqueue, SyncWake, Decided
  <2> QED BY <1>3, <2>1, <2>2 DEF StartStep
<1>4. CASE \E s \in Timers : Expire(s)
  BY <1>4 DEF Expire, Decided
<1>5. CASE ObserverStep
  BY <1>5 DEF ObserverStep, Observe, ObserverWait, ObserverDrain, QueueTimer,
              ObserverPost, ObserverExit, Decided
<1>6. CASE WorkerStep
  <2>1. CASE HandleTimeout \/ HandleFinish \/ Restart
    BY <1>0, <2>1 DEF TypeOK, HandleTimeout, HandleFinish, Restart, Cas, WorkerNext,
                      Decided
  <2>2. CASE \/ WorkerLoop \/ WorkerDequeue \/ WorkerListEnds
             \/ \E s \in Timers : WorkerLock(s)
             \/ RestartCheck \/ RestartEnqueue
             \/ CallbackBegins \/ CallbackReturns
    BY <2>2 DEF WorkerLoop, WorkerDequeue, WorkerListEnds, WorkerLock, RestartCheck,
                RestartEnqueue, CallbackBegins, CallbackReturns, WorkerNext, Decided
  <2> QED BY <1>6, <2>1, <2>2 DEF WorkerStep
<1> QED BY <1>1, <1>2, <1>3, <1>4, <1>5, <1>6 DEF Next

\* A stopped timer stays stopped, and is not called back any more unless
\* handle_timeout was already past its last look at the state.
THEOREM StopIsFinal == Spec => StopHolds
<1>1. SInv /\ [Next]_vars =>
        [\A t \in Timers : state[t] = "stopped" =>
            state'[t] = "stopped" /\ (Decided(t)' => Decided(t))]_vars
  BY StepStopHolds
<1> QED BY Invariance, <1>1, PTL DEF Spec, StopHolds
-----------------------------------------------------------------------------
(* Counting the ways to handle_timeout.                                    *)

\* How often an element of A occurs in s.
CountIn(s, A) == Cardinality({i \in DOMAIN s : s[i] \in A})

\* The threads that have won the start of t and have not enqueued it.
Starting(t) == {u \in Threads : utmr[u] = t /\ upc[u] \in {"engine", "enqueue"}}

\* The lists that t is in.
ListsOf(t) == {l \in SUBSET Timers : t \in l}

\* A sequence has finitely many places, so that a count is a number.
LEMMA CountFinite ==
    ASSUME NEW S, NEW s \in Seq(S), NEW A
    PROVE  /\ IsFiniteSet({i \in DOMAIN s : s[i] \in A})
           /\ CountIn(s, A) \in Nat
<1>1. DOMAIN s = 1 .. Len(s) /\ Len(s) \in Nat
  OBVIOUS
<1>2. IsFiniteSet(1 .. Len(s))
  BY <1>1, FS_Interval
<1>3. {i \in DOMAIN s : s[i] \in A} \in SUBSET (1 .. Len(s))
  BY <1>1
<1>4. IsFiniteSet({i \in DOMAIN s : s[i] \in A})
  BY <1>2, <1>3, FS_Subset
<1> QED BY <1>4, FS_CardinalityType DEF CountIn

\* An element at the end is counted once more.
LEMMA CountAppend ==
    ASSUME NEW S, NEW s \in Seq(S), NEW x \in S, NEW A
    PROVE  CountIn(Append(s, x), A) = CountIn(s, A) + One(x \in A)
<1> DEFINE I == {i \in DOMAIN s : s[i] \in A}
           J == {i \in DOMAIN Append(s, x) : Append(s, x)[i] \in A}
           n == Len(s) + 1
<1>1. IsFiniteSet(I) /\ Cardinality(I) \in Nat
  BY CountFinite DEF CountIn
<1>2. n \notin I
  OBVIOUS
<1>3. CASE x \in A
  <2>1. J = I \cup {n}
    BY <1>3
  <2>2. Cardinality(J) = Cardinality(I) + 1
    BY <1>1, <1>2, <2>1, FS_AddElement
  <2> QED BY <1>3, <2>2 DEF CountIn, One
<1>4. CASE x \notin A
  <2>1. J = I
    BY <1>4
  <2>2. CountIn(Append(s, x), A) = Cardinality(J) /\ CountIn(s, A) = Cardinality(I)
    BY DEF CountIn
  <2> HIDE DEF I, J
  <2> QED BY <1>1, <1>4, <2>1, <2>2 DEF One
<1> QED BY <1>3, <1>4

\* The first element is counted, and then the rest.
LEMMA CountTail ==
    ASSUME NEW S, NEW s \in Seq(S), s # <<>>, NEW A
    PROVE  CountIn(s, A) = CountIn(Tail(s), A) + One(Head(s) \in A)
<1> DEFINE I == {i \in DOMAIN s : s[i] \in A}
           J == {i \in DOMAIN Tail(s) : Tail(s)[i] \in A}
           K == I \ {1}
           f == [i \in J |-> i + 1]
<1>1. IsFiniteSet(I) /\ Cardinality(I) \in Nat
  BY CountFinite DEF CountIn
<1>2. Tail(s) \in Seq(S) /\ Len(Tail(s)) = Len(s) - 1 /\ Len(s) \in Nat \ {0}
  BY HeadTailProperties
<1>3. \A i \in 1 .. Len(s) - 1 : Tail(s)[i] = s[i + 1]
  BY HeadTailProperties
<1>4. IsFiniteSet(J) /\ Cardinality(J) \in Nat
  BY <1>2, CountFinite DEF CountIn
<1>5. \A i \in J : i \in Nat /\ i + 1 \in K
  BY <1>2, <1>3
<1>6. \A k \in K : k - 1 \in J /\ k = (k - 1) + 1
  BY <1>2, <1>3
<1>7. f \in Bijection(J, K)
  <2>1. f \in [J -> K]
    BY <1>5
  <2>2. \A i, j \in J : f[i] = f[j] => i = j
    BY <1>5
  <2>3. \A k \in K : f[k - 1] = k
    BY <1>6
  <2> QED BY <1>6, <2>1, <2>2, <2>3 DEF Bijection, Injection, Surjection, IsInjective
<1>8. Cardinality(K) = Cardinality(J)
  BY <1>4, <1>7, FS_Bijection DEF ExistsBijection
<1>9. 1 \in I <=> Head(s) \in A
  BY <1>2
<1>a. CountIn(Tail(s), A) = Cardinality(J) /\ CountIn(s, A) = Cardinality(I)
  BY DEF CountIn
<1> HIDE DEF I, J, K
<1>10. CASE Head(s) \in A
  <2>1. Cardinality(K) = Cardinality(I) - 1
    BY <1>1, <1>9, <1>10, FS_RemoveElement DEF K
  <2> QED BY <1>1, <1>4, <1>8, <1>10, <1>a, <2>1 DEF One
<1>11. CASE Head(s) \notin A
  <2>1. Cardinality(K) = Cardinality(I)
    BY <1>1, <1>9, <1>11, FS_RemoveElement DEF K
  <2> QED BY <1>1, <1>4, <1>8, <1>11, <1>a, <2>1 DEF One
<1> QED BY <1>10, <1>11

\* The three counts of Entries.
NStart(t) == Cardinality(Starting(t))
NNew(t) == CountIn(new, {t})
NTrig(t) == CountIn(triggered, ListsOf(t))

\* The counts are numbers, and Entries is their sum.
EntriesSum(t) ==
    /\ NStart(t) \in Nat /\ NNew(t) \in Nat /\ NTrig(t) \in Nat
    /\ Entries(t) = NStart(t) + NNew(t) + NTrig(t)
                  + One(t \in timers) + One(t \in found) + One(t \in wlist)
                  + One(wtmr = t /\ wpc \in {"cas", "enqueue"})

\* The counts are those of Entries, and all of them are numbers.
LEMMA EntriesAreSum == SInv => \A t \in Timers : EntriesSum(t)
<1> SUFFICES ASSUME SInv, NEW t \in Timers PROVE EntriesSum(t)
  OBVIOUS
<1>0. TypeOK
  BY DEF SInv
<1>1. IsFiniteSet(Threads)
  BY TimerAssumption, FS_AddElement DEF TimerAssumption, Threads
<1>2. Starting(t) \in SUBSET Threads
  BY DEF Starting
<1>3. NStart(t) \in Nat
  BY <1>1, <1>2, FS_Subset, FS_CardinalityType DEF NStart
<1>4. NNew(t) \in Nat /\ NTrig(t) \in Nat
  BY <1>0, CountFinite DEF TypeOK, NNew, NTrig
<1>5. {i \in DOMAIN new : new[i] = t} = {i \in DOMAIN new : new[i] \in {t}}
  OBVIOUS
<1>6. \A i \in DOMAIN triggered : triggered[i] \in SUBSET Timers
  BY <1>0 DEF TypeOK
<1>7. {i \in DOMAIN triggered : t \in triggered[i]}
        = {i \in DOMAIN triggered : triggered[i] \in ListsOf(t)}
  BY <1>6 DEF ListsOf
<1> QED BY <1>3, <1>4, <1>5, <1>7
        DEF EntriesSum, Entries, CountIn, Starting, NStart, NNew, NTrig

\* The same of the next state.
LEMMA EntriesAreSumNext == SInv' => \A t \in Timers : EntriesSum(t)'
<1>1. (SInv => \A t \in Timers : EntriesSum(t))'
  BY EntriesAreSum, PTL
<1> QED BY <1>1

\* A thread that goes on is counted for its timer where it stands.
LEMMA StartingChange ==
    ASSUME SInv, NEW t \in Timers, NEW u \in Threads,
           \A v \in Threads \ {u} : upc'[v] = upc[v] /\ utmr'[v] = utmr[v]
    PROVE  NStart(t)' = NStart(t) - One(u \in Starting(t)) + One(u \in Starting(t)')
<1> DEFINE A == Starting(t)
           B == Starting(t)'
<1>1. IsFiniteSet(Threads)
  BY TimerAssumption, FS_AddElement DEF TimerAssumption, Threads
<1>2. A \in SUBSET Threads /\ B \in SUBSET Threads
  BY DEF Starting
<1>3. IsFiniteSet(A) /\ IsFiniteSet(B)
  BY <1>1, <1>2, FS_Subset
<1>4. Cardinality(A) \in Nat /\ Cardinality(B) \in Nat
  BY <1>3, FS_CardinalityType
<1>5. A \ {u} = B \ {u}
  BY DEF Starting
<1>6. NStart(t) = Cardinality(A) /\ NStart(t)' = Cardinality(B)
  BY DEF NStart
<1> HIDE DEF A, B
<1>7. /\ u \in A => Cardinality(A \ {u}) = Cardinality(A) - 1
      /\ u \notin A => Cardinality(A \ {u}) = Cardinality(A)
  BY <1>3, FS_RemoveElement
<1>8. /\ u \in B => Cardinality(B \ {u}) = Cardinality(B) - 1
      /\ u \notin B => Cardinality(B \ {u}) = Cardinality(B)
  BY <1>3, FS_RemoveElement
<1>9. CASE u \in A /\ u \in B
  BY <1>4, <1>5, <1>6, <1>7, <1>8, <1>9 DEF One, A, B
<1>10. CASE u \in A /\ u \notin B
  <2>1. Cardinality(B) = Cardinality(A) - 1
    BY <1>4, <1>5, <1>7, <1>8, <1>10
  <2>2. One(u \in Starting(t)) = 1 /\ One(u \in Starting(t)') = 0
    BY <1>10 DEF One, A, B
  <2> QED BY <1>4, <1>6, <2>1, <2>2
<1>11. CASE u \notin A /\ u \in B
  <2>0. Cardinality(A) = Cardinality(B) - 1
    BY <1>5, <1>7, <1>8, <1>11
  <2>1. Cardinality(B) = Cardinality(A) + 1
    BY <1>4, <2>0
  <2>2. One(u \in Starting(t)) = 0 /\ One(u \in Starting(t)') = 1
    BY <1>11 DEF One, A, B
  <2> QED BY <1>4, <1>6, <2>1, <2>2
<1>12. CASE u \notin A /\ u \notin B
  BY <1>4, <1>5, <1>6, <1>7, <1>8, <1>12 DEF One, A, B
<1> QED BY <1>9, <1>10, <1>11, <1>12

\* A timer that is enqueued is one more in new_timers_.
LEMMA NewAppended ==
    ASSUME SInv, NEW t \in Timers, NEW x \in Timers, new' = Append(new, x)
    PROVE  NNew(t)' = NNew(t) + One(x = t)
<1>1. NNew(t)' = CountIn(Append(new, x), {t})
  BY DEF NNew, CountIn
<1>2. CountIn(Append(new, x), {t}) = CountIn(new, {t}) + One(x \in {t})
  BY CountAppend DEF SInv, TypeOK
<1> QED BY <1>1, <1>2 DEF NNew, One

\* A timer that the observer dequeues was counted in new_timers_.
LEMMA NewTaken ==
    ASSUME SInv, NEW t \in Timers, new # <<>>, new' = Tail(new)
    PROVE  NNew(t) = NNew(t)' + One(Head(new) = t)
<1>1. NNew(t)' = CountIn(Tail(new), {t})
  BY DEF NNew, CountIn
<1>2. CountIn(new, {t}) = CountIn(Tail(new), {t}) + One(Head(new) \in {t})
  BY CountTail DEF SInv, TypeOK
<1> QED BY <1>1, <1>2 DEF NNew, One

\* A list that the observer posts is one more for each timer in it.
LEMMA TriggeredAppended ==
    ASSUME SInv, NEW t \in Timers, NEW l \in SUBSET Timers,
           triggered' = Append(triggered, l)
    PROVE  NTrig(t)' = NTrig(t) + One(t \in l)
<1>1. NTrig(t)' = CountIn(Append(triggered, l), ListsOf(t))
  BY DEF NTrig, CountIn, ListsOf
<1>2. CountIn(Append(triggered, l), ListsOf(t))
        = CountIn(triggered, ListsOf(t)) + One(l \in ListsOf(t))
  BY CountAppend DEF SInv, TypeOK
<1>3. l \in ListsOf(t) <=> t \in l
  BY DEF ListsOf
<1> QED BY <1>1, <1>2, <1>3 DEF NTrig, One

\* A list that the worker dequeues was counted in triggered_timers_.
LEMMA TriggeredTaken ==
    ASSUME SInv, NEW t \in Timers, triggered # <<>>, triggered' = Tail(triggered)
    PROVE  NTrig(t) = NTrig(t)' + One(t \in Head(triggered))
<1>1. NTrig(t)' = CountIn(Tail(triggered), ListsOf(t))
  BY DEF NTrig, CountIn, ListsOf
<1>2. CountIn(triggered, ListsOf(t))
        = CountIn(Tail(triggered), ListsOf(t)) + One(Head(triggered) \in ListsOf(t))
  BY CountTail DEF SInv, TypeOK
<1>3. Head(triggered) \in SUBSET Timers
  BY HeadTailProperties DEF SInv, TypeOK
<1>4. Head(triggered) \in ListsOf(t) <=> t \in Head(triggered)
  BY <1>3 DEF ListsOf
<1> QED BY <1>1, <1>2, <1>4 DEF NTrig, One

-----------------------------------------------------------------------------
(* Every step keeps OneEntry.                                              *)

\* OneEntry for one timer.
EntryOK(t) ==
    /\ Entries(t) <= 1
    /\ state[t] \in {"none", "pending", "finished"} => Entries(t) = 0
    /\ state[t] = "started" /\ t \in held => Entries(t) = 1

\* The worker is about to handle t, or has restarted it and not enqueued it.
AtWork(t) == wtmr = t /\ wpc \in {"cas", "enqueue"}

\* What a step does not touch stays counted.
LEMMA SameCounts ==
    ASSUME NEW t \in Timers
    PROVE  /\ UNCHANGED <<upc, utmr>> => NStart(t)' = NStart(t)
           /\ UNCHANGED new => NNew(t)' = NNew(t)
           /\ UNCHANGED triggered => NTrig(t)' = NTrig(t)
<1>1. UNCHANGED <<upc, utmr>> => NStart(t)' = NStart(t)
  BY DEF NStart, Starting
<1>2. UNCHANGED new => NNew(t)' = NNew(t)
  BY DEF NNew, CountIn
<1>3. UNCHANGED triggered => NTrig(t)' = NTrig(t)
  BY DEF NTrig, CountIn, ListsOf
<1> QED BY <1>1, <1>2, <1>3

\* A step that moves no timer on its way keeps Entries.
LEMMA SameEntries ==
    ASSUME SInv, SInv', NEW t \in Timers,
           NStart(t)' = NStart(t),
           UNCHANGED <<new, triggered, timers, found, wlist>>,
           AtWork(t)' <=> AtWork(t)
    PROVE  Entries(t)' = Entries(t)
<1>1. EntriesSum(t) /\ EntriesSum(t)'
  BY EntriesAreSum, EntriesAreSumNext
<1>2. NNew(t)' = NNew(t) /\ NTrig(t)' = NTrig(t)
  BY SameCounts
<1> QED BY <1>1, <1>2 DEF EntriesSum, AtWork, One

\* A step of a thread that is not counted before or after.
LEMMA NotStarting ==
    ASSUME SInv, SInv', NEW t \in Timers, NEW u \in Threads,
           \A v \in Threads \ {u} : upc'[v] = upc[v] /\ utmr'[v] = utmr[v],
           upc[u] \notin {"engine", "enqueue"},
           upc'[u] \notin {"engine", "enqueue"}
    PROVE  NStart(t)' = NStart(t)
<1>1. u \notin Starting(t) /\ u \notin Starting(t)'
  BY DEF Starting
<1>2. One(u \in Starting(t)) = 0 /\ One(u \in Starting(t)') = 0
  BY <1>1 DEF One
<1>3. NStart(t) \in Nat
  BY EntriesAreSum DEF EntriesSum
<1> QED BY <1>2, <1>3, StartingChange

\* The operations of users' threads and callbacks keep OneEntry.
LEMMA UserOneEntry ==
    ASSUME SInv, SInv', OneEntry, NEW u \in Threads, NEW t \in Timers,
           Start(u, t) \/ Stop(u, t) \/ Drop(u, t)
    PROVE  OneEntry'
<1> SUFFICES ASSUME NEW s \in Timers PROVE EntryOK(s)'
  BY DEF OneEntry, EntryOK
<1> USE DEF engineVars, flags, timerVars, obsVars, workVars, userVars
<1>0. TypeOK /\ EntryOK(s)
  BY DEF SInv, OneEntry, EntryOK
<1>1. CASE Start(u, t)
  <2>1. NStart(s)' = NStart(s)
    BY <1>0, <1>1, NotStarting DEF TypeOK, Start, Free, UGoto
  <2>2. Entries(s)' = Entries(s)
    BY <1>1, <2>1, SameEntries DEF Start, AtWork
  <2> QED BY <1>0, <1>1, <2>2 DEF EntryOK, Start
<1>2. CASE Stop(u, t) \/ Drop(u, t)
  <2>1. NStart(s)' = NStart(s)
    BY <1>2, SameCounts DEF Stop, Drop
  <2>2. Entries(s)' = Entries(s)
    BY <1>2, <2>1, SameEntries DEF Stop, Drop, AtWork
  <2> QED BY <1>0, <1>2, <2>2 DEF TypeOK, EntryOK, Stop, Drop
<1> QED BY <1>1, <1>2

\* A start in progress: the compare-and-set that wins counts the timer, from
\* then on it moves to new_timers_.
LEMMA StartOneEntry ==
    ASSUME SInv, SInv', OneEntry, NEW u \in Threads, StartStep(u)
    PROVE  OneEntry'
<1> SUFFICES ASSUME NEW s \in Timers PROVE EntryOK(s)'
  BY DEF OneEntry, EntryOK
<1> USE DEF engineVars, flags, timerVars, obsVars, workVars, userVars
<1>0. TypeOK /\ EntryOK(s) /\ EntriesSum(s) /\ EntriesSum(s)'
  BY EntriesAreSum, EntriesAreSumNext DEF SInv, OneEntry, EntryOK
<1>1. CASE StartLoad(u) \/ SyncWake(u)
  <2>1. NStart(s)' = NStart(s)
    BY <1>0, <1>1, NotStarting DEF TypeOK, StartLoad, SyncWake, UGoto, UReturn
  <2>2. Entries(s)' = Entries(s)
    BY <1>1, <2>1, SameEntries DEF StartLoad, SyncWake, AtWork
  <2> QED BY <1>0, <1>1, <2>2 DEF EntryOK, StartLoad, SyncWake
<1>2. CASE StartCas(u)
  <2>1. CASE state[utmr[u]] # ust[u] /\ UReturn(u) /\ UNCHANGED state
    <3>1. NStart(s)' = NStart(s)
      BY <1>0, <1>2, <2>1, NotStarting DEF TypeOK, StartCas, UGoto, UReturn
    <3>2. Entries(s)' = Entries(s)
      BY <1>2, <3>1, SameEntries DEF StartCas, AtWork
    <3> QED BY <1>0, <1>2, <2>1, <3>2 DEF EntryOK, StartCas
  <2>2. CASE Cas(utmr[u], ust[u], "started") /\ UGoto(u, "engine") /\ UNCHANGED utmr
    <3>1. u \notin Starting(s) /\ (u \in Starting(s)' <=> s = utmr[u])
      BY <1>0, <1>2, <2>2 DEF TypeOK, StartCas, UGoto, Starting
    <3>2. \A v \in Threads \ {u} : upc'[v] = upc[v] /\ utmr'[v] = utmr[v]
      BY <1>0, <2>2 DEF TypeOK, UGoto
    <3>3. NStart(s)' = NStart(s) - One(u \in Starting(s)) + One(u \in Starting(s)')
      BY <3>2, StartingChange
    <3>4. CASE s = utmr[u]
      <4>1. state[s] \in {"none", "finished"} /\ state'[s] = "started"
        BY <1>0, <2>2, <3>4 DEF TypeOK, Cas
      <4>2. NStart(s)' = NStart(s) + 1
        BY <1>0, <3>1, <3>3, <3>4 DEF One, EntriesSum
      <4>3. NNew(s)' = NNew(s) /\ NTrig(s)' = NTrig(s)
        BY <1>2, SameCounts DEF StartCas
      <4>4. Entries(s) = 0 /\ Entries(s)' = 1
        BY <1>0, <1>2, <4>1, <4>2, <4>3 DEF EntryOK, EntriesSum, StartCas, One
      <4> QED BY <4>1, <4>4 DEF EntryOK
    <3>5. CASE s # utmr[u]
      <4>1. NStart(s)' = NStart(s)
        BY <1>0, <3>1, <3>3, <3>5 DEF One, EntriesSum
      <4>2. Entries(s)' = Entries(s)
        BY <1>2, <4>1, SameEntries DEF StartCas, AtWork
      <4>3. state'[s] = state[s]
        BY <1>0, <2>2, <3>5 DEF TypeOK, Cas
      <4> QED BY <1>0, <1>2, <4>2, <4>3 DEF EntryOK, StartCas
    <3> QED BY <3>4, <3>5
  <2> QED BY <1>2, <2>1, <2>2 DEF StartCas
<1>3. CASE StartSetEngine(u)
  <2>1. Starting(s)' = Starting(s)
    BY <1>0, <1>3 DEF TypeOK, StartSetEngine, UGoto, Starting
  <2>2. Entries(s)' = Entries(s)
    BY <1>3, <2>1, SameEntries DEF StartSetEngine, AtWork, NStart
  <2> QED BY <1>0, <1>3, <2>2 DEF EntryOK, StartSetEngine
<1>4. CASE StartEnqueue(u)
  <2>0. utmr[u] \in Timers
    BY <1>4 DEF SInv, Locals, StartEnqueue
  <2>1. /\ u \in Starting(s) <=> s = utmr[u]
        /\ u \notin Starting(s)'
    BY <1>0, <1>4 DEF TypeOK, StartEnqueue, UGoto, UReturn, Starting
  <2>2. \A v \in Threads \ {u} : upc'[v] = upc[v] /\ utmr'[v] = utmr[v]
    BY <1>0, <1>4 DEF TypeOK, StartEnqueue, UGoto, UReturn
  <2>3. NStart(s)' = NStart(s) - One(u \in Starting(s)) + One(u \in Starting(s)')
    BY <2>2, StartingChange
  <2>4. NNew(s)' = NNew(s) + One(utmr[u] = s) /\ NTrig(s)' = NTrig(s)
    BY <1>4, <2>0, SameCounts, NewAppended DEF StartEnqueue
  <2>5. NStart(s)' + NNew(s)' = NStart(s) + NNew(s)
    BY <1>0, <2>1, <2>3, <2>4 DEF One, EntriesSum
  <2>6. Entries(s)' = Entries(s)
    BY <1>0, <1>4, <2>4, <2>5 DEF EntriesSum, StartEnqueue, One
  <2> QED BY <1>0, <1>4, <2>6 DEF EntryOK, StartEnqueue
<1> QED BY <1>1, <1>2, <1>3, <1>4 DEF StartStep

\* A timer that leaves new_timers_ for timers_ stays counted: it was not in
\* timers_ yet.
LEMMA QueueTimerOneEntry ==
    ASSUME SInv, SInv', OneEntry, QueueTimer
    PROVE  OneEntry'
<1> SUFFICES ASSUME NEW s \in Timers PROVE EntryOK(s)'
  BY DEF OneEntry, EntryOK
<1> USE DEF outsideVars, flags, timerVars, workVars, userVars
<1>0. EntryOK(s) /\ EntriesSum(s) /\ EntriesSum(s)'
  BY EntriesAreSum, EntriesAreSumNext DEF OneEntry, EntryOK
<1>1. NStart(s)' = NStart(s) /\ NTrig(s)' = NTrig(s)
  BY SameCounts DEF QueueTimer
<1>2. NNew(s) = NNew(s)' + One(Head(new) = s)
  BY NewTaken DEF QueueTimer
<1>3. CASE Head(new) = s
  <2>1. NNew(s) = NNew(s)' + 1
    BY <1>2, <1>3 DEF One
  <2>a. NNew(s) >= 1
    BY <1>0, <2>1 DEF EntriesSum
  <2>b. s \notin timers
    BY <1>0, <2>a DEF EntryOK, EntriesSum, One
  <2>2. s \notin timers /\ s \in timers'
    BY <1>3, <2>b DEF QueueTimer
  <2>3. Entries(s)' = Entries(s)
    BY <1>0, <1>1, <2>1, <2>2 DEF EntriesSum, One, QueueTimer
  <2> QED BY <1>0, <2>3 DEF EntryOK, QueueTimer
<1>4. CASE Head(new) # s
  <2>1. NNew(s)' = NNew(s)
    BY <1>0, <1>2, <1>4 DEF One, EntriesSum
  <2>2. s \in timers' <=> s \in timers
    BY <1>4 DEF QueueTimer
  <2>3. Entries(s)' = Entries(s)
    BY <1>0, <1>1, <2>1, <2>2 DEF EntriesSum, One, QueueTimer
  <2> QED BY <1>0, <2>3 DEF EntryOK, QueueTimer
<1> QED BY <1>3, <1>4

\* The observer moves timers and loses none.
LEMMA ObserverOneEntry ==
    ASSUME SInv, SInv', OneEntry, ObserverStep
    PROVE  OneEntry'
<1> USE DEF outsideVars, flags, timerVars, workVars, userVars
<1>1. CASE Observe
  <2> SUFFICES ASSUME NEW s \in Timers PROVE EntryOK(s)'
    BY DEF OneEntry, EntryOK
  <2>0. EntryOK(s) /\ EntriesSum(s) /\ EntriesSum(s)'
    BY EntriesAreSum, EntriesAreSumNext DEF OneEntry, EntryOK
  <2>1. NStart(s)' = NStart(s) /\ NNew(s)' = NNew(s) /\ NTrig(s)' = NTrig(s)
    BY <1>1, SameCounts DEF Observe
  <2>2. found = {} /\ due \subseteq timers
    BY <1>1 DEF SInv, TypeOK, Locals, Observe
  <2>3. One(s \in timers') + One(s \in found') = One(s \in timers) + One(s \in found)
    BY <1>1, <2>2 DEF Observe, One
  <2>4. Entries(s)' = Entries(s)
    BY <1>1, <2>0, <2>1, <2>3 DEF EntriesSum, Observe, One
  <2> QED BY <1>1, <2>0, <2>4 DEF EntryOK, Observe
<1>2. CASE QueueTimer
  BY <1>2, QueueTimerOneEntry
<1>3. CASE ObserverPost
  <2> SUFFICES ASSUME NEW s \in Timers PROVE EntryOK(s)'
    BY DEF OneEntry, EntryOK
  <2>0. EntryOK(s) /\ EntriesSum(s) /\ EntriesSum(s)'
    BY EntriesAreSum, EntriesAreSumNext DEF OneEntry, EntryOK
  <2>1. NStart(s)' = NStart(s) /\ NNew(s)' = NNew(s)
    BY <1>3, SameCounts DEF ObserverPost
  <2>2. NTrig(s)' + One(s \in found') = NTrig(s) + One(s \in found)
    <3>1. CASE found = {}
      BY <1>3, <3>1, SameCounts DEF ObserverPost, One
    <3>2. CASE found # {}
      <4>1. found \in SUBSET Timers
        BY DEF SInv, TypeOK
      <4>2. NTrig(s)' = NTrig(s) + One(s \in found)
        BY <1>3, <3>2, <4>1, TriggeredAppended DEF ObserverPost
      <4>3. One(s \in found') = 0
        BY <1>3 DEF ObserverPost, One
      <4> QED BY <2>0, <4>2, <4>3 DEF EntriesSum, One
    <3> QED BY <3>1, <3>2
  <2>3. Entries(s)' = Entries(s)
    BY <1>3, <2>0, <2>1, <2>2 DEF EntriesSum, ObserverPost, One
  <2> QED BY <1>3, <2>0, <2>3 DEF EntryOK, ObserverPost
<1>4. CASE ObserverExit \/ (ObserverWait /\ ~QueueTimer)
  <2> SUFFICES ASSUME NEW s \in Timers PROVE EntryOK(s)'
    BY DEF OneEntry, EntryOK
  <2>1. NStart(s)' = NStart(s)
    BY <1>4, SameCounts DEF ObserverExit, ObserverWait
  <2>2. Entries(s)' = Entries(s)
    BY <1>4, <2>1, SameEntries DEF ObserverExit, ObserverWait, AtWork
  <2> QED BY <1>4, <2>2 DEF OneEntry, EntryOK, ObserverExit, ObserverWait
<1> QED BY <1>1, <1>2, <1>3, <1>4 DEF ObserverStep, ObserverWait, ObserverDrain

\* The worker's steps between two timers ...
LEMMA WorkerListOneEntry ==
    ASSUME SInv, SInv', OneEntry,
           \/ WorkerLoop \/ WorkerDequeue \/ WorkerListEnds
           \/ \E t \in Timers : WorkerLock(t)
    PROVE  OneEntry'
<1> SUFFICES ASSUME NEW s \in Timers PROVE EntryOK(s)'
  BY DEF OneEntry, EntryOK
<1> USE DEF engineVars, flags, timerVars, obsVars, userVars
<1>0. TypeOK /\ EntryOK(s) /\ EntriesSum(s) /\ EntriesSum(s)'
  BY EntriesAreSum, EntriesAreSumNext DEF SInv, OneEntry, EntryOK
<1>1. CASE WorkerLoop \/ WorkerListEnds
  <2>1. NStart(s)' = NStart(s)
    BY <1>1, SameCounts DEF WorkerLoop, WorkerListEnds
  <2>2. Entries(s)' = Entries(s)
    BY <1>1, <2>1, SameEntries DEF WorkerLoop, WorkerListEnds, AtWork
  <2> QED BY <1>0, <1>1, <2>2 DEF EntryOK, WorkerLoop, WorkerListEnds
<1>2. CASE WorkerDequeue
  <2>1. NStart(s)' = NStart(s) /\ NNew(s)' = NNew(s)
    BY <1>2, SameCounts DEF WorkerDequeue
  <2>2. NTrig(s)' + One(s \in wlist') = NTrig(s) + One(s \in wlist)
    <3>1. CASE triggered = <<>>
      BY <1>2, <3>1, SameCounts DEF WorkerDequeue, One
    <3>2. CASE triggered # <<>>
      <4>1. wlist = {} /\ wlist' = Head(triggered)
        BY <1>2, <3>2 DEF SInv, Locals, WorkerDequeue
      <4>2. NTrig(s) = NTrig(s)' + One(s \in Head(triggered))
        BY <1>2, <3>2, TriggeredTaken DEF WorkerDequeue
      <4> QED BY <1>0, <4>1, <4>2 DEF EntriesSum, One
    <3> QED BY <3>1, <3>2
  <2>3. Entries(s)' = Entries(s)
    BY <1>0, <1>2, <2>1, <2>2 DEF EntriesSum, WorkerDequeue, One
  <2> QED BY <1>0, <1>2, <2>3 DEF EntryOK, WorkerDequeue
<1>3. ASSUME NEW t \in Timers, WorkerLock(t) PROVE EntryOK(s)'
  <2>1. NStart(s)' = NStart(s) /\ NNew(s)' = NNew(s) /\ NTrig(s)' = NTrig(s)
    BY <1>3, SameCounts DEF WorkerLock
  <2>2. CASE s = t /\ t \notin held
    <3>1. Entries(s)' = Entries(s) - 1
      BY <1>0, <1>3, <2>1, <2>2 DEF EntriesSum, WorkerLock, One
    <3>2. Entries(s) = 1
      BY <1>0, <1>3, <2>2 DEF EntryOK, EntriesSum, WorkerLock, One
    <3> QED BY <1>0, <1>3, <2>2, <3>1, <3>2 DEF EntryOK, WorkerLock
  <2>3. CASE s # t \/ t \in held
    <3>1. Entries(s)' = Entries(s)
      BY <1>0, <1>3, <2>1, <2>3 DEF EntriesSum, WorkerLock, One
    <3> QED BY <1>0, <1>3, <3>1 DEF EntryOK, WorkerLock
  <2> QED BY <2>2, <2>3
<1> QED BY <1>1, <1>2, <1>3

\* ... and with one.
LEMMA HandleOneEntry ==
    ASSUME SInv, SInv', OneEntry,
           \/ HandleTimeout \/ HandleFinish
           \/ RestartCheck \/ Restart \/ RestartEnqueue
           \/ CallbackBegins \/ CallbackReturns
    PROVE  OneEntry'
<1> SUFFICES ASSUME NEW s \in Timers PROVE EntryOK(s)'
  BY DEF OneEntry, EntryOK
<1> USE DEF engineVars, flags, timerVars, obsVars, userVars
<1>0. TypeOK /\ EntryOK(s) /\ EntriesSum(s) /\ EntriesSum(s)'
  BY EntriesAreSum, EntriesAreSumNext DEF SInv, OneEntry, EntryOK
<1>1. CASE HandleTimeout
  <2>0. wtmr \in Timers
    BY <1>1 DEF SInv, Locals, HandleTimeout
  <2>1. NStart(s)' = NStart(s) /\ NNew(s)' = NNew(s) /\ NTrig(s)' = NTrig(s)
    BY <1>1, SameCounts DEF HandleTimeout
  <2>2. CASE s = wtmr
    <3>1. ~AtWork(s)' /\ AtWork(s)
      BY <1>1, <2>2 DEF HandleTimeout, WorkerNext, AtWork
    <3>2. Entries(s)' = Entries(s) - 1
      BY <1>0, <1>1, <2>1, <3>1 DEF EntriesSum, HandleTimeout, AtWork, One
    <3>3. Entries(s) = 1
      BY <1>0, <3>1 DEF EntryOK, EntriesSum, AtWork, One
    <3>4. state'[s] # "started"
      BY <1>0, <1>1, <2>0, <2>2 DEF TypeOK, HandleTimeout, Cas
    <3> QED BY <3>2, <3>3, <3>4 DEF EntryOK
  <2>3. CASE s # wtmr
    <3>1. ~AtWork(s)' /\ ~AtWork(s)
      BY <1>1, <2>3, TimerAssumption
         DEF TimerAssumption, HandleTimeout, WorkerNext, AtWork
    <3>2. Entries(s)' = Entries(s)
      BY <1>1, <2>1, <3>1, SameEntries DEF HandleTimeout
    <3>3. state'[s] = state[s]
      BY <1>0, <1>1, <2>3 DEF TypeOK, HandleTimeout, Cas
    <3> QED BY <1>0, <1>1, <3>2, <3>3 DEF EntryOK, HandleTimeout
  <2> QED BY <2>2, <2>3
<1>2. CASE HandleFinish \/ RestartCheck \/ CallbackBegins \/ CallbackReturns
  <2>1. NStart(s)' = NStart(s)
    BY <1>2, SameCounts DEF HandleFinish, RestartCheck, CallbackBegins,
          CallbackReturns
  <2>2. ~AtWork(s)' /\ ~AtWork(s)
    BY <1>2 DEF HandleFinish, RestartCheck, CallbackBegins,
          CallbackReturns, WorkerNext, AtWork
  <2>3. Entries(s)' = Entries(s)
    BY <1>2, <2>1, <2>2, SameEntries DEF HandleFinish, RestartCheck, CallbackBegins,
          CallbackReturns
  <2>4. state'[s] = state[s] \/ (state[s] = "pending" /\ state'[s] = "finished")
    BY <1>0, <1>2 DEF TypeOK, HandleFinish, RestartCheck, CallbackBegins,
          CallbackReturns, Cas
  <2> QED BY <1>0, <1>2, <2>3, <2>4 DEF EntryOK, HandleFinish, RestartCheck, CallbackBegins,
          CallbackReturns
<1>3. CASE Restart
  <2>1. NStart(s)' = NStart(s) /\ NNew(s)' = NNew(s) /\ NTrig(s)' = NTrig(s)
    BY <1>3, SameCounts DEF Restart
  <2>2. CASE s = wtmr /\ state[s] = "pending"
    <3>1. ~AtWork(s) /\ AtWork(s)' /\ state'[s] = "started"
      BY <1>0, <1>3, <2>2 DEF TypeOK, Restart, Cas, AtWork
    <3>2. Entries(s) = 0
      BY <1>0, <2>2 DEF EntryOK
    <3>3. Entries(s)' = Entries(s) + 1
      BY <1>0, <1>3, <2>1, <3>1 DEF EntriesSum, Restart, AtWork, One
    <3> QED BY <3>1, <3>2, <3>3 DEF EntryOK
  <2>3. CASE s # wtmr \/ state[s] # "pending"
    <3>1. ~AtWork(s) /\ ~AtWork(s)' /\ state'[s] = state[s]
      BY <1>0, <1>3, <2>3, TimerAssumption
         DEF TimerAssumption, TypeOK, Restart, Cas, WorkerNext, AtWork
    <3>2. Entries(s)' = Entries(s)
      BY <1>3, <2>1, <3>1, SameEntries DEF Restart
    <3> QED BY <1>0, <1>3, <3>1, <3>2 DEF EntryOK, Restart
  <2> QED BY <2>2, <2>3
<1>4. CASE RestartEnqueue
  <2>0. wtmr \in Timers
    BY <1>4 DEF SInv, Locals, RestartEnqueue
  <2>1. NStart(s)' = NStart(s) /\ NTrig(s)' = NTrig(s)
    BY <1>4, SameCounts DEF RestartEnqueue
  <2>2. NNew(s)' = NNew(s) + One(wtmr = s)
    BY <1>4, <2>0, NewAppended DEF RestartEnqueue
  <2>3. Entries(s)' = Entries(s)
    BY <1>0, <1>4, <2>1, <2>2 DEF EntriesSum, RestartEnqueue, One
  <2> QED BY <1>0, <1>4, <2>3 DEF EntryOK, RestartEnqueue
<1> QED BY <1>1, <1>2, <1>3, <1>4

\* No timer is on its way when the service starts.
LEMMA InitOneEntry == Init => OneEntry
<1> SUFFICES ASSUME Init, NEW t \in Timers PROVE EntryOK(t)
  BY DEF OneEntry, EntryOK
<1>1. EntriesSum(t)
  BY InitSInv, EntriesAreSum
<1>2. Starting(t) = {}
  BY DEF Init, Starting
<1>3. {i \in DOMAIN new : new[i] \in {t}} = {}
  BY DEF Init
<1>4. {i \in DOMAIN triggered : triggered[i] \in ListsOf(t)} = {}
  BY DEF Init
<1>5. NStart(t) = 0 /\ NNew(t) = 0 /\ NTrig(t) = 0
  BY <1>2, <1>3, <1>4, FS_EmptySet DEF NStart, NNew, NTrig, CountIn
<1>6. Entries(t) = 0
  BY <1>1, <1>5 DEF EntriesSum, One, Init
<1> QED BY <1>6 DEF EntryOK, Init

\* Every step keeps OneEntry.
LEMMA NextOneEntry == SInv /\ OneEntry /\ [Next]_vars => OneEntry'
<1> SUFFICES ASSUME SInv, OneEntry, [Next]_vars PROVE OneEntry'
  OBVIOUS
<1>0. SInv'
  BY NextSInv
<1>1. CASE \E u \in Threads, t \in Timers : Start(u, t) \/ Stop(u, t) \/ Drop(u, t)
  BY <1>0, <1>1, UserOneEntry
<1>2. CASE \E u \in Threads : StartStep(u)
  BY <1>0, <1>2, StartOneEntry
<1>3. CASE ObserverStep
  BY <1>0, <1>3, ObserverOneEntry
<1>4. CASE WorkerStep
  BY <1>0, <1>4, WorkerListOneEntry, HandleOneEntry DEF WorkerStep
<1>5. CASE ServiceStop \/ EngineStop \/ (\E t \in Timers : Expire(t)) \/ UNCHANGED vars
  <2> SUFFICES ASSUME NEW s \in Timers PROVE EntryOK(s)'
    BY DEF OneEntry, EntryOK
  <2> USE DEF vars, outsideVars, flags, timerVars, obsVars, workVars, userVars
  <2>1. NStart(s)' = NStart(s)
    BY <1>5, SameCounts DEF ServiceStop, EngineStop, Expire
  <2>2. Entries(s)' = Entries(s)
    BY <1>0, <1>5, <2>1, SameEntries DEF ServiceStop, EngineStop, Expire, AtWork
  <2> QED BY <1>5, <2>2 DEF OneEntry, EntryOK, ServiceStop, EngineStop, Expire
<1> QED BY <1>1, <1>2, <1>3, <1>4, <1>5 DEF Next

\* A timer is never called twice for one start, nor forgotten once it says
\* that it is started: it is at every moment at most once between __start or
\* __restart and handle_timeout, and exactly once while it is started and held.
THEOREM TimerInvariance == Spec => []IInv
<1>1. Init => SInv /\ OneEntry
  BY InitSInv, InitOneEntry
<1>2. SInv /\ OneEntry /\ [Next]_vars => (SInv /\ OneEntry)'
  BY NextSInv, NextOneEntry
<1>3. SInv /\ OneEntry => IInv
  BY DEF SInv, IInv
<1> QED BY <1>1, <1>2, <1>3, PTL DEF Spec
-----------------------------------------------------------------------------
(* The composition with a poller: what Poller_proofs shows of any poller   *)
(* holds of the one that moves here.                                       *)

PP == INSTANCE Poller_proofs WITH Kinds <- Channels, started <- pstarted, wpc <- ppc,
        ppc <- postpc, opc <- ownpc, kind <- pkind, held <- pheld

\* The poller of the composition is the one of the proofs.
LEMMA SamePoller ==
    /\ P!PollerAssumption <=> PP!PollerAssumption
    /\ (P!Init <=> PP!Init) /\ (P!Next <=> PP!Next)
    /\ P!IInv <=> PP!IInv
    /\ P!TrackerAlive <=> PP!TrackerAlive
    /\ P!TrackedIsArmed <=> PP!TrackedIsArmed
<1>1. P!PollerAssumption <=> PP!PollerAssumption
  BY DEF P!PollerAssumption, PP!PollerAssumption, P!IsFiniteSet, PP!IsFiniteSet
<1>2. (P!Init <=> PP!Init) /\ (P!Next <=> PP!Next)
  BY DEF P!postVars, PP!postVars, P!ownerVars, PP!ownerVars, P!queueVars, PP!queueVars,
         P!channelVars, PP!channelVars, P!trackVars, PP!trackVars, P!vars, PP!vars,
         P!Init, PP!Init, P!Stop, PP!Stop, P!PGoto, PP!PGoto, P!Post, PP!Post,
         P!PostFill, PP!PostFill, P!PostCount, PP!PostCount, P!Step, PP!Step, P!Settled,
         PP!Settled, P!Install, PP!Install, P!InstallAdd, PP!InstallAdd, P!EventClaim,
         PP!EventClaim, P!EventFill, PP!EventFill, P!EventCount, PP!EventCount, P!Start,
         PP!Start, P!StartArm, PP!StartArm, P!Release, PP!Release, P!Uninstall,
         PP!Uninstall, P!UninstallDel, PP!UninstallDel, P!TakeChannelEvents,
         PP!TakeChannelEvents, P!HandleChannelEvent, PP!HandleChannelEvent,
         P!TakeTrackerEvents, PP!TakeTrackerEvents, P!HandleTrackerEvent,
         PP!HandleTrackerEvent, P!Poll, PP!Poll, P!Dispatch, PP!Dispatch,
         P!DispatchEnds, PP!DispatchEnds, P!WorkerExits, PP!WorkerExits, P!Consumed,
         PP!Consumed, P!PushRemove, PP!PushRemove, P!WorkerUninstalls,
         PP!WorkerUninstalls, P!HandlerRestarts, PP!HandlerRestarts, P!HandlerRearms,
         PP!HandlerRearms, P!HandlerPauses, PP!HandlerPauses, P!HandlerUninstalls,
         PP!HandlerUninstalls, P!HandlerEnds, PP!HandlerEnds, P!BecomesReady,
         PP!BecomesReady, P!OwnerStep, PP!OwnerStep, P!WorkerStep, PP!WorkerStep,
         P!Next, PP!Next, P!loopVars, PP!loopVars, P!ChannelEvents!Init,
         PP!ChannelEvents!Init, P!ChannelEvents!Claim, PP!ChannelEvents!Claim,
         P!ChannelEvents!Fill, PP!ChannelEvents!Fill, P!ChannelEvents!Pop,
         PP!ChannelEvents!Pop, P!ChannelEvents!CanPop, PP!ChannelEvents!CanPop,
         P!TrackerEvents!Init, PP!TrackerEvents!Init, P!TrackerEvents!Claim,
         PP!TrackerEvents!Claim, P!TrackerEvents!Fill, PP!TrackerEvents!Fill,
         P!TrackerEvents!Pop, PP!TrackerEvents!Pop, P!TrackerEvents!CanPop,
         PP!TrackerEvents!CanPop
<1>3. P!IInv <=> PP!IInv
  BY DEF P!TypeOK, PP!TypeOK, P!OwnerLocals, PP!OwnerLocals, P!WorkerLocals,
         PP!WorkerLocals, P!Installed, PP!Installed, P!MappedOrOver, PP!MappedOrOver,
         P!CountersMatch, PP!CountersMatch, P!Cardinality, PP!Cardinality, P!Removing,
         PP!Removing, P!Queued, PP!Queued, P!Mapped, PP!Mapped, P!Over, PP!Over, P!IInv,
         PP!IInv, P!TrackerAlive, PP!TrackerAlive, P!Alive, PP!Alive, P!TrackedIsArmed,
         PP!TrackedIsArmed
<1>4. /\ P!TrackerAlive <=> PP!TrackerAlive
      /\ P!TrackedIsArmed <=> PP!TrackedIsArmed
  BY DEF P!TrackerAlive, PP!TrackerAlive, P!Alive, PP!Alive, P!TrackedIsArmed,
         PP!TrackedIsArmed
<1> QED BY <1>1, <1>2, <1>3, <1>4

\* A step of the composition is one of the timers' or one of the poller's.
LEMMA PartSteps ==
    ASSUME [MCNext]_<<part, vars, poller>>
    PROVE  [Next]_vars /\ [PP!Next]_PP!vars
<1>1. CASE UNCHANGED poller
  BY <1>1 DEF MCNext, poller, PP!vars, PP!queueVars, PP!loopVars, PP!postVars,
              PP!ownerVars, PP!channelVars, PP!trackVars
<1>2. CASE P!Next /\ UNCHANGED <<part, vars>>
  BY <1>2, SamePoller
<1> QED BY <1>1, <1>2 DEF MCNext

\* Beside a poller too, the timers keep their invariant.
THEOREM TimersStayRight == MCSpec => []IInv
<1>1. MCInit => Init
  BY DEF MCInit
<1>2. [MCNext]_<<part, vars, poller>> => [Next]_vars
  BY PartSteps
<1> QED BY <1>1, <1>2, TimerInvariance, PTL DEF MCSpec, Spec

\* The counters of a poller's queues match what is queued, and its worker maps
\* every tracker that epoll can return: whatever channels are made, and for any
\* number of threads and trackers (poller.cpp, epoll_poller.cpp).
THEOREM PollerStaysRight == MCSpec => []PollerInv
<1>1. MCInit => PP!QInv /\ PP!Trk
  BY SamePoller, MCAssumption, PP!InitInv DEF MCInit, MCAssumption
<1>2. PP!QInv /\ PP!Trk /\ [MCNext]_<<part, vars, poller>> => (PP!QInv /\ PP!Trk)'
  BY PartSteps, SamePoller, MCAssumption, PP!NextInv DEF MCAssumption
<1>3. PP!QInv /\ PP!Trk => PollerInv
  BY SamePoller, PP!InvParts DEF PollerInv
<1> QED BY <1>1, <1>2, <1>3, PTL DEF MCSpec

\* epoll and the worker never reach a freed tracker, and a tracked tracker's
\* event is not lost (poller.cpp, channel.h).
THEOREM TrackersStaySafe == MCSpec => []TrackersSafe
<1>1. MCInit => PP!QInv /\ PP!Trk
  BY SamePoller, MCAssumption, PP!InitInv DEF MCInit, MCAssumption
<1>2. PP!QInv /\ PP!Trk /\ [MCNext]_<<part, vars, poller>> => (PP!QInv /\ PP!Trk)'
  BY PartSteps, SamePoller, MCAssumption, PP!NextInv DEF MCAssumption
<1>3. PP!QInv /\ PP!Trk => TrackersSafe
  BY SamePoller, MCAssumption, PP!InvParts, PP!AliveFromInv DEF TrackersSafe, MCAssumption
<1> QED BY <1>1, <1>2, <1>3, PTL DEF MCSpec
=============================================================================
