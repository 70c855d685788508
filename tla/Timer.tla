------------------------------- MODULE Timer -------------------------------
(***************************************************************************)
(* Timers (pump/time/timer.cpp), the time engine (engine.cpp) and the      *)
(* timer worker of a service (service.cpp).  A timer that is started goes  *)
(* through new_timers_ to the observer thread, which keeps it in timers_   *)
(* until its time has come, then in a list through triggered_timers_ to    *)
(* the worker, which calls handle_timeout.  Meanwhile any thread, the      *)
(* callback that the worker runs included, may start, stop or drop it.     *)
(*                                                                         *)
(* Time is abstract: a deadline passes when it likes (Expire).  An enqueue *)
(* and a dequeue are one step each: FreelockQueue says that a dequeue with *)
(* a permit finds its element, at worst after spinning.                    *)
(***************************************************************************)
EXTENDS Integers, Sequences, FiniteSets

CONSTANTS Users, Timers,
          Kinds,   \* of timers, among "once", "repeated" and "sync"
          MaxNew,  \* new timers the observer takes in one loop: 1024
          Worker, None

ASSUME TimerAssumption ==
    /\ IsFiniteSet(Users) /\ IsFiniteSet(Timers)
    /\ Kinds \subseteq {"once", "repeated", "sync"}
    /\ MaxNew \in Nat \ {0}
    /\ Worker \notin Users /\ None \notin Timers

\* Callbacks call the same operations as the users' threads.
Threads == Users \cup {Worker}

VARIABLES
    running,           \* the service's running_
    started,           \* the engine's started_
    kind,              \* of each timer: repeated_, or the raw_ of a sync_timer
    state,             \* state_
    engineSet,         \* timers whose e_ is set
    held,              \* timers a user has a pointer to
    new,               \* new_timers_
    opc, room,         \* the observer: control, max_new_timers
    timers, due,       \* timers_, and those in it whose time has come
    found,             \* triggered_timers of the observer
    triggered,         \* triggered_timers_
    wpc, wlist, wtmr,  \* the worker: control, rest of its list, locked timer
    upc, utmr, ust,    \* the threads that start a timer: control, timer, st
    signals            \* semaphore_ of each sync_timer

flags == <<running, started>>
timerVars == <<kind, state, engineSet, held>>
obsVars == <<opc, room, timers, due, found>>
workVars == <<wpc, wlist, wtmr>>
userVars == <<upc, utmr, ust>>
engineVars == <<flags, obsVars, triggered>>
outsideVars == <<flags, timerVars, workVars, userVars, signals>>
vars == <<flags, timerVars, new, obsVars, triggered, workVars, userVars, signals>>

\* A service that has been started, and timers that have been created.
Init ==
    /\ running = TRUE /\ started = TRUE
    /\ kind \in [Timers -> Kinds]
    /\ state = [t \in Timers |-> "none"]
    /\ engineSet = {} /\ held = Timers
    /\ new = <<>>
    /\ opc = "loop" /\ room = 0
    /\ timers = {} /\ due = {} /\ found = {}
    /\ triggered = <<>>
    /\ wpc = "loop" /\ wlist = {} /\ wtmr = None
    /\ upc = [u \in Threads |-> "idle"]
    /\ utmr = [u \in Threads |-> None]
    /\ ust = [u \in Threads |-> "none"]
    /\ signals = [t \in Timers |-> 0]

-----------------------------------------------------------------------------
(* service::stop: running_, then the engine's started_.                    *)

ServiceStop ==
    /\ running /\ running' = FALSE
    /\ UNCHANGED <<timerVars, obsVars, workVars, userVars, started, new,
                   triggered, signals>>

EngineStop ==
    /\ ~running /\ started /\ started' = FALSE
    /\ UNCHANGED <<timerVars, obsVars, workVars, userVars, running, new,
                   triggered, signals>>

-----------------------------------------------------------------------------
(* Operations of the users' threads and of callbacks.                      *)

\* __set_state
Cas(t, expected, desired) ==
    state[t] = expected /\ state' = [state EXCEPT ![t] = desired]

\* The worker runs user code only in a callback.
Free(u) == upc[u] = "idle" /\ (u = Worker => wpc = "cb")
UGoto(u, l) == upc' = [upc EXCEPT ![u] = l]
UReturn(u) == UGoto(u, "idle") /\ utmr' = [utmr EXCEPT ![u] = None]

\* start_timer: the engine must be started.  sync_timer::start blocks, so a
\* callback does not call it, and one thread at a time does.
Start(u, t) ==
    /\ Free(u) /\ t \in held
    /\ started
    /\ kind[t] = "sync" => u # Worker /\ \A v \in Threads : utmr[v] # t
    /\ utmr' = [utmr EXCEPT ![u] = t]
    /\ UGoto(u, "load")
    /\ UNCHANGED <<engineVars, timerVars, workVars, new, ust, signals>>

\* timer::__start
StartLoad(u) ==
    /\ upc[u] = "load"
    /\ IF state[utmr[u]] \in {"none", "finished"}
       THEN UGoto(u, "cas") /\ ust' = [ust EXCEPT ![u] = state[utmr[u]]]
                            /\ UNCHANGED utmr
       ELSE UReturn(u) /\ UNCHANGED ust
    /\ UNCHANGED <<engineVars, timerVars, workVars, new, signals>>

StartCas(u) ==
    /\ upc[u] = "cas"
    /\ \/ Cas(utmr[u], ust[u], "started") /\ UGoto(u, "engine") /\ UNCHANGED utmr
       \/ state[utmr[u]] # ust[u] /\ UReturn(u) /\ UNCHANGED state
    /\ ust' = [ust EXCEPT ![u] = "none"]
    /\ UNCHANGED <<engineVars, workVars, kind, engineSet, held, new, signals>>

StartSetEngine(u) ==
    /\ upc[u] = "engine"
    /\ engineSet' = engineSet \cup {utmr[u]}
    /\ UGoto(u, "enqueue")
    /\ UNCHANGED <<engineVars, workVars, kind, state, held, new, utmr, ust,
                   signals>>

\* Mutant: the timer is not handed to the observer.
StartEnqueueNot(u) ==
    /\ upc[u] = "enqueue"
    /\ IF kind[utmr[u]] = "sync" THEN UGoto(u, "wait") /\ UNCHANGED utmr
                                 ELSE UReturn(u)
    /\ UNCHANGED <<engineVars, timerVars, workVars, new, ust, signals>>

\* The timer goes to the observer; sync_timer::start then waits.
StartEnqueue(u) ==
    /\ upc[u] = "enqueue"
    /\ new' = Append(new, utmr[u])
    /\ IF kind[utmr[u]] = "sync" THEN UGoto(u, "wait") /\ UNCHANGED utmr
                                 ELSE UReturn(u)
    /\ UNCHANGED <<engineVars, timerVars, workVars, ust, signals>>

SyncWake(u) ==
    /\ upc[u] = "wait"
    /\ signals[utmr[u]] > 0
    /\ signals' = [signals EXCEPT ![utmr[u]] = @ - 1]
    /\ UReturn(u)
    /\ UNCHANGED <<engineVars, timerVars, workVars, new, ust>>

\* timer::stop; the timer inside a sync_timer is private.
Stop(u, t) ==
    /\ Free(u) /\ t \in held /\ kind[t] # "sync"
    /\ state' = [state EXCEPT ![t] = "stopped"]
    /\ UNCHANGED <<engineVars, workVars, userVars, kind, engineSet, held, new,
                   signals>>

\* The last pointer outside the library goes.
Drop(u, t) ==
    /\ Free(u) /\ t \in held /\ \A v \in Threads : utmr[v] # t
    /\ held' = held \ {t}
    /\ UNCHANGED <<engineVars, workVars, userVars, kind, state, engineSet, new,
                   signals>>

-----------------------------------------------------------------------------
(* The observer: __observe_thread, __observe, __queue_timer.               *)

\* A deadline in timers_ passes.
Expire(t) ==
    /\ t \in timers \ due
    /\ due' = due \cup {t}
    /\ UNCHANGED <<outsideVars, new, opc, room, timers, found, triggered>>

\* Mutant: what has been found stays in timers_.
ObserveErasesNot ==
    /\ opc = "loop" /\ started
    /\ found' = due /\ due' = {}
    /\ room' = MaxNew
    /\ opc' = IF due = {} THEN "wait" ELSE "drain"
    /\ UNCHANGED <<outsideVars, new, timers, triggered>>

\* What is due leaves timers_; with nothing due the observer waits.
Observe ==
    /\ opc = "loop" /\ started
    /\ found' = due /\ timers' = timers \ due /\ due' = {}
    /\ room' = MaxNew
    /\ opc' = IF due = {} THEN "wait" ELSE "drain"
    /\ UNCHANGED <<outsideVars, new, triggered>>

QueueTimer ==
    /\ new # <<>>
    /\ timers' = timers \cup {Head(new)}
    /\ new' = Tail(new)
    /\ room' = room - 1
    /\ UNCHANGED <<outsideVars, due, found, triggered>>

\* dequeue with a timeout: until the next deadline, or 200 ms.
ObserverWait ==
    /\ opc = "wait" /\ opc' = "drain"
    /\ \/ QueueTimer
       \/ UNCHANGED <<outsideVars, new, room, timers, due, found, triggered>>

\* try_dequeue
ObserverDrain ==
    /\ opc = "drain" /\ room > 0
    /\ QueueTimer
    /\ UNCHANGED opc

\* pending_cb_: __post_triggered_timers
ObserverPost ==
    /\ opc = "drain" /\ (room = 0 \/ new = <<>>)
    /\ triggered' = IF found = {} THEN triggered ELSE Append(triggered, found)
    /\ found' = {}
    /\ opc' = "loop"
    /\ UNCHANGED <<outsideVars, new, room, timers, due>>

ObserverExit ==
    /\ opc = "loop" /\ ~started
    /\ opc' = "exited"
    /\ UNCHANGED <<outsideVars, new, room, timers, due, found, triggered>>

-----------------------------------------------------------------------------
(* The timer worker.                                                       *)

WorkerLoop ==
    /\ wpc = "loop"
    /\ wpc' = IF running THEN "dequeue" ELSE "exited"
    /\ UNCHANGED <<engineVars, timerVars, userVars, new, wlist, wtmr, signals>>

\* Mutant: dequeue has no timeout.
WorkerDequeueForever ==
    /\ wpc = "dequeue"
    /\ triggered # <<>>
    /\ wlist' = Head(triggered)
    /\ triggered' = Tail(triggered)
    /\ wpc' = "list"
    /\ UNCHANGED <<timerVars, obsVars, userVars, flags, new, wtmr, signals>>

\* dequeue: a list, or after a second none.
WorkerDequeue ==
    /\ wpc = "dequeue"
    /\ \/ /\ triggered # <<>>
          /\ wlist' = Head(triggered)
          /\ triggered' = Tail(triggered)
          /\ wpc' = "list"
       \/ /\ triggered = <<>>
          /\ wpc' = "loop"
          /\ UNCHANGED <<wlist, triggered>>
    /\ UNCHANGED <<timerVars, obsVars, userVars, flags, new, wtmr, signals>>

\* The list has weak pointers: a timer that was dropped is gone.
WorkerLock(t) ==
    /\ wpc = "list" /\ t \in wlist
    /\ wlist' = wlist \ {t}
    /\ IF t \in held THEN wtmr' = t /\ wpc' = "cas"
                     ELSE UNCHANGED <<wtmr, wpc>>
    /\ UNCHANGED <<engineVars, timerVars, userVars, new, signals>>

WorkerListEnds ==
    /\ wpc = "list" /\ wlist = {}
    /\ wpc' = "loop"
    /\ UNCHANGED <<engineVars, timerVars, userVars, new, wlist, wtmr, signals>>

WorkerNext == wpc' = "list" /\ wtmr' = None

\* handle_timeout: from started to pending ...
HandleTimeout ==
    /\ wpc = "cas"
    /\ \/ /\ Cas(wtmr, "started", "pending")
          /\ wpc' = IF kind[wtmr] = "repeated" THEN "engine" ELSE "finish"
          /\ UNCHANGED wtmr
       \/ /\ state[wtmr] # "started"
          /\ WorkerNext
          /\ UNCHANGED state
    /\ UNCHANGED <<engineVars, userVars, kind, engineSet, held, new, wlist,
                   signals>>

\* ... and a timer that is not repeated from pending to finished.
HandleFinish ==
    /\ wpc = "finish"
    /\ \/ Cas(wtmr, "pending", "finished") /\ wpc' = "call" /\ UNCHANGED wtmr
       \/ state[wtmr] # "pending" /\ WorkerNext /\ UNCHANGED state
    /\ UNCHANGED <<engineVars, userVars, kind, engineSet, held, new, wlist,
                   signals>>

\* engine::restart_timer: a timer stays pending if the engine is stopped.
RestartCheck ==
    /\ wpc = "engine"
    /\ IF started THEN wpc' = "restart" /\ UNCHANGED wtmr ELSE WorkerNext
    /\ UNCHANGED <<engineVars, timerVars, userVars, new, wlist, signals>>

\* Mutant: the state is stored, whatever it was.
RestartStores ==
    /\ wpc = "restart"
    /\ state' = [state EXCEPT ![wtmr] = "started"]
    /\ wpc' = "enqueue"
    /\ UNCHANGED <<engineVars, userVars, kind, engineSet, held, new, wlist,
                   wtmr, signals>>

\* timer::__restart
Restart ==
    /\ wpc = "restart"
    /\ \/ Cas(wtmr, "pending", "started") /\ wpc' = "enqueue" /\ UNCHANGED wtmr
       \/ state[wtmr] # "pending" /\ WorkerNext /\ UNCHANGED state
    /\ UNCHANGED <<engineVars, userVars, kind, engineSet, held, new, wlist,
                   signals>>

RestartEnqueue ==
    /\ wpc = "enqueue"
    /\ new' = Append(new, wtmr)
    /\ wpc' = "call"
    /\ UNCHANGED <<engineVars, timerVars, userVars, wlist, wtmr, signals>>

\* cb_(), whatever the state has become since it was decided on.
CallbackBegins ==
    /\ wpc = "call" /\ wpc' = "cb"
    /\ UNCHANGED <<engineVars, timerVars, userVars, new, wlist, wtmr, signals>>

\* The callback returns; a sync_timer's callback has signalled.
CallbackReturns ==
    /\ wpc = "cb" /\ upc[Worker] = "idle"
    /\ signals' = IF kind[wtmr] = "sync" THEN [signals EXCEPT ![wtmr] = @ + 1]
                                         ELSE signals
    /\ WorkerNext
    /\ UNCHANGED <<engineVars, timerVars, userVars, new, wlist>>

-----------------------------------------------------------------------------
StartStep(u) ==
    \/ StartLoad(u) \/ StartCas(u) \/ StartSetEngine(u) \/ StartEnqueue(u)
    \/ SyncWake(u)

ObserverStep ==
    \/ Observe \/ ObserverWait \/ ObserverDrain \/ ObserverPost \/ ObserverExit

WorkerStep ==
    \/ WorkerLoop \/ WorkerDequeue \/ WorkerListEnds
    \/ \E t \in Timers : WorkerLock(t)
    \/ HandleTimeout \/ HandleFinish
    \/ RestartCheck \/ Restart \/ RestartEnqueue
    \/ CallbackBegins \/ CallbackReturns

Next ==
    \/ ServiceStop \/ EngineStop
    \/ \E u \in Threads, t \in Timers : Start(u, t) \/ Stop(u, t) \/ Drop(u, t)
    \/ \E u \in Threads : StartStep(u)
    \/ \E t \in Timers : Expire(t)
    \/ ObserverStep
    \/ WorkerStep

Spec == Init /\ [][Next]_vars

\* The threads run, deadlines pass, and a stop that has begun goes on.  A
\* callback returns: it does not start and stop timers for ever.  Nobody has
\* to start, stop or drop a timer.
Fairness ==
    /\ \A u \in Threads : WF_vars(StartStep(u))
    /\ \A t \in Timers : WF_vars(Expire(t))
    /\ WF_vars(ObserverStep) /\ WF_vars(EngineStop)
    /\ WF_vars(WorkerStep) /\ SF_vars(CallbackReturns)

FairSpec == Spec /\ Fairness

-----------------------------------------------------------------------------
(* Properties.                                                             *)

States == {"none", "stopped", "started", "pending", "finished"}

\* Every variable has the shape the code gives it.
TypeOK ==
    /\ running \in BOOLEAN /\ started \in BOOLEAN
    /\ kind \in [Timers -> Kinds] /\ state \in [Timers -> States]
    /\ engineSet \subseteq Timers /\ held \subseteq Timers
    /\ new \in Seq(Timers)
    /\ opc \in {"loop", "wait", "drain", "exited"} /\ room \in 0 .. MaxNew
    /\ timers \subseteq Timers /\ due \subseteq timers /\ found \subseteq Timers
    /\ triggered \in Seq(SUBSET Timers)
    /\ wpc \in {"loop", "dequeue", "list", "cas", "finish", "engine", "restart",
                "enqueue", "call", "cb", "exited"}
    /\ wlist \subseteq Timers /\ wtmr \in Timers \cup {None}
    /\ upc \in [Threads -> {"idle", "load", "cas", "engine", "enqueue", "wait"}]
    /\ utmr \in [Threads -> Timers \cup {None}]
    /\ ust \in [Threads -> {"none", "finished"}]
    /\ signals \in [Timers -> Nat]

\* What a control state says of the locals; and a timer that has a way to
\* handle_timeout has its engine set, which the restart goes to.
Locals ==
    /\ opc = "wait" => room > 0
    /\ wpc \in {"cas", "finish", "engine", "restart", "enqueue", "call", "cb"} =>
           wtmr \in Timers
    /\ \A u \in Threads : upc[u] # "idle" => utmr[u] \in Timers
    /\ \A u \in Threads : upc[u] = "enqueue" => utmr[u] \in engineSet
    /\ new \in Seq(engineSet) /\ triggered \in Seq(SUBSET engineSet)
    /\ timers \cup found \cup wlist \subseteq engineSet
    /\ wtmr \in engineSet \cup {None}
    /\ opc = "loop" => found = {}
    /\ wpc \in {"loop", "dequeue"} => wlist = {}

One(P) == IF P THEN 1 ELSE 0

\* How often t is on its way from a start or a restart to handle_timeout.
Entries(t) ==
    Cardinality({u \in Threads : utmr[u] = t /\ upc[u] \in {"engine", "enqueue"}})
  + Cardinality({i \in DOMAIN new : new[i] = t})
  + Cardinality({i \in DOMAIN triggered : t \in triggered[i]})
  + One(t \in timers) + One(t \in found) + One(t \in wlist)
  + One(wtmr = t /\ wpc \in {"cas", "enqueue"})

\* A timer is on its way at most once, so that it is not called twice for one
\* start; not at all when it may be started (again); and certainly if it says
\* that it is started, or it would never be called.
OneEntry ==
    \A t \in Timers :
        /\ Entries(t) <= 1
        /\ state[t] \in {"none", "pending", "finished"} => Entries(t) = 0
        /\ state[t] = "started" /\ t \in held => Entries(t) = 1

\* A pending timer is being handled; only a stopped engine leaves it pending.
PendingHandled ==
    \A t \in Timers :
        state[t] = "pending" =>
            ~started \/ (wtmr = t /\ wpc \in {"finish", "engine", "restart"})

\* The invariant of timer, engine and worker together.
IInv == TypeOK /\ Locals /\ OneEntry /\ PendingHandled

\* handle_timeout has changed the state for the last time, and calls back.
Decided(t) == wtmr = t /\ wpc \in {"enqueue", "call", "cb"}

\* stop() is final: a callback that is made after it had been decided on
\* before, when handle_timeout had made its last compare-and-swap.
StopHolds ==
    [][\A t \in Timers : state[t] = "stopped" =>
          state'[t] = "stopped" /\ (Decided(t)' => Decided(t))]_vars

\* start_timer's promise: while the service runs, a timer that was started is
\* called, unless it is stopped or dropped; a sync_timer's start then returns.
StartedFires ==
    /\ \A t \in Timers :
          state[t] = "started" ~>
              \/ wpc = "cb" /\ wtmr = t
              \/ state[t] = "stopped" \/ t \notin held \/ ~running
    /\ \A u \in Users : upc[u] = "wait" ~> upc[u] = "idle" \/ ~running

\* wait_stopped returns: after stop both threads end, although neither is
\* woken and timers may go on being started.
ServiceStops == ~running ~> (opc = "exited" /\ wpc = "exited")
=============================================================================
