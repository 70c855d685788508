------------------------------ MODULE MCReactor ------------------------------
(***************************************************************************)
(* What runs the threads of a service, in one run: the timers with their   *)
(* engine and worker, or a poller.  They share nothing, so that only one   *)
(* of them (part) moves in a behaviour and the other stays as it was       *)
(* created.  A poller gets several channel events from one thread while    *)
(* no channel has an owner (part "events"), or one beside the owners at    *)
(* work (part "poller").                                                   *)
(***************************************************************************)
EXTENDS Timer

CONSTANTS Posters, Owners, Trackers, Channels, MaxPost, MaxHandlerPost

VARIABLES part,
          pstarted, cslots, ccnt, tslots, tcnt, trackers, ppc, cn, tn, pending,
          wtrk, postpc, posts, hposts, ownpc, otrk, oop, pkind, pheld, owned,
          installed, tracked, reg, ready

poller == <<pstarted, cslots, ccnt, tslots, tcnt, trackers, ppc, cn, tn, pending,
            wtrk, postpc, posts, hposts, ownpc, otrk, oop, pkind, pheld, owned,
            installed, tracked, reg, ready>>

P == INSTANCE Poller WITH Kinds <- Channels, started <- pstarted, wpc <- ppc,
        ppc <- postpc, opc <- ownpc, kind <- pkind, held <- pheld

MCAssumption == P!PollerAssumption
ASSUME MCAssumption

MCInit ==
    /\ Init /\ P!Init
    /\ part \in {"timer", "poller", "events"}
    /\ part # "timer" => kind = [t \in Timers |-> "once"]

\* Bound: the events one thread posts while owners are at work.
PostsBesideOwners == 1

PollerBound ==
    IF part = "events" THEN pheld = {} ELSE \A p \in Posters : posts[p] <= PostsBesideOwners

MCNext ==
    \/ part = "timer" /\ Next /\ UNCHANGED <<part, poller>>
    \/ part # "timer" /\ P!Next /\ UNCHANGED <<part, vars>> /\ PollerBound'

\* The fairness of the parts.  That of a thread that is ready from the start is
\* for the run that moves its part.
MCFairness ==
    /\ \A u \in Threads : WF_vars(StartStep(u))
    /\ \A t \in Timers : WF_vars(Expire(t))
    /\ WF_vars(part = "timer" /\ ObserverStep) /\ WF_vars(EngineStop)
    /\ WF_vars(part = "timer" /\ WorkerStep) /\ SF_vars(CallbackReturns)
    /\ WF_poller(part # "timer" /\ P!WorkerStep)
    /\ \A p \in Posters : WF_poller(P!PostFill(p) \/ P!PostCount(p))
    /\ \A o \in Owners : WF_poller(P!OwnerStep(o))

MCSpec == MCInit /\ [][MCNext]_<<part, vars, poller>> /\ MCFairness

\* A poller's queues agree with their counters (poller.cpp).
PollerInv == P!IInv

\* No freed tracker is reached, and a tracked one gets its event (poller.cpp,
\* epoll_poller.cpp).
TrackersSafe == P!TrackerAlive /\ P!TrackedIsArmed

\* Posted events are handled, and the channel of a ready tracker is told
\* (poller.cpp, epoll_poller.cpp).
EventsHandled == P!EventsHandled /\ P!ReadyDispatched

\* The tracker of a dropped channel is freed (poller.cpp, channel.h).
TrackerFreed == P!TrackerFreed
=============================================================================
