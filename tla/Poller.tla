------------------------------- MODULE Poller -------------------------------
(***************************************************************************)
(* One poller of pump/poll: the worker thread and its loop (poller.cpp),   *)
(* the trackers (channel.h) and their registrations with epoll             *)
(* (epoll_poller.cpp).  Its actors are                                     *)
(*   - threads that post channel events (push_channel_event);              *)
(*   - threads that install and start trackers and drop their channels,    *)
(*     whose destructors uninstall them;                                   *)
(*   - the worker thread, which handles channel events, then tracker       *)
(*     events, then polls and dispatches, and may itself run a handler     *)
(*     that starts or uninstalls a tracker or drops the last reference.    *)
(* cevents_ and tevents_ are SlotQueues, which M2MQueue implements; a      *)
(* counter beside each says how many elements the worker may pop.          *)
(*                                                                         *)
(* epoll keeps a raw pointer to the tracker.  A tracker lives while its    *)
(* channel, the worker's map or a queued tracker event refers to it.       *)
(***************************************************************************)
EXTENDS Integers, Sequences, FiniteSets

CONSTANTS Posters, Owners,
          Trackers,
          Kinds,          \* what the channels of the trackers are
          MaxPost,        \* bound: channel events one thread posts
          MaxHandlerPost, \* bound: channel events that handlers post
          Worker, None

\* Assumed of the constants.
PollerAssumption ==
    /\ IsFiniteSet(Posters) /\ IsFiniteSet(Owners)
    /\ Kinds \subseteq {"transport", "acceptor", "dialer"}
    /\ MaxPost \in Nat /\ MaxHandlerPost \in Nat
    /\ Worker \notin Posters \cup Owners
    /\ None \notin Trackers \cup Kinds

VARIABLES
    started,            \* started_
    cslots, ccnt,       \* cevents_, cev_cnt_
    tslots, tcnt,       \* tevents_, tev_cnt_
    trackers,           \* trackers_
    wpc, cn, tn,        \* the worker: control, and the cnt of each handling loop
    pending,            \* what epoll_wait returned and is not dispatched yet
    wtrk,               \* the tracker whose channel the worker has locked
    ppc, posts, hposts, \* the posting threads; events posted
    opc, otrk, oop,     \* the owning threads: control, tracker, tracker event
    kind,               \* of each tracker created: its channel's kind
    held, owned,        \* trackers whose channel a user holds, or still exists
    installed,          \* trackers with pr_ set
    tracked,            \* trackers whose state_ is tracker_tracking
    reg,                \* of each tracker: its registration with epoll
    ready               \* trackers whose descriptor is ready

loopVars == <<wpc, cn, tn>>
postVars == <<ppc, posts, hposts>>
ownerVars == <<opc, otrk, oop>>
queueVars == <<cslots, ccnt, tslots, tcnt>>
channelVars == <<kind, held, owned, installed>>
trackVars == <<tracked, reg, ready>>
vars == <<started, queueVars, trackers, loopVars, pending, wtrk, postVars,
          ownerVars, channelVars, trackVars>>

ChannelEvents == INSTANCE SlotQueue
                   WITH slots <- cslots, Values <- [by : Posters \cup {Worker}]
TrackerEvents == INSTANCE SlotQueue
                   WITH slots <- tslots,
                        Values <- [by : Owners \cup {Worker}, trk : Trackers,
                                   op : {"append", "remove"}]

Init ==
    /\ started = TRUE
    /\ ChannelEvents!Init /\ ccnt = 0
    /\ TrackerEvents!Init /\ tcnt = 0
    /\ trackers = {} /\ pending = {} /\ wtrk = None
    /\ wpc = "loop" /\ cn = 0 /\ tn = 0
    /\ ppc = [p \in Posters |-> "idle"]
    /\ posts = [p \in Posters |-> 0] /\ hposts = 0
    /\ opc = [o \in Owners |-> "idle"]
    /\ otrk = [o \in Owners |-> None]
    /\ oop = [o \in Owners |-> "append"]
    /\ kind = [t \in Trackers |-> None]
    /\ held = {} /\ owned = {} /\ installed = {}
    /\ tracked = {} /\ ready = {}
    /\ reg = [t \in Trackers |-> "none"]

\* poller::stop, from service::stop.
Stop ==
    /\ started /\ started' = FALSE
    /\ UNCHANGED <<queueVars, trackers, loopVars, pending, wtrk, postVars,
                   ownerVars, channelVars, trackVars>>

-----------------------------------------------------------------------------
(* push_channel_event.                                                     *)

PGoto(p, l) == ppc' = [ppc EXCEPT ![p] = l]

Post(p) ==
    /\ ppc[p] = "idle" /\ posts[p] < MaxPost
    /\ started
    /\ ChannelEvents!Claim([by |-> p])
    /\ posts' = [posts EXCEPT ![p] = @ + 1]
    /\ PGoto(p, "fill")
    /\ UNCHANGED <<started, ccnt, tslots, tcnt, trackers, loopVars, pending,
                   wtrk, hposts, ownerVars, channelVars, trackVars>>

PostFill(p) ==
    /\ ppc[p] = "fill"
    /\ \E i \in DOMAIN cslots : cslots[i].val.by = p /\ ChannelEvents!Fill(i)
    /\ PGoto(p, "count")
    /\ UNCHANGED <<started, ccnt, tslots, tcnt, trackers, loopVars, pending,
                   wtrk, posts, hposts, ownerVars, channelVars, trackVars>>

PostCount(p) ==
    /\ ppc[p] = "count"
    /\ ccnt' = ccnt + 1
    /\ PGoto(p, "idle")
    /\ UNCHANGED <<started, cslots, tslots, tcnt, trackers, loopVars, pending,
                   wtrk, posts, hposts, ownerVars, channelVars, trackVars>>

-----------------------------------------------------------------------------
(* Threads that own channels.                                              *)

Step(o, l) == opc' = [opc EXCEPT ![o] = l]

\* Nobody is installing or uninstalling t.
Settled(t) == \A o \in Owners : otrk[o] = t => opc[o] = "arm"

\* install_channel_tracker: an acceptor's or a dialer's tracker expects its
\* event already and is tracked; a transport's is not.
Install(o, t, k) ==
    /\ opc[o] = "idle" /\ kind[t] = None
    /\ started
    /\ kind' = [kind EXCEPT ![t] = k]
    /\ held' = held \cup {t} /\ owned' = owned \cup {t}
    /\ tracked' = IF k = "transport" THEN tracked ELSE tracked \cup {t}
    /\ otrk' = [otrk EXCEPT ![o] = t]
    /\ Step(o, "add")
    /\ UNCHANGED <<started, queueVars, trackers, loopVars, pending, wtrk,
                   postVars, oop, installed, reg, ready>>

\* set_poller and EPOLL_CTL_ADD, which may fail.
InstallAdd(o) ==
    /\ opc[o] = "add"
    /\ \/ /\ installed' = installed \cup {otrk[o]}
          /\ reg' = [reg EXCEPT ![otrk[o]] =
                        IF kind[otrk[o]] = "transport" THEN "quiet" ELSE "armed"]
          /\ oop' = [oop EXCEPT ![o] = "append"]
          /\ Step(o, "claim")
          /\ UNCHANGED otrk
       \/ /\ otrk' = [otrk EXCEPT ![o] = None]
          /\ Step(o, "idle")
          /\ UNCHANGED <<installed, reg, oop>>
    /\ UNCHANGED <<started, queueVars, trackers, loopVars, pending, wtrk,
                   postVars, kind, held, owned, tracked, ready>>

\* tevents_.push: a slot is claimed and filled, then the counter is raised.
EventClaim(o) ==
    /\ opc[o] = "claim"
    /\ TrackerEvents!Claim([by |-> o, trk |-> otrk[o], op |-> oop[o]])
    /\ Step(o, "fill")
    /\ UNCHANGED <<started, cslots, ccnt, tcnt, trackers, loopVars, pending,
                   wtrk, postVars, otrk, oop, channelVars, trackVars>>

EventFill(o) ==
    /\ opc[o] = "fill"
    /\ \E i \in DOMAIN tslots : tslots[i].val.by = o /\ TrackerEvents!Fill(i)
    /\ Step(o, "count")
    /\ UNCHANGED <<started, cslots, ccnt, tcnt, trackers, loopVars, pending,
                   wtrk, postVars, otrk, oop, channelVars, trackVars>>

\* A removal is the end of the channel: its reference to the tracker goes.
EventCount(o) ==
    /\ opc[o] = "count"
    /\ tcnt' = tcnt + 1
    /\ owned' = IF oop[o] = "remove" THEN owned \ {otrk[o]} ELSE owned
    /\ otrk' = [otrk EXCEPT ![o] = None]
    /\ Step(o, "idle")
    /\ UNCHANGED <<started, cslots, ccnt, tslots, trackers, loopVars, pending,
                   wtrk, postVars, oop, kind, held, installed, trackVars>>

\* start_channel_tracker: track, then EPOLL_CTL_MOD.
Start(o, t) ==
    /\ opc[o] = "idle"
    /\ t \in held /\ kind[t] = "transport" /\ t \in installed /\ Settled(t)
    /\ t \notin tracked
    /\ tracked' = tracked \cup {t}
    /\ otrk' = [otrk EXCEPT ![o] = t]
    /\ Step(o, "arm")
    /\ UNCHANGED <<started, queueVars, trackers, loopVars, pending, wtrk,
                   postVars, oop, channelVars, reg, ready>>

\* Mutant: the registration is left as it was.
StartArmNot(o) ==
    /\ opc[o] = "arm"
    /\ otrk' = [otrk EXCEPT ![o] = None]
    /\ Step(o, "idle")
    /\ UNCHANGED <<started, queueVars, trackers, loopVars, pending, wtrk,
                   postVars, oop, channelVars, trackVars>>

StartArm(o) ==
    /\ opc[o] = "arm"
    /\ reg' = [reg EXCEPT ![otrk[o]] = "armed"]
    /\ otrk' = [otrk EXCEPT ![o] = None]
    /\ Step(o, "idle")
    /\ UNCHANGED <<started, queueVars, trackers, loopVars, pending, wtrk,
                   postVars, oop, channelVars, tracked, ready>>

\* The user drops the channel.  While the worker has it locked the worker is
\* the one to destroy it, otherwise the destructor runs here.
Release(o, t) ==
    /\ opc[o] = "idle"
    /\ t \in held /\ \A q \in Owners : otrk[q] # t
    /\ held' = held \ {t}
    /\ IF wtrk = t
       THEN UNCHANGED <<opc, otrk, oop>>
       ELSE /\ otrk' = [otrk EXCEPT ![o] = t]
            /\ oop' = [oop EXCEPT ![o] = "remove"]
            /\ Step(o, "uninstall")
    /\ UNCHANGED <<started, queueVars, trackers, loopVars, pending, wtrk,
                   postVars, kind, owned, installed, trackVars>>

\* Mutant: the tracker is taken out of the map at once.
UninstallErases(o) ==
    /\ opc[o] = "uninstall"
    /\ tracked' = tracked \ {otrk[o]}
    /\ reg' = [reg EXCEPT ![otrk[o]] = "none"]
    /\ trackers' = trackers \ {otrk[o]}
    /\ owned' = owned \ {otrk[o]}
    /\ otrk' = [otrk EXCEPT ![o] = None]
    /\ Step(o, "idle")
    /\ UNCHANGED <<started, queueVars, loopVars, pending, wtrk, postVars, oop,
                   kind, held, installed, ready>>

\* uninstall_channel_tracker does nothing if the poller is stopped.
Uninstall(o) ==
    /\ opc[o] = "uninstall"
    /\ IF started /\ otrk[o] \in installed
       THEN /\ tracked' = tracked \ {otrk[o]}
            /\ Step(o, "del")
            /\ UNCHANGED <<otrk, owned>>
       ELSE /\ owned' = owned \ {otrk[o]}
            /\ otrk' = [otrk EXCEPT ![o] = None]
            /\ Step(o, "idle")
            /\ UNCHANGED tracked
    /\ UNCHANGED <<started, queueVars, trackers, loopVars, pending, wtrk,
                   postVars, oop, kind, held, installed, reg, ready>>

\* EPOLL_CTL_DEL
UninstallDel(o) ==
    /\ opc[o] = "del"
    /\ reg' = [reg EXCEPT ![otrk[o]] = "none"]
    /\ Step(o, "claim")
    /\ UNCHANGED <<started, queueVars, trackers, loopVars, pending, wtrk,
                   postVars, otrk, oop, channelVars, tracked, ready>>

-----------------------------------------------------------------------------
(* The worker.                                                             *)

\* Mutant: one event is handled each time round.
TakeOneEvent ==
    /\ wpc = "loop" /\ started
    /\ cn' = (IF ccnt > 0 THEN 1 ELSE 0) /\ ccnt' = 0
    /\ wpc' = "cev"
    /\ UNCHANGED <<started, cslots, tslots, tcnt, trackers, tn, pending, wtrk,
                   postVars, ownerVars, channelVars, trackVars>>

TakeChannelEvents ==
    /\ wpc = "loop" /\ started
    /\ cn' = ccnt /\ ccnt' = 0
    /\ wpc' = "cev"
    /\ UNCHANGED <<started, cslots, tslots, tcnt, trackers, tn, pending, wtrk,
                   postVars, ownerVars, channelVars, trackVars>>

\* __handle_channel_events.  The channel's handler may post another event.
HandleChannelEvent ==
    /\ wpc = "cev" /\ cn > 0
    /\ \/ /\ ChannelEvents!CanPop
          /\ cn' = cn - 1
          /\ \/ ChannelEvents!Pop /\ UNCHANGED <<ccnt, hposts>>
             \/ /\ hposts < MaxHandlerPost /\ started
                /\ hposts' = hposts + 1
                /\ cslots' = Append(Tail(cslots), [val |-> [by |-> Worker], ready |-> TRUE])
                /\ ccnt' = ccnt + 1
          /\ UNCHANGED wpc
       \/ /\ ~ChannelEvents!CanPop
          /\ wpc' = "aborted"
          /\ UNCHANGED <<cn, cslots, ccnt, hposts>>
    /\ UNCHANGED <<started, tslots, tcnt, trackers, tn, pending, wtrk, ppc, posts,
                   ownerVars, channelVars, trackVars>>

TakeTrackerEvents ==
    /\ wpc = "cev" /\ cn = 0
    /\ tn' = tcnt /\ tcnt' = 0
    /\ wpc' = "tev"
    /\ UNCHANGED <<started, cslots, ccnt, tslots, trackers, cn, pending, wtrk,
                   postVars, ownerVars, channelVars, trackVars>>

\* __handle_channel_tracker_events
HandleTrackerEvent ==
    /\ wpc = "tev" /\ tn > 0
    /\ \/ /\ TrackerEvents!Pop
          /\ LET ev == Head(tslots).val
             IN  trackers' = IF ev.op = "append" THEN trackers \cup {ev.trk}
                                                 ELSE trackers \ {ev.trk}
          /\ tn' = tn - 1
          /\ UNCHANGED wpc
       \/ /\ ~TrackerEvents!CanPop
          /\ wpc' = "aborted"
          /\ UNCHANGED <<tslots, trackers, tn>>
    /\ UNCHANGED <<started, cslots, ccnt, tcnt, cn, pending, wtrk, postVars,
                   ownerVars, channelVars, trackVars>>

\* epoll_wait returns what is armed and ready, and disarms it.  A transport's
\* tracker that was installed and never started reports a hang-up, unasked.
Poll ==
    /\ wpc = "tev" /\ tn = 0
    /\ \E hup \in SUBSET {t \in Trackers : reg[t] = "quiet"} :
        LET fired == {t \in ready : reg[t] = "armed"}
        IN  /\ pending' = fired \cup hup
            /\ reg' = [t \in Trackers |-> IF t \in fired THEN "spent" ELSE reg[t]]
    /\ wpc' = "dispatch"
    /\ UNCHANGED <<started, queueVars, trackers, cn, tn, wtrk, postVars,
                   ownerVars, channelVars, tracked, ready>>

\* Mutant: the tracker stays tracked.
DispatchKeepsTracked(t) ==
    /\ wpc = "dispatch" /\ t \in pending
    /\ pending' = pending \ {t}
    /\ IF t \in tracked /\ t \in held
       THEN wtrk' = t /\ wpc' = "handle"
       ELSE UNCHANGED <<wtrk, wpc>>
    /\ UNCHANGED <<started, queueVars, trackers, cn, tn, postVars, ownerVars,
                   channelVars, trackVars>>

\* __dispatch_pending_event, for one element: untrack through the raw pointer,
\* then lock the channel.
Dispatch(t) ==
    /\ wpc = "dispatch" /\ t \in pending
    /\ pending' = pending \ {t}
    /\ tracked' = tracked \ {t}
    /\ IF t \in tracked /\ t \in held
       THEN wtrk' = t /\ wpc' = "handle"
       ELSE UNCHANGED <<wtrk, wpc>>
    /\ UNCHANGED <<started, queueVars, trackers, cn, tn, postVars, ownerVars,
                   channelVars, reg, ready>>

DispatchEnds ==
    /\ wpc = "dispatch" /\ pending = {}
    /\ wpc' = "loop"
    /\ UNCHANGED <<started, queueVars, trackers, cn, tn, pending, wtrk, postVars,
                   ownerVars, channelVars, trackVars>>

WorkerExits ==
    /\ wpc = "loop" /\ ~started
    /\ wpc' = "exited"
    /\ UNCHANGED <<started, queueVars, trackers, cn, tn, pending, wtrk, postVars,
                   ownerVars, channelVars, trackVars>>

-----------------------------------------------------------------------------
(* The channel's handler, in the worker.                                   *)

Consumed == ready' \in {ready, ready \ {wtrk}}

\* The worker is the only thread that pops, so its own push is one step.
PushRemove(t) ==
    /\ tslots' = Append(tslots, [val |-> [by |-> Worker, trk |-> t, op |-> "remove"],
                                 ready |-> TRUE])
    /\ tcnt' = tcnt + 1

\* uninstall_channel_tracker by the worker.
WorkerUninstalls(t) ==
    IF started /\ t \in installed
    THEN /\ tracked' = tracked \ {t}
         /\ reg' = [reg EXCEPT ![t] = "none"]
         /\ PushRemove(t)
    ELSE UNCHANGED <<tracked, reg, tslots, tcnt>>

\* An acceptor goes on, and so may a transport: track, then arm.
HandlerRestarts ==
    /\ wpc = "handle" /\ kind[wtrk] \in {"transport", "acceptor"}
    /\ Consumed
    /\ tracked' = tracked \cup {wtrk}
    /\ wpc' = IF wtrk \in tracked THEN "handled" ELSE "rearm"
    /\ UNCHANGED <<started, queueVars, trackers, cn, tn, pending, wtrk, postVars,
                   ownerVars, channelVars, reg>>

HandlerRearms ==
    /\ wpc = "rearm"
    /\ reg' = [reg EXCEPT ![wtrk] = "armed"]
    /\ wpc' = "handled"
    /\ UNCHANGED <<started, queueVars, trackers, cn, tn, pending, wtrk, postVars,
                   ownerVars, channelVars, tracked, ready>>

HandlerPauses ==
    /\ wpc = "handle" /\ kind[wtrk] = "transport"
    /\ Consumed
    /\ wpc' = "handled"
    /\ UNCHANGED <<started, queueVars, trackers, cn, tn, pending, wtrk, postVars,
                   ownerVars, channelVars, tracked, reg>>

\* A dialer's on_send_event uninstalls, perhaps before the thread that
\* installs has queued its append; the destructor uninstalls once more.
HandlerUninstalls ==
    /\ wpc = "handle" /\ kind[wtrk] = "dialer"
    /\ WorkerUninstalls(wtrk)
    /\ wpc' = "handled"
    /\ UNCHANGED <<started, cslots, ccnt, trackers, cn, tn, pending, wtrk,
                   postVars, ownerVars, channelVars, ready>>

\* Mutant: what a handler uninstalled is not uninstalled again.
HandlerEndsOnce ==
    /\ wpc = "handled"
    /\ IF wtrk \in held \/ kind[wtrk] = "dialer"
       THEN UNCHANGED <<tracked, reg, tslots, tcnt>>
       ELSE WorkerUninstalls(wtrk)
    /\ owned' = IF wtrk \in held THEN owned ELSE owned \ {wtrk}
    /\ wtrk' = None
    /\ wpc' = "dispatch"
    /\ UNCHANGED <<started, cslots, ccnt, trackers, cn, tn, pending, postVars,
                   ownerVars, kind, held, installed, ready>>

\* The lock on the channel is released: if it was the last reference, the
\* destructor runs.
HandlerEnds ==
    /\ wpc = "handled"
    /\ IF wtrk \in held
       THEN UNCHANGED <<tracked, reg, tslots, tcnt, owned>>
       ELSE WorkerUninstalls(wtrk) /\ owned' = owned \ {wtrk}
    /\ wtrk' = None
    /\ wpc' = "dispatch"
    /\ UNCHANGED <<started, cslots, ccnt, trackers, cn, tn, pending, postVars,
                   ownerVars, kind, held, installed, ready>>

-----------------------------------------------------------------------------
\* The descriptor of a tracker becomes ready.
BecomesReady(t) ==
    /\ t \notin ready /\ kind[t] # None
    /\ ready' = ready \cup {t}
    /\ UNCHANGED <<started, queueVars, trackers, loopVars, pending, wtrk,
                   postVars, ownerVars, channelVars, tracked, reg>>

-----------------------------------------------------------------------------
OwnerStep(o) ==
    \/ InstallAdd(o) \/ EventClaim(o) \/ EventFill(o) \/ EventCount(o)
    \/ StartArm(o) \/ Uninstall(o) \/ UninstallDel(o)

WorkerStep ==
    \/ TakeChannelEvents \/ HandleChannelEvent \/ TakeTrackerEvents
    \/ HandleTrackerEvent \/ Poll \/ (\E t \in Trackers : Dispatch(t))
    \/ DispatchEnds \/ WorkerExits
    \/ HandlerRestarts \/ HandlerRearms \/ HandlerPauses
    \/ HandlerUninstalls \/ HandlerEnds

Next ==
    \/ Stop \/ WorkerStep
    \/ \E p \in Posters : Post(p) \/ PostFill(p) \/ PostCount(p)
    \/ \E o \in Owners :
        \/ OwnerStep(o)
        \/ \E t \in Trackers :
            Start(o, t) \/ Release(o, t) \/ \E k \in Kinds : Install(o, t, k)
    \/ \E t \in Trackers : BecomesReady(t)

Spec == Init /\ [][Next]_vars

\* A thread inside a call keeps running, and so does the worker: epoll_wait
\* has a timeout.
Fairness ==
    /\ WF_vars(WorkerStep)
    /\ \A p \in Posters : WF_vars(PostFill(p) \/ PostCount(p))
    /\ \A o \in Owners : WF_vars(OwnerStep(o))

FairSpec == Spec /\ Fairness

-----------------------------------------------------------------------------
(* Properties.                                                             *)

\* Every variable has the shape the code gives it.
TypeOK ==
    /\ started \in BOOLEAN
    /\ cslots \in Seq([val : [by : Posters \cup {Worker}], ready : BOOLEAN])
    /\ tslots \in Seq([val : [by : Owners \cup {Worker}, trk : Trackers,
                              op : {"append", "remove"}], ready : BOOLEAN])
    /\ ccnt \in Nat /\ tcnt \in Nat /\ cn \in Nat /\ tn \in Nat
    /\ wpc \in {"loop", "cev", "tev", "dispatch", "handle", "rearm", "handled",
                "exited", "aborted"}
    /\ wtrk \in Trackers \cup {None}
    /\ ppc \in [Posters -> {"idle", "fill", "count"}]
    /\ posts \in [Posters -> 0 .. MaxPost] /\ hposts \in 0 .. MaxHandlerPost
    /\ opc \in [Owners -> {"idle", "add", "claim", "fill", "count", "arm",
                           "uninstall", "del"}]
    /\ otrk \in [Owners -> Trackers \cup {None}]
    /\ oop \in [Owners -> {"append", "remove"}]
    /\ kind \in [Trackers -> Kinds \cup {None}]
    /\ reg \in [Trackers -> {"none", "quiet", "armed", "spent"}]
    /\ trackers \cup pending \cup held \cup owned \cup installed \cup tracked \cup ready
         \subseteq Trackers

\* The worker has aborted, or the poller was stopped.
Down == wpc = "aborted" \/ ~started

\* cev_cnt_ and tev_cnt_ account for every queued event: what the worker has
\* still to take, what it has taken and not popped, and the events of threads
\* that have not raised the counter yet.
CountersMatch ==
    /\ Len(cslots) = ccnt + cn + Cardinality({p \in Posters : ppc[p] # "idle"})
    /\ Len(tslots) = tcnt + tn
                     + Cardinality({o \in Owners : opc[o] \in {"fill", "count"}})

\* The inductive invariant has these parts beside types and counters.
\*
\* A tracker event for t is queued.
Queued(t, op) == \E i \in DOMAIN tslots : tslots[i].val.trk = t /\ tslots[i].val.op = op

\* The thread o removes its tracker, up to the counter of its event.
Removing(o) ==
    \/ opc[o] \in {"uninstall", "del"}
    \/ opc[o] \in {"claim", "fill", "count"} /\ oop[o] = "remove"

\* What an owner's control state says of its tracker.  Two threads have the
\* same tracker only while both arm it.
OwnerLocals ==
    /\ \A o \in Owners :
        /\ opc[o] = "idle" <=> otrk[o] = None
        /\ otrk[o] # None => kind[otrk[o]] # None
        /\ opc[o] = "add" => otrk[o] \in held \ installed
        /\ opc[o] = "arm" => otrk[o] \in held \cap installed /\ kind[otrk[o]] = "transport"
        /\ opc[o] \in {"claim", "fill", "count"} =>
               otrk[o] \in installed /\ (oop[o] = "append" => otrk[o] \in held)
        /\ Removing(o) => otrk[o] \notin held /\ wtrk # otrk[o] /\ oop[o] = "remove"
        /\ Removing(o) /\ opc[o] # "uninstall" =>
               otrk[o] \in installed \ tracked /\ (opc[o] # "del" => reg[otrk[o]] = "none")
    /\ \A o, p \in Owners :
        o # p /\ otrk[o] = otrk[p] /\ otrk[o] # None => opc[o] = "arm" /\ opc[p] = "arm"

\* What the worker's control state says of its tracker and of pending.
WorkerLocals ==
    /\ wpc \in {"handle", "rearm", "handled"} <=> wtrk # None
    /\ wpc = "rearm" => kind[wtrk] \in {"transport", "acceptor"}
    /\ wtrk # None => wtrk \in installed
    /\ cn # 0 => wpc \in {"cev", "aborted"}
    /\ tn # 0 => wpc \in {"tev", "aborted"}
    /\ pending # {} => wpc \in {"dispatch", "handle", "rearm", "handled"}

\* A channel that a user holds exists.  What is registered, queued or pending
\* was installed, and a transport's tracker is not tracked before.
Installed ==
    /\ held \subseteq owned /\ pending \subseteq installed
    /\ \A t \in Trackers :
        /\ t \in held \cup installed \cup tracked => kind[t] # None
        /\ t \in tracked /\ kind[t] = "transport" => t \in installed
        /\ reg[t] # "none" => t \in installed
        /\ Queued(t, "append") \/ Queued(t, "remove") => t \in installed

\* The worker's map has the tracker, or will have it.
Mapped(t) ==
    \/ t \in trackers \/ Queued(t, "append")
    \/ \E o \in Owners : otrk[o] = t /\ opc[o] = "claim" /\ oop[o] = "append"

\* Nothing registers t with epoll any more.
Over(t) ==
    /\ reg[t] = "none"
    /\ kind[t] = "dialer" \/ (t \notin held /\ wtrk # t)

\* An installed tracker is mapped and nobody removes it, or it is over.  One
\* that is pending is mapped, or its removal waits for the worker.
MappedOrOver ==
    /\ \A t \in installed : (Mapped(t) /\ ~Queued(t, "remove")) \/ Over(t)
    /\ \A t \in pending : Mapped(t) \/ Queued(t, "remove")

\* Queues, counters and trackers are right.
IInv ==
    /\ TypeOK /\ CountersMatch
    /\ OwnerLocals /\ WorkerLocals /\ Installed /\ MappedOrOver

\* The tracker t has not been freed.
Alive(t) ==
    \/ t \in owned \/ t \in trackers
    \/ \E i \in DOMAIN tslots : tslots[i].val.trk = t

\* A tracker that epoll_wait returned is not freed before it is dispatched,
\* and none that epoll may return is freed: both are reached through a raw
\* pointer.
TrackerAlive ==
    /\ \A t \in pending : Alive(t)
    /\ \A t \in Trackers : reg[t] # "none" => Alive(t)

\* A tracked tracker is armed, is about to be, or is about to be dispatched:
\* otherwise its events are lost, and it cannot be started again.
TrackedIsArmed ==
    \A t \in tracked :
        \/ reg[t] = "armed"
        \/ t \in pending
        \/ wpc = "rearm" /\ wtrk = t
        \/ \E o \in Owners : otrk[o] = t /\ opc[o] \in {"add", "arm"}
        \/ t \notin installed

\* Every posted channel event is handled.
EventsHandled == []<>(cslots = <<>> \/ Down)

\* The channel of a started tracker that is ready is told.
ReadyDispatched ==
    \A t \in Trackers :
        (t \in tracked \cap ready \cap installed) ~> (t \notin tracked \cap ready \/ Down)

\* The tracker of a channel that was dropped is freed in the end.
TrackerFreed ==
    \A t \in Trackers : (kind[t] # None /\ t \notin held) ~> (~Alive(t) \/ Down)

\* A pop in the worker finds the event that was counted: otherwise it aborts
\* with "pop channel event from queue failed".
PollerNeverAborts == wpc # "aborted"
=============================================================================
