---------------------------- MODULE Poller_proofs ----------------------------
(***************************************************************************)
(* Proofs about Poller: the counters of its two queues, and the life of    *)
(* its trackers, which the worker and epoll reach through raw pointers,    *)
(* for any number of threads and trackers.  The invariant is proved in two *)
(* halves: QInv (types and counters) and Trk (the trackers).               *)
(***************************************************************************)
EXTENDS Poller, FiniteSetTheorems, SequenceTheorems, TLAPS

\* What is right of the trackers.
Trk == OwnerLocals /\ WorkerLocals /\ Installed /\ MappedOrOver /\ TrackedIsArmed

\* The elements of tevents_.
TSlot == [val : [by : Owners \cup {Worker}, trk : Trackers, op : {"append", "remove"}],
          ready : BOOLEAN]
CSlot == [val : [by : Posters \cup {Worker}], ready : BOOLEAN]

-----------------------------------------------------------------------------
(* The tracker events in the queue.                                        *)

\* A new event is queued, and the others still are.
LEMMA QueuedAppend ==
    ASSUME tslots \in Seq(TSlot), NEW e \in TSlot, tslots' = Append(tslots, e),
           NEW t, NEW op
    PROVE  Queued(t, op)' <=> Queued(t, op) \/ (e.val.trk = t /\ e.val.op = op)
<1>1. /\ Len(tslots') = Len(tslots) + 1 /\ Len(tslots) \in Nat
      /\ tslots'[Len(tslots) + 1] = e
      /\ \A i \in 1 .. Len(tslots) : tslots'[i] = tslots[i]
  BY AppendProperties
<1>2. DOMAIN tslots' = 1 .. (Len(tslots) + 1) /\ DOMAIN tslots = 1 .. Len(tslots)
  BY <1>1, AppendProperties
<1> QED BY <1>1, <1>2 DEF Queued

\* Filling a slot changes no event.
LEMMA QueuedFill ==
    ASSUME tslots \in Seq(TSlot), NEW i \in DOMAIN tslots, TrackerEvents!Fill(i)
    PROVE  /\ tslots' \in Seq(TSlot) /\ Len(tslots') = Len(tslots)
           /\ \A t, op : Queued(t, op)' <=> Queued(t, op)
<1>1. i \in 1 .. Len(tslots) /\ tslots[i] \in TSlot
  OBVIOUS
<1>2. tslots' = [tslots EXCEPT ![i] = [tslots[i] EXCEPT !.ready = TRUE]]
  BY DEF TrackerEvents!Fill
<1>3. [tslots[i] EXCEPT !.ready = TRUE] \in TSlot
  BY <1>1 DEF TSlot
<1>4. tslots' \in Seq(TSlot) /\ Len(tslots') = Len(tslots)
  BY <1>1, <1>2, <1>3, ExceptSeq
<1>5. DOMAIN tslots' = DOMAIN tslots /\ \A j \in DOMAIN tslots : tslots'[j].val = tslots[j].val
  BY <1>2
<1> QED BY <1>4, <1>5 DEF Queued

\* The oldest event is popped.
LEMMA QueuedPop ==
    ASSUME tslots \in Seq(TSlot), tslots # <<>>, tslots' = Tail(tslots),
           NEW t, NEW op
    PROVE  /\ Queued(t, op)' => Queued(t, op)
           /\ Queued(t, op) =>
                Queued(t, op)' \/ (Head(tslots).val.trk = t /\ Head(tslots).val.op = op)
<1>1. /\ Len(tslots') = Len(tslots) - 1 /\ Len(tslots) \in Nat \ {0}
      /\ \A i \in 1 .. Len(tslots) - 1 : tslots'[i] = tslots[i + 1]
      /\ Head(tslots) = tslots[1]
      /\ DOMAIN tslots' = 1 .. (Len(tslots) - 1) /\ DOMAIN tslots = 1 .. Len(tslots)
  BY HeadTailProperties
<1>2. Queued(t, op)' => Queued(t, op)
  <2>1. \A i \in DOMAIN tslots' : i + 1 \in DOMAIN tslots /\ tslots'[i] = tslots[i + 1]
    BY <1>1
  <2> QED BY <2>1 DEF Queued
<1>3. ASSUME NEW i \in DOMAIN tslots, i # 1
      PROVE  i - 1 \in DOMAIN tslots' /\ tslots'[i - 1] = tslots[i]
  <2>1. i \in 1 .. Len(tslots)
    BY <1>1
  <2>2. i - 1 \in 1 .. Len(tslots) - 1 /\ (i - 1) + 1 = i
    BY <1>1, <1>3, <2>1
  <2>3. tslots'[i - 1] = tslots[(i - 1) + 1]
    BY <1>1, <2>2
  <2> QED BY <1>1, <2>2, <2>3
<1> QED BY <1>1, <1>2, <1>3 DEF Queued

-----------------------------------------------------------------------------
(* The threads in a push.                                                  *)

Posting == {p \in Posters : ppc[p] # "idle"}
Queueing == {o \in Owners : opc[o] \in {"fill", "count"}}

\* They can be counted.
LEMMA PushingFinite ==
    ASSUME PollerAssumption
    PROVE  /\ IsFiniteSet(Posting) /\ Cardinality(Posting) \in Nat
           /\ IsFiniteSet(Queueing) /\ Cardinality(Queueing) \in Nat
<1>1. Posting \in SUBSET Posters /\ Queueing \in SUBSET Owners
  BY DEF Posting, Queueing
<1>2. IsFiniteSet(Posting) /\ IsFiniteSet(Queueing)
  BY <1>1, FS_Subset DEF PollerAssumption
<1> QED BY <1>2, FS_CardinalityType

\* A thread that begins to post is one more, one that has raised the counter
\* is one less.
LEMMA PostingChange ==
    ASSUME PollerAssumption, TypeOK, NEW p \in Posters, NEW l \in {"idle", "fill", "count"},
           PGoto(p, l)
    PROVE  /\ ppc[p] = "idle" /\ l # "idle" => Cardinality(Posting') = Cardinality(Posting) + 1
           /\ ppc[p] # "idle" /\ l = "idle" => Cardinality(Posting') = Cardinality(Posting) - 1
           /\ ppc[p] # "idle" /\ l # "idle" => Posting' = Posting
<1>1. ASSUME ppc[p] = "idle", l # "idle"
      PROVE  Cardinality(Posting') = Cardinality(Posting) + 1
  <2>1. Posting' = Posting \cup {p} /\ p \notin Posting
    BY <1>1 DEF Posting, PGoto, TypeOK
  <2> QED BY <2>1, PushingFinite, FS_AddElement
<1>2. ASSUME ppc[p] # "idle", l = "idle"
      PROVE  Cardinality(Posting') = Cardinality(Posting) - 1
  <2>1. Posting' = Posting \ {p} /\ p \in Posting
    BY <1>2 DEF Posting, PGoto, TypeOK
  <2> QED BY <2>1, PushingFinite, FS_RemoveElement
<1>3. ASSUME ppc[p] # "idle", l # "idle"
      PROVE  Posting' = Posting
  BY <1>3 DEF Posting, PGoto, TypeOK
<1> QED BY <1>1, <1>2, <1>3

\* The same for a thread that queues a tracker event.
LEMMA QueueingChange ==
    ASSUME PollerAssumption, TypeOK, NEW o \in Owners, NEW l, Step(o, l)
    PROVE  /\ opc[o] \notin {"fill", "count"} /\ l \in {"fill", "count"} =>
                 Cardinality(Queueing') = Cardinality(Queueing) + 1
           /\ opc[o] \in {"fill", "count"} /\ l \notin {"fill", "count"} =>
                 Cardinality(Queueing') = Cardinality(Queueing) - 1
           /\ (opc[o] \in {"fill", "count"} <=> l \in {"fill", "count"}) =>
                 Queueing' = Queueing
<1>1. ASSUME opc[o] \notin {"fill", "count"}, l \in {"fill", "count"}
      PROVE  Cardinality(Queueing') = Cardinality(Queueing) + 1
  <2>1. Queueing' = Queueing \cup {o} /\ o \notin Queueing
    BY <1>1 DEF Queueing, Step, TypeOK
  <2> QED BY <2>1, PushingFinite, FS_AddElement
<1>2. ASSUME opc[o] \in {"fill", "count"}, l \notin {"fill", "count"}
      PROVE  Cardinality(Queueing') = Cardinality(Queueing) - 1
  <2>1. Queueing' = Queueing \ {o} /\ o \in Queueing
    BY <1>2 DEF Queueing, Step, TypeOK
  <2> QED BY <2>1, PushingFinite, FS_RemoveElement
<1>3. ASSUME opc[o] \in {"fill", "count"} <=> l \in {"fill", "count"}
      PROVE  Queueing' = Queueing
  BY <1>3 DEF Queueing, Step, TypeOK
<1> QED BY <1>1, <1>2, <1>3

\* CountersMatch, one queue at a time.
CevMatch == Len(cslots) = ccnt + cn + Cardinality(Posting)
TevMatch == Len(tslots) = tcnt + tn + Cardinality(Queueing)

\* A step that does not touch a queue keeps its counters right.
LEMMA SameCev ==
    ASSUME CevMatch, UNCHANGED <<cslots, ccnt, cn, ppc>>
    PROVE  CevMatch'
<1>1. Posting' = Posting
  BY DEF Posting
<1> QED BY <1>1 DEF CevMatch

\* The same for tevents_.
LEMMA SameTev ==
    ASSUME TevMatch, UNCHANGED <<tslots, tcnt, tn>>, Queueing' = Queueing
    PROVE  TevMatch'
BY DEF TevMatch

-----------------------------------------------------------------------------
(* Types and counters, step by step.                                       *)

\* What the steps below rely on and keep.
QInv == TypeOK /\ CevMatch /\ TevMatch

\* Posting threads.
LEMMA PosterQInv ==
    ASSUME PollerAssumption, QInv, NEW p \in Posters, Post(p) \/ PostFill(p) \/ PostCount(p)
    PROVE  QInv'
<1> USE DEF ownerVars, channelVars, trackVars, loopVars
<1>0. TypeOK /\ CevMatch /\ TevMatch
  BY DEF QInv
<1>a. Cardinality(Posting) \in Nat
  BY PushingFinite
<1>b. TevMatch'
  <2>1. Queueing' = Queueing /\ UNCHANGED <<tslots, tcnt, tn>>
    BY DEF Post, PostFill, PostCount, Queueing
  <2> QED BY <1>0, <2>1, SameTev
<1>1. CASE Post(p)
  <2>1. cslots' = Append(cslots, [val |-> [by |-> p], ready |-> FALSE])
    BY <1>1 DEF Post, ChannelEvents!Claim
  <2>2. cslots \in Seq(CSlot) /\ [val |-> [by |-> p], ready |-> FALSE] \in CSlot
    BY <1>0 DEF TypeOK, CSlot
  <2>3. cslots' \in Seq(CSlot) /\ Len(cslots') = Len(cslots) + 1
    BY <2>1, <2>2, AppendProperties
  <2>4. TypeOK'
    BY <1>0, <1>1, <2>3 DEF PollerAssumption, TypeOK, CSlot, Post, PGoto
  <2>5. Cardinality(Posting') = Cardinality(Posting) + 1
    BY <1>0, <1>1, PostingChange DEF Post
  <2>6. CevMatch'
    BY <1>0, <1>1, <1>a, <2>3, <2>5 DEF CevMatch, TypeOK, Post
  <2> QED BY <1>b, <2>4, <2>6 DEF QInv
<1>2. CASE PostFill(p)
  <2>1. PICK i \in DOMAIN cslots : cslots' = [cslots EXCEPT ![i].ready = TRUE]
    BY <1>2 DEF PostFill, ChannelEvents!Fill
  <2>a. cslots \in Seq(CSlot) /\ i \in 1 .. Len(cslots)
    BY <1>0, <2>1 DEF TypeOK, CSlot
  <2>2. cslots[i] \in CSlot
    BY <2>a
  <2>3. [cslots[i] EXCEPT !.ready = TRUE] \in CSlot
    BY <2>2 DEF CSlot
  <2>b. cslots' = [cslots EXCEPT ![i] = [cslots[i] EXCEPT !.ready = TRUE]]
    BY <2>1
  <2>4. cslots' \in Seq(CSlot) /\ Len(cslots') = Len(cslots)
    BY <2>a, <2>b, <2>3, ExceptSeq
  <2>5. TypeOK'
    BY <1>0, <1>2, <2>4 DEF TypeOK, CSlot, PostFill, PGoto
  <2>6. Posting' = Posting
    BY <1>0, <1>2, PostingChange DEF PostFill
  <2>7. CevMatch'
    BY <1>0, <1>2, <2>4, <2>6 DEF CevMatch, PostFill
  <2> QED BY <1>b, <2>5, <2>7 DEF QInv
<1>3. CASE PostCount(p)
  <2>1. TypeOK'
    BY <1>0, <1>3 DEF TypeOK, PostCount, PGoto
  <2>2. Cardinality(Posting') = Cardinality(Posting) - 1
    BY <1>0, <1>3, PostingChange DEF PostCount
  <2>3. CevMatch'
    BY <1>0, <1>3, <1>a, <2>2 DEF CevMatch, TypeOK, PostCount
  <2> QED BY <1>b, <2>1, <2>3 DEF QInv
<1> QED BY <1>1, <1>2, <1>3

\* A thread in the middle of a call has a tracker.
LEMMA OwnerHasTracker ==
    ASSUME TypeOK, OwnerLocals, NEW o \in Owners, opc[o] # "idle"
    PROVE  otrk[o] \in Trackers /\ otrk[o] # None
BY DEF TypeOK, OwnerLocals

\* Threads that own channels.
LEMMA OwnerQInv ==
    ASSUME PollerAssumption, QInv, OwnerLocals, NEW o \in Owners, OwnerStep(o)
    PROVE  QInv'
<1> USE DEF postVars, channelVars, trackVars, loopVars, queueVars
<1>0. TypeOK /\ CevMatch /\ TevMatch
  BY DEF QInv
<1>a. Cardinality(Queueing) \in Nat
  BY PushingFinite
<1>b. CevMatch'
  <2>1. UNCHANGED <<cslots, ccnt, cn, ppc>>
    BY DEF OwnerStep, InstallAdd, EventClaim, EventFill, EventCount, StartArm, Uninstall,
           UninstallDel
  <2> QED BY <1>0, <2>1, SameCev
<1>1. CASE InstallAdd(o)
  <2>1. otrk[o] \in Trackers
    BY <1>0, <1>1, OwnerHasTracker DEF InstallAdd
  <2>2. TypeOK'
    BY <1>0, <1>1, <2>1 DEF TypeOK, InstallAdd, Step
  <2>3. Queueing' = Queueing
    BY <1>0, <1>1, QueueingChange DEF InstallAdd
  <2>4. TevMatch'
    BY <1>0, <1>1, <2>3, SameTev DEF InstallAdd
  <2> QED BY <1>b, <2>2, <2>4 DEF QInv
<1>2. CASE EventClaim(o)
  <2> DEFINE e == [val |-> [by |-> o, trk |-> otrk[o], op |-> oop[o]], ready |-> FALSE]
  <2>1. otrk[o] \in Trackers
    BY <1>0, <1>2, OwnerHasTracker DEF EventClaim
  <2>2. tslots' = Append(tslots, e)
    BY <1>2 DEF EventClaim, TrackerEvents!Claim
  <2>3. tslots \in Seq(TSlot) /\ e \in TSlot
    BY <1>0, <2>1 DEF TypeOK, TSlot
  <2>4. tslots' \in Seq(TSlot) /\ Len(tslots') = Len(tslots) + 1
    BY <2>2, <2>3, AppendProperties
  <2>5. TypeOK'
    BY <1>0, <1>2, <2>4 DEF TypeOK, TSlot, EventClaim, Step
  <2>6. Cardinality(Queueing') = Cardinality(Queueing) + 1
    BY <1>0, <1>2, QueueingChange DEF EventClaim
  <2>7. TevMatch'
    BY <1>0, <1>2, <1>a, <2>4, <2>6 DEF TevMatch, TypeOK, EventClaim
  <2> QED BY <1>b, <2>5, <2>7 DEF QInv
<1>3. CASE EventFill(o)
  <2>1. tslots' \in Seq(TSlot) /\ Len(tslots') = Len(tslots)
    BY <1>0, <1>3, QueuedFill DEF TypeOK, TSlot, EventFill
  <2>2. TypeOK'
    BY <1>0, <1>3, <2>1 DEF TypeOK, TSlot, EventFill, Step
  <2>3. Queueing' = Queueing
    BY <1>0, <1>3, QueueingChange DEF EventFill
  <2>4. TevMatch'
    BY <1>0, <1>3, <2>1, <2>3 DEF TevMatch, EventFill
  <2> QED BY <1>b, <2>2, <2>4 DEF QInv
<1>4. CASE EventCount(o)
  <2>1. TypeOK'
    BY <1>0, <1>4 DEF TypeOK, EventCount, Step
  <2>2. Cardinality(Queueing') = Cardinality(Queueing) - 1
    BY <1>0, <1>4, QueueingChange DEF EventCount
  <2>3. TevMatch'
    BY <1>0, <1>4, <1>a, <2>2 DEF TevMatch, TypeOK, EventCount
  <2> QED BY <1>b, <2>1, <2>3 DEF QInv
<1>5. CASE StartArm(o) \/ Uninstall(o) \/ UninstallDel(o)
  <2>1. TypeOK'
    <3>1. CASE StartArm(o)
      BY <1>0, <3>1 DEF TypeOK, StartArm, Step
    <3>2. CASE Uninstall(o)
      <4>1. /\ opc' \in [Owners -> {"idle", "add", "claim", "fill", "count", "arm",
                                   "uninstall", "del"}]
            /\ otrk' \in [Owners -> Trackers \cup {None}]
            /\ tracked' \subseteq tracked /\ owned' \subseteq owned
        BY <1>0, <3>2 DEF TypeOK, Uninstall, Step
      <4> QED BY <1>0, <3>2, <4>1 DEF TypeOK, Uninstall
    <3>3. CASE UninstallDel(o)
      BY <1>0, <3>3 DEF TypeOK, UninstallDel, Step
    <3> QED BY <1>5, <3>1, <3>2, <3>3
  <2>2. Queueing' = Queueing
    BY <1>0, <1>5, QueueingChange DEF StartArm, Uninstall, UninstallDel
  <2>3. TevMatch'
    BY <1>0, <1>5, <2>2, SameTev DEF StartArm, Uninstall, UninstallDel
  <2> QED BY <1>b, <2>1, <2>3 DEF QInv
<1> QED BY <1>1, <1>2, <1>3, <1>4, <1>5 DEF OwnerStep

\* The calls that a user makes of an idle thread.
LEMMA UserQInv ==
    ASSUME PollerAssumption, QInv, NEW o \in Owners, NEW t \in Trackers,
           Start(o, t) \/ Release(o, t) \/ \E k \in Kinds : Install(o, t, k)
    PROVE  QInv'
<1> USE DEF postVars, channelVars, trackVars, loopVars, queueVars
<1>0. TypeOK /\ CevMatch /\ TevMatch
  BY DEF QInv
<1>b. CevMatch'
  <2>1. UNCHANGED <<cslots, ccnt, cn, ppc>>
    BY DEF Start, Release, Install
  <2> QED BY <1>0, <2>1, SameCev
<1>1. CASE Start(o, t)
  <2>1. TypeOK'
    BY <1>0, <1>1 DEF TypeOK, Start, Step
  <2>2. Queueing' = Queueing
    BY <1>0, <1>1, QueueingChange DEF Start
  <2>3. TevMatch'
    BY <1>0, <1>1, <2>2, SameTev DEF Start
  <2> QED BY <1>b, <2>1, <2>3 DEF QInv
<1>2. CASE Release(o, t)
  <2>1. TypeOK'
    BY <1>0, <1>2 DEF TypeOK, Release, Step
  <2>2. Queueing' = Queueing
    <3>1. CASE UNCHANGED opc
      BY <3>1 DEF Queueing
    <3>2. CASE Step(o, "uninstall")
      BY <1>0, <1>2, <3>2, QueueingChange DEF Release
    <3> QED BY <1>2, <3>1, <3>2 DEF Release
  <2>3. TevMatch'
    BY <1>0, <1>2, <2>2, SameTev DEF Release
  <2> QED BY <1>b, <2>1, <2>3 DEF QInv
<1>3. ASSUME NEW k \in Kinds, Install(o, t, k) PROVE QInv'
  <2>1. TypeOK'
    BY <1>0, <1>3 DEF TypeOK, Install, Step
  <2>2. Queueing' = Queueing
    BY <1>0, <1>3, QueueingChange DEF Install
  <2>3. TevMatch'
    BY <1>0, <1>3, <2>2, SameTev DEF Install
  <2> QED BY <1>b, <2>1, <2>3 DEF QInv
<1> QED BY <1>1, <1>2, <1>3

\* The worker with its two queues.
LEMMA WorkerQueueQInv ==
    ASSUME PollerAssumption, QInv, WorkerLocals,
           \/ TakeChannelEvents \/ HandleChannelEvent
           \/ TakeTrackerEvents \/ HandleTrackerEvent
    PROVE  QInv'
<1> USE DEF postVars, ownerVars, channelVars, trackVars
<1>0. TypeOK /\ CevMatch /\ TevMatch
  BY DEF QInv
<1>a. Posting' = Posting /\ Queueing' = Queueing
  BY DEF TakeChannelEvents, HandleChannelEvent, TakeTrackerEvents, HandleTrackerEvent,
         Posting, Queueing
<1>b. Cardinality(Posting) \in Nat /\ Cardinality(Queueing) \in Nat
  BY PushingFinite
<1>1. CASE TakeChannelEvents
  <2>1. TypeOK'
    BY <1>0, <1>1 DEF TypeOK, TakeChannelEvents
  <2>2. cn = 0
    BY <1>1 DEF WorkerLocals, TakeChannelEvents
  <2>3. CevMatch'
    BY <1>0, <1>1, <1>a, <1>b, <2>2 DEF CevMatch, TypeOK, TakeChannelEvents
  <2>4. TevMatch'
    BY <1>0, <1>1, <1>a, SameTev DEF TakeChannelEvents
  <2> QED BY <2>1, <2>3, <2>4 DEF QInv
<1>2. CASE HandleChannelEvent
  <2>t. TevMatch'
    BY <1>0, <1>2, <1>a, SameTev DEF HandleChannelEvent
  <2>1. CASE ~ChannelEvents!CanPop
    <3>1. TypeOK'
      BY <1>0, <1>2, <2>1 DEF TypeOK, HandleChannelEvent
    <3>2. CevMatch'
      BY <1>0, <1>2, <2>1, SameCev DEF HandleChannelEvent
    <3> QED BY <2>t, <3>1, <3>2 DEF QInv
  <2>2. CASE ChannelEvents!CanPop
    <3> DEFINE e == [val |-> [by |-> Worker], ready |-> TRUE]
    <3>1. cslots \in Seq(CSlot) /\ cslots # <<>> /\ e \in CSlot
      BY <1>0, <2>2 DEF TypeOK, CSlot, ChannelEvents!CanPop
    <3>2. /\ Tail(cslots) \in Seq(CSlot) /\ Len(Tail(cslots)) = Len(cslots) - 1
          /\ Append(Tail(cslots), e) \in Seq(CSlot)
          /\ Len(Append(Tail(cslots), e)) = Len(cslots)
      BY <3>1, HeadTailProperties, AppendProperties
    <3>3. cn > 0 /\ cn' = cn - 1 /\ UNCHANGED wpc
      BY <1>2, <2>2 DEF HandleChannelEvent
    <3>4. CASE ChannelEvents!Pop /\ UNCHANGED <<ccnt, hposts>>
      <4>1. cslots' = Tail(cslots)
        BY <3>4 DEF ChannelEvents!Pop
      <4>2. TypeOK'
        BY <1>0, <1>2, <3>2, <3>3, <3>4, <4>1 DEF TypeOK, CSlot, HandleChannelEvent
      <4>3. CevMatch'
        BY <1>0, <1>a, <1>b, <3>1, <3>2, <3>3, <3>4, <4>1 DEF CevMatch, TypeOK
      <4> QED BY <2>t, <4>2, <4>3 DEF QInv
    <3>5. CASE /\ hposts < MaxHandlerPost /\ hposts' = hposts + 1
               /\ cslots' = Append(Tail(cslots), e) /\ ccnt' = ccnt + 1
      <4>1. hposts' \in 0 .. MaxHandlerPost
        BY <1>0, <3>5 DEF TypeOK, PollerAssumption
      <4>2. TypeOK'
        BY <1>0, <1>2, <3>2, <3>3, <3>5, <4>1 DEF TypeOK, CSlot, HandleChannelEvent
      <4>3. CevMatch'
        BY <1>0, <1>a, <1>b, <3>1, <3>2, <3>3, <3>5 DEF CevMatch, TypeOK
      <4> QED BY <2>t, <4>2, <4>3 DEF QInv
    <3> QED BY <1>2, <2>2, <3>4, <3>5 DEF HandleChannelEvent
  <2> QED BY <2>1, <2>2
<1>3. CASE TakeTrackerEvents
  <2>1. TypeOK'
    BY <1>0, <1>3 DEF TypeOK, TakeTrackerEvents
  <2>2. tn = 0
    BY <1>3 DEF WorkerLocals, TakeTrackerEvents
  <2>3. TevMatch'
    BY <1>0, <1>3, <1>a, <1>b, <2>2 DEF TevMatch, TypeOK, TakeTrackerEvents
  <2>4. CevMatch'
    BY <1>0, <1>3, SameCev DEF TakeTrackerEvents
  <2> QED BY <2>1, <2>3, <2>4 DEF QInv
<1>4. CASE HandleTrackerEvent
  <2>c. CevMatch'
    BY <1>0, <1>4, SameCev DEF HandleTrackerEvent
  <2>1. CASE ~TrackerEvents!CanPop
    <3>1. UNCHANGED <<tslots, trackers, tn>> /\ wpc' = "aborted"
      BY <1>4, <2>1 DEF HandleTrackerEvent, TrackerEvents!Pop
    <3>2. TypeOK'
      BY <1>0, <1>4, <3>1 DEF TypeOK, HandleTrackerEvent
    <3>3. TevMatch'
      BY <1>0, <1>4, <1>a, <3>1, SameTev DEF HandleTrackerEvent
    <3> QED BY <2>c, <3>2, <3>3 DEF QInv
  <2>2. CASE TrackerEvents!CanPop
    <3>1. tslots \in Seq(TSlot) /\ tslots # <<>>
      BY <1>0, <2>2 DEF TypeOK, TSlot, TrackerEvents!CanPop
    <3>2. /\ Tail(tslots) \in Seq(TSlot) /\ Len(Tail(tslots)) = Len(tslots) - 1
          /\ Head(tslots) \in TSlot
      BY <3>1, HeadTailProperties
    <3>3. /\ tn > 0 /\ tn' = tn - 1 /\ UNCHANGED wpc /\ tslots' = Tail(tslots)
          /\ trackers' = IF Head(tslots).val.op = "append"
                         THEN trackers \cup {Head(tslots).val.trk}
                         ELSE trackers \ {Head(tslots).val.trk}
      BY <1>4, <2>2 DEF HandleTrackerEvent, TrackerEvents!Pop
    <3>4. trackers' \subseteq Trackers
      BY <1>0, <3>2, <3>3 DEF TypeOK, TSlot
    <3>5. TypeOK'
      BY <1>0, <1>4, <3>2, <3>3, <3>4 DEF TypeOK, TSlot, HandleTrackerEvent
    <3>6. TevMatch'
      BY <1>0, <1>4, <1>a, <1>b, <3>1, <3>2, <3>3 DEF TevMatch, TypeOK, HandleTrackerEvent
    <3> QED BY <2>c, <3>5, <3>6 DEF QInv
  <2> QED BY <2>1, <2>2
<1> QED BY <1>1, <1>2, <1>3, <1>4

\* What the worker queues for itself.
LEMMA WorkerUninstallsQInv ==
    ASSUME PollerAssumption, QInv, NEW t \in Trackers, WorkerUninstalls(t),
           UNCHANGED <<tn, opc>>
    PROVE  /\ TevMatch' /\ tslots' \in Seq(TSlot) /\ tcnt' \in Nat
           /\ tracked' \subseteq tracked
           /\ reg' \in [Trackers -> {"none", "quiet", "armed", "spent"}]
<1> DEFINE e == [val |-> [by |-> Worker, trk |-> t, op |-> "remove"], ready |-> TRUE]
<1>0. TypeOK /\ TevMatch
  BY DEF QInv
<1>1. Queueing' = Queueing /\ Cardinality(Queueing) \in Nat
  BY PushingFinite DEF Queueing
<1>2. tslots \in Seq(TSlot) /\ e \in TSlot
  BY <1>0 DEF TypeOK, TSlot
<1>3. Append(tslots, e) \in Seq(TSlot) /\ Len(Append(tslots, e)) = Len(tslots) + 1
  BY <1>2, AppendProperties
<1>4. CASE started /\ t \in installed
  <2>1. /\ tslots' = Append(tslots, e) /\ tcnt' = tcnt + 1
        /\ tracked' = tracked \ {t} /\ reg' = [reg EXCEPT ![t] = "none"]
    BY <1>4 DEF WorkerUninstalls, PushRemove
  <2>2. tslots' \in Seq(TSlot) /\ Len(tslots') = Len(tslots) + 1
    BY <1>3, <2>1
  <2>3. TevMatch'
    BY <1>0, <1>1, <2>1, <2>2 DEF TypeOK, TevMatch
  <2> QED BY <1>0, <2>1, <2>2, <2>3 DEF TypeOK
<1>5. CASE ~(started /\ t \in installed)
  BY <1>0, <1>1, <1>2, <1>5 DEF WorkerUninstalls, TypeOK, TevMatch
<1> QED BY <1>4, <1>5

\* The worker with epoll and with the channels' handlers.
LEMMA WorkerChannelQInv ==
    ASSUME PollerAssumption, QInv, WorkerLocals,
           \/ Poll \/ (\E t \in Trackers : Dispatch(t)) \/ DispatchEnds \/ WorkerExits
           \/ HandlerRestarts \/ HandlerRearms \/ HandlerPauses
           \/ HandlerUninstalls \/ HandlerEnds
    PROVE  QInv'
<1> USE DEF postVars, ownerVars, channelVars, trackVars, queueVars
<1>0. TypeOK /\ CevMatch /\ TevMatch
  BY DEF QInv
<1>a. UNCHANGED <<cslots, ccnt, cn, ppc, tn, opc>>
  BY DEF Poll, Dispatch, DispatchEnds, WorkerExits, HandlerRestarts, HandlerRearms,
         HandlerPauses, HandlerUninstalls, HandlerEnds
<1>b. CevMatch' /\ Queueing' = Queueing
  BY <1>0, <1>a, SameCev DEF Queueing
<1>1. CASE Poll
  <2>1. PICK hup \in SUBSET {t \in Trackers : reg[t] = "quiet"} :
          LET fired == {t \in ready : reg[t] = "armed"}
          IN  /\ pending' = fired \cup hup
              /\ reg' = [t \in Trackers |-> IF t \in fired THEN "spent" ELSE reg[t]]
    BY <1>1 DEF Poll
  <2>2. /\ pending' \subseteq Trackers
        /\ reg' \in [Trackers -> {"none", "quiet", "armed", "spent"}]
    BY <1>0, <2>1 DEF TypeOK
  <2>3. TypeOK'
    BY <1>0, <1>1, <2>2 DEF TypeOK, Poll
  <2>4. TevMatch'
    BY <1>0, <1>1, <1>b, SameTev DEF Poll
  <2> QED BY <1>b, <2>3, <2>4 DEF QInv
<1>2. ASSUME NEW t \in Trackers, Dispatch(t) PROVE QInv'
  <2>1. TypeOK'
    BY <1>0, <1>2 DEF TypeOK, Dispatch
  <2>2. TevMatch'
    BY <1>0, <1>2, <1>b, SameTev DEF Dispatch
  <2> QED BY <1>b, <2>1, <2>2 DEF QInv
<1>3. CASE DispatchEnds \/ WorkerExits
  <2>1. TypeOK'
    BY <1>0, <1>3 DEF TypeOK, DispatchEnds, WorkerExits
  <2>2. TevMatch'
    BY <1>0, <1>3, <1>b, SameTev DEF DispatchEnds, WorkerExits
  <2> QED BY <1>b, <2>1, <2>2 DEF QInv
<1>4. CASE HandlerRestarts \/ HandlerRearms \/ HandlerPauses
  <2>0. wtrk \in Trackers
    BY <1>0, <1>4 DEF TypeOK, WorkerLocals, HandlerRestarts, HandlerRearms, HandlerPauses
  <2>1. TypeOK'
    <3>1. CASE HandlerRestarts \/ HandlerPauses
      BY <1>0, <2>0, <3>1 DEF TypeOK, HandlerRestarts, HandlerPauses, Consumed
    <3>2. CASE HandlerRearms
      BY <1>0, <2>0, <3>2 DEF TypeOK, HandlerRearms
    <3> QED BY <1>4, <3>1, <3>2
  <2>2. TevMatch'
    BY <1>0, <1>4, <1>b, SameTev DEF HandlerRestarts, HandlerRearms, HandlerPauses
  <2> QED BY <1>b, <2>1, <2>2 DEF QInv
<1>5. CASE HandlerUninstalls
  <2>0. wtrk \in Trackers
    BY <1>0, <1>5 DEF TypeOK, WorkerLocals, HandlerUninstalls
  <2>1. /\ TevMatch' /\ tslots' \in Seq(TSlot) /\ tcnt' \in Nat
        /\ tracked' \subseteq tracked
        /\ reg' \in [Trackers -> {"none", "quiet", "armed", "spent"}]
    BY <1>5, <1>a, <2>0, WorkerUninstallsQInv DEF HandlerUninstalls
  <2>2. TypeOK'
    BY <1>0, <1>5, <2>1 DEF TypeOK, TSlot, HandlerUninstalls
  <2> QED BY <1>b, <2>1, <2>2 DEF QInv
<1>6. CASE HandlerEnds
  <2>0. wtrk \in Trackers
    BY <1>0, <1>6 DEF TypeOK, WorkerLocals, HandlerEnds
  <2>1. /\ TevMatch' /\ tslots' \in Seq(TSlot) /\ tcnt' \in Nat
        /\ tracked' \subseteq tracked /\ owned' \subseteq owned
        /\ reg' \in [Trackers -> {"none", "quiet", "armed", "spent"}]
    <3>1. CASE wtrk \in held
      <4>1. UNCHANGED <<tracked, reg, tslots, tcnt, owned>>
        BY <1>6, <3>1 DEF HandlerEnds
      <4>2. TevMatch'
        BY <1>0, <1>a, <1>b, <4>1, SameTev
      <4> QED BY <1>0, <4>1, <4>2 DEF TypeOK, TSlot
    <3>2. CASE wtrk \notin held
      <4>1. WorkerUninstalls(wtrk) /\ owned' = owned \ {wtrk}
        BY <1>6, <3>2 DEF HandlerEnds
      <4> QED BY <1>a, <2>0, <4>1, WorkerUninstallsQInv
    <3> QED BY <3>1, <3>2
  <2>2. TypeOK'
    BY <1>0, <1>6, <2>1 DEF TypeOK, TSlot, HandlerEnds
  <2> QED BY <1>b, <2>1, <2>2 DEF QInv
<1> QED BY <1>1, <1>2, <1>3, <1>4, <1>5, <1>6

\* Every step keeps types and counters right.
LEMMA NextQInv ==
    ASSUME PollerAssumption, QInv, OwnerLocals, WorkerLocals, [Next]_vars
    PROVE  QInv'
<1>0. TypeOK /\ CevMatch /\ TevMatch
  BY DEF QInv
<1>1. CASE Stop \/ (\E t \in Trackers : BecomesReady(t)) \/ UNCHANGED vars
  <2> USE DEF vars, queueVars, loopVars, postVars, ownerVars, channelVars, trackVars
  <2>1. TypeOK'
    BY <1>0, <1>1 DEF TypeOK, Stop, BecomesReady
  <2>2. UNCHANGED <<cslots, ccnt, cn, ppc, tslots, tcnt, tn, opc>>
    BY <1>1 DEF Stop, BecomesReady
  <2>3. Queueing' = Queueing
    BY <2>2 DEF Queueing
  <2> QED BY <1>0, <2>1, <2>2, <2>3, SameCev, SameTev DEF QInv
<1>2. CASE WorkerStep
  BY <1>2, WorkerQueueQInv, WorkerChannelQInv DEF WorkerStep
<1>3. CASE \E p \in Posters : Post(p) \/ PostFill(p) \/ PostCount(p)
  BY <1>3, PosterQInv
<1>4. ASSUME NEW o \in Owners,
             OwnerStep(o)
             \/ \E t \in Trackers :
                  Start(o, t) \/ Release(o, t) \/ \E k \in Kinds : Install(o, t, k)
      PROVE  QInv'
  BY <1>4, OwnerQInv, UserQInv
<1> QED BY <1>1, <1>2, <1>3, <1>4 DEF Next

-----------------------------------------------------------------------------
(* The trackers, step by step.                                             *)

\* A step that does not touch tevents_ keeps its events.
LEMMA QueuedSame ==
    ASSUME UNCHANGED tslots
    PROVE  \A t, op : Queued(t, op)' <=> Queued(t, op)
BY DEF Queued

\* Steps that concern no tracker.
LEMMA TrkFrame ==
    ASSUME TypeOK, Trk, WorkerLocals',
           UNCHANGED <<tslots, trackers, pending, wtrk, opc, otrk, oop, kind, held, owned,
                       installed, tracked, reg>>,
           wpc = "rearm" => wpc' = "rearm"
    PROVE  Trk'
<1>0. OwnerLocals /\ WorkerLocals /\ Installed /\ MappedOrOver /\ TrackedIsArmed
  BY DEF Trk
<1>q. \A t, op : Queued(t, op)' <=> Queued(t, op)
  BY QueuedSame
<1>1. OwnerLocals'
  BY <1>0 DEF OwnerLocals, Removing
<1>2. Installed'
  BY <1>0, <1>q DEF Installed
<1>3. MappedOrOver'
  BY <1>0, <1>q DEF MappedOrOver, Mapped, Over
<1>4. TrackedIsArmed'
  BY <1>0 DEF TrackedIsArmed
<1> QED BY <1>1, <1>2, <1>3, <1>4 DEF Trk

\* A tracker is made.
LEMMA InstallTrk ==
    ASSUME PollerAssumption, TypeOK, Trk, NEW o \in Owners, NEW t \in Trackers, NEW k \in Kinds,
           Install(o, t, k)
    PROVE  Trk'
<1> USE DEF queueVars, loopVars, postVars
<1>0. TypeOK /\ OwnerLocals /\ WorkerLocals /\ Installed /\ MappedOrOver /\ TrackedIsArmed
  BY DEF Trk
<1>q. \A s, op : Queued(s, op)' <=> Queued(s, op)
  BY QueuedSame DEF Install
<1>a. /\ opc[o] = "idle" /\ otrk[o] = None /\ kind[t] = None /\ k # None /\ t # None
      /\ opc' = [opc EXCEPT ![o] = "add"] /\ otrk' = [otrk EXCEPT ![o] = t]
      /\ kind' = [kind EXCEPT ![t] = k]
      /\ held' = held \cup {t} /\ owned' = owned \cup {t}
      /\ tracked' = IF k = "transport" THEN tracked ELSE tracked \cup {t}
      /\ UNCHANGED <<tslots, trackers, wpc, cn, tn, pending, wtrk, oop, installed, reg>>
  BY <1>0 DEF Install, Step, OwnerLocals, PollerAssumption
<1>b. t \notin installed \cup tracked /\ \A p \in Owners : otrk[p] # t
  BY <1>0, <1>a DEF Installed, OwnerLocals
<1>1. OwnerLocals'
  BY <1>0, <1>a, <1>b DEF TypeOK, OwnerLocals, Removing
<1>2. WorkerLocals'
  BY <1>0, <1>a, <1>b DEF TypeOK, WorkerLocals
<1>3. Installed'
  BY <1>0, <1>a, <1>b, <1>q DEF TypeOK, Installed
<1>4. MappedOrOver'
  BY <1>0, <1>a, <1>b, <1>q DEF TypeOK, MappedOrOver, Mapped, Over, Installed
<1>5. TrackedIsArmed'
  BY <1>0, <1>a, <1>b DEF TypeOK, TrackedIsArmed
<1> QED BY <1>1, <1>2, <1>3, <1>4, <1>5 DEF Trk

\* set_poller and EPOLL_CTL_ADD: the tracker is registered, and its append is
\* about to be queued.
LEMMA InstallAddTrk ==
    ASSUME PollerAssumption, TypeOK, Trk, NEW o \in Owners, InstallAdd(o)
    PROVE  Trk'
<1> USE DEF queueVars, loopVars, postVars
<1>0. TypeOK /\ OwnerLocals /\ WorkerLocals /\ Installed /\ MappedOrOver /\ TrackedIsArmed
  BY DEF Trk
<1>q. \A s, op : Queued(s, op)' <=> Queued(s, op)
  BY QueuedSame DEF InstallAdd
<1> DEFINE t == otrk[o]
<1>a. /\ opc[o] = "add" /\ t \in Trackers /\ t # None /\ t \in held \ installed
      /\ \A p \in Owners \ {o} : otrk[p] # t
      /\ reg[t] = "none" /\ ~Queued(t, "append") /\ ~Queued(t, "remove")
      /\ UNCHANGED <<tslots, trackers, wpc, cn, tn, pending, wtrk, kind, held, owned, tracked>>
  BY <1>0, OwnerHasTracker DEF InstallAdd, OwnerLocals, Installed
<1>1. CASE /\ installed' = installed \cup {t}
           /\ reg' = [reg EXCEPT ![t] = IF kind[t] = "transport" THEN "quiet" ELSE "armed"]
           /\ oop' = [oop EXCEPT ![o] = "append"]
           /\ Step(o, "claim") /\ UNCHANGED otrk
  <2>1. OwnerLocals'
    BY <1>0, <1>a, <1>1 DEF TypeOK, OwnerLocals, Removing, Step
  <2>2. WorkerLocals'
    BY <1>0, <1>a, <1>1 DEF TypeOK, WorkerLocals
  <2>3. Installed'
    BY <1>0, <1>a, <1>1, <1>q DEF TypeOK, Installed, OwnerLocals
  <2>4. MappedOrOver'
    <3>1. Mapped(t)' /\ ~Queued(t, "remove")'
      BY <1>0, <1>a, <1>1, <1>q DEF TypeOK, Mapped, Step
    <3>2. \A s \in Trackers : Mapped(s) => Mapped(s)'
      BY <1>0, <1>a, <1>1, <1>q DEF TypeOK, Mapped, Step
    <3>3. \A s \in Trackers \ {t} : Over(s) => Over(s)'
      BY <1>0, <1>a, <1>1 DEF TypeOK, Over
    <3> QED BY <1>0, <1>a, <1>1, <1>q, <3>1, <3>2, <3>3 DEF TypeOK, MappedOrOver
  <2>5. TrackedIsArmed'
    <3>1. t \in tracked => reg'[t] = "armed"
      BY <1>0, <1>a, <1>1 DEF TypeOK, Installed
    <3>2. \A s \in tracked \ {t} : reg'[s] = reg[s]
      BY <1>0, <1>1 DEF TypeOK
    <3> QED BY <1>0, <1>a, <1>1, <3>1, <3>2 DEF TypeOK, TrackedIsArmed, Step
  <2> QED BY <2>1, <2>2, <2>3, <2>4, <2>5 DEF Trk
<1>2. CASE /\ otrk' = [otrk EXCEPT ![o] = None]
           /\ Step(o, "idle") /\ UNCHANGED <<installed, reg, oop>>
  <2>1. OwnerLocals'
    BY <1>0, <1>a, <1>2 DEF TypeOK, OwnerLocals, Removing, Step
  <2>2. WorkerLocals'
    BY <1>0, <1>a, <1>2 DEF TypeOK, WorkerLocals
  <2>3. Installed'
    BY <1>0, <1>a, <1>2, <1>q DEF TypeOK, Installed
  <2>4. MappedOrOver'
    <3>1. \A s \in Trackers : Mapped(s) => Mapped(s)'
      BY <1>0, <1>a, <1>2, <1>q DEF TypeOK, Mapped, Step
    <3>2. \A s \in Trackers : Over(s) => Over(s)'
      BY <1>0, <1>a, <1>2 DEF TypeOK, Over
    <3> QED BY <1>0, <1>a, <1>2, <1>q, <3>1, <3>2 DEF TypeOK, MappedOrOver
  <2>5. TrackedIsArmed'
    BY <1>0, <1>a, <1>2 DEF TypeOK, TrackedIsArmed, Step
  <2> QED BY <2>1, <2>2, <2>3, <2>4, <2>5 DEF Trk
<1> QED BY <1>1, <1>2 DEF InstallAdd

\* An event is queued: an append of a tracker that is mapped from then on, or
\* the removal of one that is over.
LEMMA EventClaimTrk ==
    ASSUME PollerAssumption, TypeOK, Trk, NEW o \in Owners, EventClaim(o)
    PROVE  Trk'
<1> USE DEF postVars, loopVars, channelVars, trackVars
<1>0. TypeOK /\ OwnerLocals /\ WorkerLocals /\ Installed /\ MappedOrOver /\ TrackedIsArmed
  BY DEF Trk
<1> DEFINE t == otrk[o]
           e == [val |-> [by |-> o, trk |-> t, op |-> oop[o]], ready |-> FALSE]
<1>a. /\ opc[o] = "claim" /\ t \in Trackers /\ t # None
      /\ opc' = [opc EXCEPT ![o] = "fill"] /\ tslots' = Append(tslots, e)
      /\ UNCHANGED <<trackers, wpc, cn, tn, pending, wtrk, otrk, oop, kind, held, owned,
                     installed, tracked, reg>>
  BY <1>0, OwnerHasTracker DEF EventClaim, Step, TrackerEvents!Claim
<1>b. t \in installed /\ \A p \in Owners \ {o} : otrk[p] # t
  BY <1>0, <1>a DEF OwnerLocals
<1>q. \A s, op : Queued(s, op)' <=> Queued(s, op) \/ (s = t /\ op = oop[o])
  <2>1. tslots \in Seq(TSlot) /\ e \in TSlot
    BY <1>0, <1>a DEF TypeOK, TSlot
  <2> QED BY <1>a, <2>1, QueuedAppend
<1>1. OwnerLocals'
  BY <1>0, <1>a DEF TypeOK, OwnerLocals, Removing
<1>2. WorkerLocals'
  BY <1>0, <1>a DEF TypeOK, WorkerLocals
<1>3. Installed'
  BY <1>0, <1>a, <1>b, <1>q DEF TypeOK, Installed
<1>4. MappedOrOver'
  <2>1. CASE oop[o] = "append"
    <3>1. \A s \in Trackers : Mapped(s) => Mapped(s)'
      BY <1>0, <1>a, <1>q, <2>1 DEF TypeOK, Mapped
    <3>2. \A s \in Trackers : Queued(s, "remove")' <=> Queued(s, "remove")
      BY <1>q, <2>1
    <3>3. \A s \in Trackers : Over(s) => Over(s)'
      BY <1>a DEF Over
    <3> QED BY <1>0, <1>a, <3>1, <3>2, <3>3 DEF TypeOK, MappedOrOver
  <2>2. CASE oop[o] = "remove"
    <3>1. \A s \in Trackers : Mapped(s) => Mapped(s)'
      BY <1>0, <1>a, <1>q, <2>2 DEF TypeOK, Mapped
    <3>2. Over(t)'
      BY <1>0, <1>a, <2>2 DEF OwnerLocals, Removing, Over
    <3>3. \A s \in Trackers \ {t} : Queued(s, "remove")' <=> Queued(s, "remove")
      BY <1>q
    <3>4. \A s \in Trackers : Queued(s, "remove") => Queued(s, "remove")'
      BY <1>q
    <3>5. \A s \in Trackers : Over(s) => Over(s)'
      BY <1>a DEF Over
    <3> QED BY <1>0, <1>a, <3>1, <3>2, <3>3, <3>4, <3>5 DEF TypeOK, MappedOrOver
  <2> QED BY <1>0, <2>1, <2>2 DEF TypeOK
<1>5. TrackedIsArmed'
  BY <1>0, <1>a DEF TypeOK, TrackedIsArmed
<1> QED BY <1>1, <1>2, <1>3, <1>4, <1>5 DEF Trk

\* The rest of a push.
LEMMA EventDoneTrk ==
    ASSUME PollerAssumption, TypeOK, Trk, NEW o \in Owners, EventFill(o) \/ EventCount(o)
    PROVE  Trk'
<1> USE DEF postVars, loopVars, channelVars, trackVars
<1>0. TypeOK /\ OwnerLocals /\ WorkerLocals /\ Installed /\ MappedOrOver /\ TrackedIsArmed
  BY DEF Trk
<1>a. /\ opc[o] \in {"fill", "count"} /\ otrk[o] \in Trackers /\ otrk[o] # None
      /\ UNCHANGED <<trackers, wpc, cn, tn, pending, wtrk, oop, kind, held, installed,
                     tracked, reg>>
  BY <1>0, OwnerHasTracker DEF EventFill, EventCount
<1>b. \/ opc' = [opc EXCEPT ![o] = "count"] /\ UNCHANGED <<otrk, owned>>
      \/ /\ opc' = [opc EXCEPT ![o] = "idle"] /\ otrk' = [otrk EXCEPT ![o] = None]
         /\ owned' = IF oop[o] = "remove" THEN owned \ {otrk[o]} ELSE owned
  BY DEF EventFill, EventCount, Step
<1>q. \A s, op : Queued(s, op)' <=> Queued(s, op)
  <2>1. CASE EventFill(o)
    <3>1. PICK i \in DOMAIN tslots : TrackerEvents!Fill(i)
      BY <2>1 DEF EventFill
    <3> QED BY <1>0, <3>1, QueuedFill DEF TypeOK, TSlot
  <2>2. CASE EventCount(o)
    BY <2>2, QueuedSame DEF EventCount
  <2> QED BY <2>1, <2>2
<1>1. OwnerLocals'
  BY <1>0, <1>a, <1>b DEF TypeOK, OwnerLocals, Removing
<1>2. WorkerLocals'
  BY <1>0, <1>a DEF TypeOK, WorkerLocals
<1>3. Installed'
  <2>1. oop[o] = "remove" => otrk[o] \notin held
    BY <1>0, <1>a DEF OwnerLocals, Removing
  <2> QED BY <1>0, <1>a, <1>b, <1>q, <2>1 DEF TypeOK, Installed
<1>4. MappedOrOver'
  <2>1. \A s \in Trackers : Mapped(s) => Mapped(s)'
    BY <1>0, <1>a, <1>b, <1>q DEF TypeOK, Mapped
  <2>2. \A s \in Trackers : Over(s) => Over(s)'
    BY <1>a DEF Over
  <2> QED BY <1>0, <1>a, <1>q, <2>1, <2>2 DEF TypeOK, MappedOrOver
<1>5. TrackedIsArmed'
  BY <1>0, <1>a, <1>b DEF TypeOK, TrackedIsArmed
<1> QED BY <1>1, <1>2, <1>3, <1>4, <1>5 DEF Trk

\* start_channel_tracker.
LEMMA StartTrk ==
    ASSUME PollerAssumption, TypeOK, Trk, NEW o \in Owners, NEW t \in Trackers, Start(o, t)
    PROVE  Trk'
<1> USE DEF queueVars, postVars, loopVars, channelVars
<1>0. TypeOK /\ OwnerLocals /\ WorkerLocals /\ Installed /\ MappedOrOver /\ TrackedIsArmed
  BY DEF Trk
<1>q. \A s, op : Queued(s, op)' <=> Queued(s, op)
  BY QueuedSame DEF Start
<1>a. /\ opc[o] = "idle" /\ t # None /\ t \in held \cap installed /\ kind[t] = "transport"
      /\ \A p \in Owners : otrk[p] = t => opc[p] = "arm"
      /\ opc' = [opc EXCEPT ![o] = "arm"] /\ otrk' = [otrk EXCEPT ![o] = t]
      /\ tracked' = tracked \cup {t}
      /\ UNCHANGED <<tslots, trackers, wpc, cn, tn, pending, wtrk, oop, kind, held, owned,
                     installed, reg>>
  BY DEF Start, Step, Settled, PollerAssumption
<1>b. kind[t] # None
  BY <1>0, <1>a DEF Installed
<1>1. OwnerLocals'
  BY <1>0, <1>a, <1>b DEF TypeOK, OwnerLocals, Removing
<1>2. WorkerLocals'
  BY <1>0, <1>a DEF TypeOK, WorkerLocals
<1>3. Installed'
  BY <1>0, <1>a, <1>b, <1>q DEF TypeOK, Installed
<1>4. MappedOrOver'
  <2>1. \A s \in Trackers : Mapped(s) => Mapped(s)'
    BY <1>0, <1>a, <1>q DEF TypeOK, Mapped
  <2>2. \A s \in Trackers : Over(s) => Over(s)'
    BY <1>a DEF Over
  <2> QED BY <1>0, <1>a, <1>q, <2>1, <2>2 DEF TypeOK, MappedOrOver
<1>5. TrackedIsArmed'
  BY <1>0, <1>a DEF TypeOK, TrackedIsArmed, OwnerLocals
<1> QED BY <1>1, <1>2, <1>3, <1>4, <1>5 DEF Trk

\* EPOLL_CTL_MOD: the tracker is mapped, since its channel is held.
LEMMA StartArmTrk ==
    ASSUME PollerAssumption, TypeOK, Trk, NEW o \in Owners, StartArm(o)
    PROVE  Trk'
<1> USE DEF queueVars, postVars, loopVars, channelVars
<1>0. TypeOK /\ OwnerLocals /\ WorkerLocals /\ Installed /\ MappedOrOver /\ TrackedIsArmed
  BY DEF Trk
<1>q. \A s, op : Queued(s, op)' <=> Queued(s, op)
  BY QueuedSame DEF StartArm
<1> DEFINE t == otrk[o]
<1>a. /\ opc[o] = "arm" /\ t \in Trackers /\ t # None
      /\ t \in held \cap installed /\ kind[t] = "transport"
      /\ opc' = [opc EXCEPT ![o] = "idle"] /\ otrk' = [otrk EXCEPT ![o] = None]
      /\ reg' = [reg EXCEPT ![t] = "armed"]
      /\ UNCHANGED <<tslots, trackers, wpc, cn, tn, pending, wtrk, oop, kind, held, owned,
                     installed, tracked>>
  BY <1>0, OwnerHasTracker DEF StartArm, Step, OwnerLocals
<1>1. OwnerLocals'
  <2>1. \A p \in Owners : Removing(p) => otrk[p] # t
    BY <1>0, <1>a DEF OwnerLocals
  <2> QED BY <1>0, <1>a, <2>1 DEF TypeOK, OwnerLocals, Removing
<1>2. WorkerLocals'
  BY <1>0, <1>a DEF TypeOK, WorkerLocals
<1>3. Installed'
  BY <1>0, <1>a, <1>q DEF TypeOK, Installed
<1>4. MappedOrOver'
  <2>1. \A s \in Trackers : Mapped(s) => Mapped(s)'
    BY <1>0, <1>a, <1>q DEF TypeOK, Mapped
  <2>2. \A s \in Trackers \ {t} : Over(s) => Over(s)'
    BY <1>0, <1>a DEF TypeOK, Over
  <2>3. ~Over(t)
    BY <1>a DEF Over
  <2> QED BY <1>0, <1>a, <1>q, <2>1, <2>2, <2>3 DEF TypeOK, MappedOrOver
<1>5. TrackedIsArmed'
  BY <1>0, <1>a DEF TypeOK, TrackedIsArmed
<1> QED BY <1>1, <1>2, <1>3, <1>4, <1>5 DEF Trk

\* The user drops the channel.
LEMMA ReleaseTrk ==
    ASSUME PollerAssumption, TypeOK, Trk, NEW o \in Owners, NEW t \in Trackers, Release(o, t)
    PROVE  Trk'
<1> USE DEF queueVars, postVars, loopVars, trackVars
<1>0. TypeOK /\ OwnerLocals /\ WorkerLocals /\ Installed /\ MappedOrOver /\ TrackedIsArmed
  BY DEF Trk
<1>q. \A s, op : Queued(s, op)' <=> Queued(s, op)
  BY QueuedSame DEF Release
<1>a. /\ opc[o] = "idle" /\ t # None /\ t \in held /\ \A p \in Owners : otrk[p] # t
      /\ held' = held \ {t}
      /\ \/ wtrk = t /\ UNCHANGED <<opc, otrk, oop>>
         \/ /\ wtrk # t /\ opc' = [opc EXCEPT ![o] = "uninstall"]
            /\ otrk' = [otrk EXCEPT ![o] = t] /\ oop' = [oop EXCEPT ![o] = "remove"]
      /\ UNCHANGED <<tslots, trackers, wpc, cn, tn, pending, wtrk, kind, owned, installed,
                     tracked, reg>>
  BY DEF Release, Step, PollerAssumption
<1>b. kind[t] # None
  BY <1>0, <1>a DEF Installed
<1>1. OwnerLocals'
  BY <1>0, <1>a, <1>b DEF TypeOK, OwnerLocals, Removing
<1>2. WorkerLocals'
  BY <1>0, <1>a DEF TypeOK, WorkerLocals
<1>3. Installed'
  BY <1>0, <1>a, <1>q DEF TypeOK, Installed
<1>4. MappedOrOver'
  <2>1. \A s \in Trackers : Mapped(s) => Mapped(s)'
    BY <1>0, <1>a, <1>q DEF TypeOK, Mapped
  <2>2. \A s \in Trackers : Over(s) => Over(s)'
    BY <1>a DEF Over
  <2> QED BY <1>0, <1>a, <1>q, <2>1, <2>2 DEF TypeOK, MappedOrOver
<1>5. TrackedIsArmed'
  BY <1>0, <1>a DEF TypeOK, TrackedIsArmed, OwnerLocals
<1> QED BY <1>1, <1>2, <1>3, <1>4, <1>5 DEF Trk

\* uninstall_channel_tracker in a channel's destructor: untracked first.
LEMMA UninstallTrk ==
    ASSUME PollerAssumption, TypeOK, Trk, NEW o \in Owners, Uninstall(o)
    PROVE  Trk'
<1> USE DEF queueVars, postVars, loopVars
<1>0. TypeOK /\ OwnerLocals /\ WorkerLocals /\ Installed /\ MappedOrOver /\ TrackedIsArmed
  BY DEF Trk
<1>q. \A s, op : Queued(s, op)' <=> Queued(s, op)
  BY QueuedSame DEF Uninstall
<1> DEFINE t == otrk[o]
<1>a. /\ opc[o] = "uninstall" /\ t \in Trackers /\ t # None
      /\ \/ /\ t \in installed /\ tracked' = tracked \ {t}
            /\ opc' = [opc EXCEPT ![o] = "del"] /\ UNCHANGED <<otrk, owned>>
         \/ /\ opc' = [opc EXCEPT ![o] = "idle"] /\ otrk' = [otrk EXCEPT ![o] = None]
            /\ owned' = owned \ {t} /\ UNCHANGED tracked
      /\ UNCHANGED <<tslots, trackers, wpc, cn, tn, pending, wtrk, oop, kind, held, installed,
                     reg>>
  BY <1>0, OwnerHasTracker DEF Uninstall, Step
<1>b. t \notin held /\ wtrk # t
  BY <1>0, <1>a DEF OwnerLocals, Removing
<1>1. OwnerLocals'
  <2>1. CASE opc' = [opc EXCEPT ![o] = "del"]
    BY <1>0, <1>a, <2>1 DEF TypeOK, OwnerLocals, Removing
  <2>2. CASE opc' = [opc EXCEPT ![o] = "idle"]
    BY <1>0, <1>a, <2>2 DEF TypeOK, OwnerLocals, Removing
  <2> QED BY <1>a, <2>1, <2>2
<1>2. WorkerLocals'
  BY <1>0, <1>a DEF TypeOK, WorkerLocals
<1>3. Installed'
  BY <1>0, <1>a, <1>b, <1>q DEF TypeOK, Installed
<1>4. MappedOrOver'
  <2>1. \A s \in Trackers : Mapped(s) => Mapped(s)'
    BY <1>0, <1>a, <1>q DEF TypeOK, Mapped
  <2>2. \A s \in Trackers : Over(s) => Over(s)'
    BY <1>a DEF Over
  <2> QED BY <1>0, <1>a, <1>q, <2>1, <2>2 DEF TypeOK, MappedOrOver
<1>5. TrackedIsArmed'
  <2>1. tracked' \subseteq tracked
    BY <1>a
  <2>2. \A p \in Owners : opc[p] \in {"add", "arm"} => opc'[p] = opc[p] /\ otrk'[p] = otrk[p]
    BY <1>0, <1>a DEF TypeOK
  <2> QED BY <1>0, <1>a, <2>1, <2>2 DEF TrackedIsArmed
<1> QED BY <1>1, <1>2, <1>3, <1>4, <1>5 DEF Trk

\* EPOLL_CTL_DEL: the tracker is over, and its removal may be queued.
LEMMA UninstallDelTrk ==
    ASSUME PollerAssumption, TypeOK, Trk, NEW o \in Owners, UninstallDel(o)
    PROVE  Trk'
<1> USE DEF queueVars, postVars, loopVars, channelVars
<1>0. TypeOK /\ OwnerLocals /\ WorkerLocals /\ Installed /\ MappedOrOver /\ TrackedIsArmed
  BY DEF Trk
<1>q. \A s, op : Queued(s, op)' <=> Queued(s, op)
  BY QueuedSame DEF UninstallDel
<1> DEFINE t == otrk[o]
<1>a. /\ opc[o] = "del" /\ t \in Trackers /\ t # None
      /\ opc' = [opc EXCEPT ![o] = "claim"] /\ reg' = [reg EXCEPT ![t] = "none"]
      /\ UNCHANGED <<tslots, trackers, wpc, cn, tn, pending, wtrk, otrk, oop, kind, held,
                     owned, installed, tracked>>
  BY <1>0, OwnerHasTracker DEF UninstallDel, Step
<1>b. t \notin held /\ wtrk # t /\ t \in installed \ tracked /\ oop[o] = "remove"
  BY <1>0, <1>a DEF OwnerLocals, Removing
<1>1. OwnerLocals'
  BY <1>0, <1>a, <1>b DEF TypeOK, OwnerLocals, Removing
<1>2. WorkerLocals'
  BY <1>0, <1>a DEF TypeOK, WorkerLocals
<1>3. Installed'
  BY <1>0, <1>a, <1>b, <1>q DEF TypeOK, Installed
<1>4. MappedOrOver'
  <2>1. \A s \in Trackers : Mapped(s) => Mapped(s)'
    BY <1>0, <1>a, <1>q DEF TypeOK, Mapped
  <2>2. \A s \in Trackers : Over(s) => Over(s)'
    BY <1>0, <1>a DEF TypeOK, Over
  <2> QED BY <1>0, <1>a, <1>q, <2>1, <2>2 DEF TypeOK, MappedOrOver
<1>5. TrackedIsArmed'
  BY <1>0, <1>a, <1>b DEF TypeOK, TrackedIsArmed
<1> QED BY <1>1, <1>2, <1>3, <1>4, <1>5 DEF Trk

-----------------------------------------------------------------------------
(* The worker's steps.                                                     *)

\* __handle_channel_tracker_events: an append maps its tracker, and a removal
\* takes out one that is over.  Nothing is pending.
LEMMA HandleTrackerEventTrk ==
    ASSUME PollerAssumption, TypeOK, Trk, HandleTrackerEvent
    PROVE  Trk'
<1> USE DEF postVars, ownerVars, channelVars, trackVars
<1>0. TypeOK /\ OwnerLocals /\ WorkerLocals /\ Installed /\ MappedOrOver /\ TrackedIsArmed
  BY DEF Trk
<1>a. /\ wpc = "tev" /\ tn > 0 /\ pending = {} /\ wtrk = None
      /\ UNCHANGED <<cn, pending, wtrk, opc, otrk, oop, kind, held, owned, installed,
                     tracked, reg>>
  BY <1>0 DEF HandleTrackerEvent, WorkerLocals
<1>1. CASE ~TrackerEvents!CanPop /\ wpc' = "aborted" /\ UNCHANGED <<tslots, trackers, tn>>
  <2>1. WorkerLocals'
    BY <1>0, <1>a, <1>1 DEF WorkerLocals
  <2> QED BY <1>a, <1>1, <2>1, TrkFrame
<1>2. CASE TrackerEvents!Pop /\ tn' = tn - 1 /\ UNCHANGED wpc
  <2> DEFINE h == Head(tslots).val
  <2>a. tslots # <<>> /\ tslots' = Tail(tslots)
    BY <1>2 DEF TrackerEvents!Pop, TrackerEvents!CanPop
  <2>b. tslots \in Seq(TSlot)
    BY <1>0 DEF TypeOK, TSlot
  <2>c. h.trk \in Trackers /\ h.op \in {"append", "remove"} /\ Queued(h.trk, h.op)
    <3>1. Head(tslots) = tslots[1] /\ 1 \in DOMAIN tslots /\ tslots[1] \in TSlot
      BY <2>a, <2>b, HeadTailProperties
    <3> QED BY <3>1 DEF Queued, TSlot
  <2>d. trackers' = IF h.op = "append" THEN trackers \cup {h.trk} ELSE trackers \ {h.trk}
    BY <1>2, <2>a DEF HandleTrackerEvent, TrackerEvents!Pop
  <2>q. \A s, op : /\ Queued(s, op)' => Queued(s, op)
                   /\ Queued(s, op) => Queued(s, op)' \/ (h.trk = s /\ h.op = op)
    BY <2>a, <2>b, QueuedPop
  <2>1. OwnerLocals'
    BY <1>0, <1>a DEF OwnerLocals, Removing
  <2>2. WorkerLocals'
    BY <1>0, <1>a, <1>2 DEF WorkerLocals
  <2>3. Installed'
    BY <1>0, <1>a, <2>q DEF Installed
  <2>4. MappedOrOver'
    <3>1. \A s \in Trackers : Over(s)' <=> Over(s)
      BY <1>a DEF Over
    <3>2. h.op = "remove" => Over(h.trk)
      BY <1>0, <2>c DEF MappedOrOver, Installed
    <3>3. \A s \in Trackers : Mapped(s) => Mapped(s)' \/ Over(s)
      BY <1>a, <2>c, <2>d, <2>q, <3>2 DEF Mapped
    <3> QED BY <1>0, <1>a, <2>q, <3>1, <3>3 DEF MappedOrOver, TypeOK
  <2>5. TrackedIsArmed'
    BY <1>0, <1>a DEF TrackedIsArmed
  <2> QED BY <2>1, <2>2, <2>3, <2>4, <2>5 DEF Trk
<1> QED BY <1>1, <1>2 DEF HandleTrackerEvent

\* epoll_wait returns trackers that are registered, and so mapped.
LEMMA PollTrk ==
    ASSUME PollerAssumption, TypeOK, Trk, Poll
    PROVE  Trk'
<1> USE DEF postVars, ownerVars, channelVars, queueVars
<1>0. TypeOK /\ OwnerLocals /\ WorkerLocals /\ Installed /\ MappedOrOver /\ TrackedIsArmed
  BY DEF Trk
<1>q. \A s, op : Queued(s, op)' <=> Queued(s, op)
  BY QueuedSame DEF Poll
<1>a. /\ wpc = "tev" /\ wpc' = "dispatch" /\ tn = 0 /\ pending = {} /\ wtrk = None
      /\ UNCHANGED <<tslots, trackers, cn, tn, wtrk, opc, otrk, oop, kind, held, owned,
                     installed, tracked>>
  BY <1>0 DEF Poll, WorkerLocals
<1>b. /\ \A s \in Trackers : reg'[s] = "none" <=> reg[s] = "none"
      /\ \A s \in pending' : s \in Trackers /\ reg[s] # "none"
      /\ \A s \in Trackers : reg[s] = "armed" => reg'[s] = "armed" \/ s \in pending'
  BY <1>0 DEF Poll, TypeOK
<1>1. OwnerLocals'
  <2>1. \A o \in Owners : otrk[o] # None => otrk[o] \in Trackers
    BY <1>0 DEF TypeOK
  <2>2. \A o \in Owners : Removing(o)' <=> Removing(o)
    BY <1>a DEF Removing
  <2>3. ASSUME NEW o \in Owners, opc[o] # "idle"
        PROVE  reg[otrk[o]] = "none" => reg'[otrk[o]] = "none"
    BY <1>0, <1>b, <2>1, <2>3 DEF OwnerLocals
  <2>4. \A o \in Owners : Removing(o) => opc[o] # "idle"
    BY DEF Removing
  <2> QED BY <1>0, <1>a, <2>2, <2>3, <2>4 DEF OwnerLocals
<1>2. WorkerLocals'
  BY <1>0, <1>a DEF WorkerLocals
<1>3. Installed'
  BY <1>0, <1>a, <1>b, <1>q DEF Installed, TypeOK
<1>4. MappedOrOver'
  <2>1. \A s \in Trackers : Over(s)' <=> Over(s)
    BY <1>a, <1>b DEF Over
  <2>2. \A s \in Trackers : Mapped(s)' <=> Mapped(s)
    BY <1>a, <1>q DEF Mapped
  <2>3. \A s \in pending' : s \in installed /\ ~Over(s)
    BY <1>0, <1>b DEF Installed, Over
  <2> QED BY <1>0, <1>a, <1>b, <1>q, <2>1, <2>2, <2>3 DEF MappedOrOver, TypeOK
<1>5. TrackedIsArmed'
  BY <1>0, <1>a, <1>b DEF TrackedIsArmed, TypeOK
<1> QED BY <1>1, <1>2, <1>3, <1>4, <1>5 DEF Trk

\* __dispatch_pending_event.
LEMMA DispatchTrk ==
    ASSUME PollerAssumption, TypeOK, Trk, NEW t \in Trackers, Dispatch(t)
    PROVE  Trk'
<1> USE DEF postVars, ownerVars, channelVars, queueVars
<1>0. TypeOK /\ OwnerLocals /\ WorkerLocals /\ Installed /\ MappedOrOver /\ TrackedIsArmed
  BY DEF Trk
<1>q. \A s, op : Queued(s, op)' <=> Queued(s, op)
  BY QueuedSame DEF Dispatch
<1>a. /\ wpc = "dispatch" /\ wtrk = None /\ t # None /\ t \in pending /\ t \in installed
      /\ pending' = pending \ {t} /\ tracked' = tracked \ {t}
      /\ \/ t \in held /\ wtrk' = t /\ wpc' = "handle"
         \/ UNCHANGED <<wtrk, wpc>>
      /\ UNCHANGED <<tslots, trackers, cn, tn, opc, otrk, oop, kind, held, owned,
                     installed, reg>>
  BY <1>0 DEF Dispatch, WorkerLocals, Installed, PollerAssumption
<1>1. OwnerLocals'
  BY <1>0, <1>a DEF OwnerLocals, Removing
<1>2. WorkerLocals'
  BY <1>0, <1>a DEF WorkerLocals
<1>3. Installed'
  BY <1>0, <1>a, <1>q DEF Installed
<1>4. MappedOrOver'
  <2>1. \A s \in Trackers : Over(s) => Over(s)'
    BY <1>a DEF Over
  <2>2. \A s \in Trackers : Mapped(s)' <=> Mapped(s)
    BY <1>a, <1>q DEF Mapped
  <2> QED BY <1>0, <1>a, <1>q, <2>1, <2>2 DEF MappedOrOver, TypeOK
<1>5. TrackedIsArmed'
  BY <1>0, <1>a DEF TrackedIsArmed
<1> QED BY <1>1, <1>2, <1>3, <1>4, <1>5 DEF Trk

\* A handler tracks and arms its tracker again, or leaves it.
LEMMA HandlerGoesOnTrk ==
    ASSUME PollerAssumption, TypeOK, Trk, HandlerRestarts \/ HandlerRearms \/ HandlerPauses
    PROVE  Trk'
<1> USE DEF postVars, ownerVars, channelVars, queueVars
<1>0. TypeOK /\ OwnerLocals /\ WorkerLocals /\ Installed /\ MappedOrOver /\ TrackedIsArmed
  BY DEF Trk
<1>q. \A s, op : Queued(s, op)' <=> Queued(s, op)
  BY QueuedSame DEF HandlerRestarts, HandlerRearms, HandlerPauses
<1>a. /\ wtrk \in Trackers /\ wtrk # None /\ wtrk \in installed
      /\ kind[wtrk] \in {"transport", "acceptor"} /\ kind[wtrk] # None
      /\ UNCHANGED <<tslots, trackers, cn, tn, pending, wtrk, opc, otrk, oop, kind, held,
                     owned, installed>>
  BY <1>0 DEF HandlerRestarts, HandlerRearms, HandlerPauses, WorkerLocals, Installed, TypeOK
<1>m. \A s \in Trackers : Mapped(s)' <=> Mapped(s)
  BY <1>a, <1>q DEF Mapped
<1>1. CASE HandlerRestarts
  <2>a. /\ wpc = "handle" /\ tracked' = tracked \cup {wtrk} /\ reg' = reg
        /\ wpc' = IF wtrk \in tracked THEN "handled" ELSE "rearm"
    BY <1>1 DEF HandlerRestarts
  <2>1. OwnerLocals'
    BY <1>0, <1>a, <2>a DEF OwnerLocals, Removing
  <2>2. WorkerLocals'
    BY <1>0, <1>a, <2>a DEF WorkerLocals
  <2>3. Installed'
    BY <1>0, <1>a, <2>a, <1>q DEF Installed
  <2>4. MappedOrOver'
    BY <1>0, <1>a, <2>a, <1>q, <1>m DEF MappedOrOver, Over, TypeOK
  <2>5. TrackedIsArmed'
    BY <1>0, <1>a, <2>a DEF TrackedIsArmed
  <2> QED BY <2>1, <2>2, <2>3, <2>4, <2>5 DEF Trk
<1>2. CASE HandlerRearms
  <2>a. /\ wpc = "rearm" /\ wpc' = "handled" /\ tracked' = tracked
        /\ reg' = [reg EXCEPT ![wtrk] = "armed"]
    BY <1>2 DEF HandlerRearms
  <2>b. reg'[wtrk] = "armed" /\ \A s \in Trackers \ {wtrk} : reg'[s] = reg[s]
    BY <1>0, <1>a, <2>a DEF TypeOK
  <2>1. OwnerLocals'
    BY <1>0, <1>a, <2>a DEF OwnerLocals, Removing, TypeOK
  <2>2. WorkerLocals'
    BY <1>0, <1>a, <2>a DEF WorkerLocals
  <2>3. Installed'
    BY <1>0, <1>a, <2>a, <2>b, <1>q DEF Installed
  <2>4. MappedOrOver'
    <3>1. ~Over(wtrk)
      BY <1>a DEF Over
    <3>2. \A s \in Trackers : Over(s) => Over(s)'
      BY <1>a, <2>b, <3>1 DEF Over
    <3> QED BY <1>0, <1>a, <1>q, <1>m, <3>2 DEF MappedOrOver, TypeOK
  <2>5. TrackedIsArmed'
    BY <1>0, <1>a, <2>a, <2>b DEF TrackedIsArmed, TypeOK
  <2> QED BY <2>1, <2>2, <2>3, <2>4, <2>5 DEF Trk
<1>3. CASE HandlerPauses
  <2>a. wpc = "handle" /\ wpc' = "handled" /\ UNCHANGED <<tracked, reg>>
    BY <1>3 DEF HandlerPauses
  <2>1. WorkerLocals'
    BY <1>0, <1>a, <2>a DEF WorkerLocals
  <2> QED BY <1>a, <2>a, <2>1, TrkFrame
<1> QED BY <1>1, <1>2, <1>3

\* A handler's tracker is uninstalled, or its channel is let go: what the
\* worker uninstalls is over when its removal is queued.
LEMMA HandlerStopsTrk ==
    ASSUME PollerAssumption, TypeOK, Trk, HandlerUninstalls \/ HandlerEnds
    PROVE  Trk'
<1> USE DEF postVars, ownerVars, channelVars, queueVars
<1>0. TypeOK /\ OwnerLocals /\ WorkerLocals /\ Installed /\ MappedOrOver /\ TrackedIsArmed
  BY DEF Trk
<1> DEFINE e == [val |-> [by |-> Worker, trk |-> wtrk, op |-> "remove"], ready |-> TRUE]
<1>a. /\ wtrk \in Trackers /\ wtrk # None /\ wtrk \in installed
      /\ wpc \in {"handle", "handled"}
      /\ UNCHANGED <<trackers, cn, tn, pending, opc, otrk, oop, kind, held, installed>>
  BY <1>0 DEF HandlerUninstalls, HandlerEnds, WorkerLocals, TypeOK
<1>b. \/ wpc' = "handled" /\ wtrk' = wtrk /\ owned' = owned /\ kind[wtrk] = "dialer"
      \/ /\ wpc' = "dispatch" /\ wtrk' = None
         /\ owned' = (IF wtrk \in held THEN owned ELSE owned \ {wtrk})
  BY DEF HandlerUninstalls, HandlerEnds
<1>c. \/ UNCHANGED <<tslots, tracked, reg>>
      \/ /\ tslots' = Append(tslots, e) /\ tracked' = tracked \ {wtrk}
         /\ reg' = [reg EXCEPT ![wtrk] = "none"]
         /\ kind[wtrk] = "dialer" \/ (wtrk \notin held /\ wtrk' = None)
  BY DEF HandlerUninstalls, HandlerEnds, WorkerUninstalls, PushRemove
<1>q. \/ UNCHANGED <<tracked, reg>> /\ \A s, op : Queued(s, op)' <=> Queued(s, op)
      \/ /\ tracked' = tracked \ {wtrk} /\ reg' = [reg EXCEPT ![wtrk] = "none"]
         /\ kind[wtrk] = "dialer" \/ (wtrk \notin held /\ wtrk' = None)
         /\ \A s, op : Queued(s, op)' <=> Queued(s, op) \/ (s = wtrk /\ op = "remove")
  <2>1. tslots \in Seq(TSlot) /\ e \in TSlot
    BY <1>0, <1>a DEF TypeOK, TSlot
  <2>2. CASE UNCHANGED <<tslots, tracked, reg>>
    BY <2>2, QueuedSame
  <2>3. CASE tslots' = Append(tslots, e)
    <3>1. \A s, op : Queued(s, op)' <=> Queued(s, op) \/ (s = wtrk /\ op = "remove")
      BY <2>1, <2>3, QueuedAppend
    <3> QED BY <1>c, <2>2, <3>1
  <2> QED BY <1>c, <2>2, <2>3
<1>1. OwnerLocals'
  BY <1>0, <1>a, <1>b, <1>c DEF OwnerLocals, Removing, TypeOK
<1>2. WorkerLocals'
  BY <1>0, <1>a, <1>b DEF WorkerLocals
<1>3. Installed'
  BY <1>0, <1>a, <1>b, <1>q DEF Installed, TypeOK
<1>4. MappedOrOver'
  <2>1. \A s \in Trackers : Mapped(s) => Mapped(s)'
    BY <1>a, <1>q DEF Mapped
  <2>2. \A s \in Trackers : Over(s) => Over(s)'
    <3>1. \A s \in Trackers : reg[s] = "none" => reg'[s] = "none"
      BY <1>0, <1>q DEF TypeOK
    <3>2. \A s \in Trackers : wtrk # s => wtrk' # s
      BY <1>b DEF PollerAssumption
    <3> QED BY <1>a, <3>1, <3>2 DEF Over
  <2>3. \A s \in Trackers : Queued(s, "remove")' => Queued(s, "remove") \/ Over(s)'
    BY <1>0, <1>a, <1>q DEF Over, TypeOK
  <2>4. \A s \in Trackers : Queued(s, "remove") => Queued(s, "remove")'
    BY <1>q
  <2> QED BY <1>0, <1>a, <2>1, <2>2, <2>3, <2>4 DEF MappedOrOver, TypeOK
<1>5. TrackedIsArmed'
  BY <1>0, <1>a, <1>b, <1>c DEF TrackedIsArmed, TypeOK
<1> QED BY <1>1, <1>2, <1>3, <1>4, <1>5 DEF Trk

\* The rest of the loop concerns no tracker.
LEMMA WorkerGoesRoundTrk ==
    ASSUME TypeOK, Trk,
           \/ TakeChannelEvents \/ HandleChannelEvent \/ TakeTrackerEvents
           \/ DispatchEnds \/ WorkerExits
    PROVE  Trk'
<1> USE DEF queueVars, loopVars, postVars, ownerVars, channelVars, trackVars
<1>0. WorkerLocals
  BY DEF Trk
<1>a. /\ wpc \in {"loop", "cev", "dispatch"}
      /\ UNCHANGED <<tslots, trackers, pending, wtrk, opc, otrk, oop, kind, held, owned,
                     installed, tracked, reg>>
  BY DEF TakeChannelEvents, HandleChannelEvent, TakeTrackerEvents, DispatchEnds, WorkerExits
<1>1. WorkerLocals'
  <2>1. CASE TakeChannelEvents
    BY <1>0, <1>a, <2>1 DEF TakeChannelEvents, WorkerLocals
  <2>2. CASE HandleChannelEvent
    BY <1>0, <1>a, <2>2 DEF HandleChannelEvent, WorkerLocals
  <2>3. CASE TakeTrackerEvents
    BY <1>0, <1>a, <2>3 DEF TakeTrackerEvents, WorkerLocals
  <2>4. CASE DispatchEnds \/ WorkerExits
    BY <1>0, <1>a, <2>4 DEF DispatchEnds, WorkerExits, WorkerLocals
  <2> QED BY <2>1, <2>2, <2>3, <2>4
<1> QED BY <1>a, <1>1, TrkFrame

\* Nor do stop, the posting threads and the descriptors.
LEMMA OthersTrk ==
    ASSUME TypeOK, Trk,
           \/ Stop \/ UNCHANGED vars
           \/ \E p \in Posters : Post(p) \/ PostFill(p) \/ PostCount(p)
           \/ \E t \in Trackers : BecomesReady(t)
    PROVE  Trk'
<1> USE DEF vars, queueVars, loopVars, postVars, ownerVars, channelVars, trackVars
<1>a. UNCHANGED <<tslots, trackers, loopVars, pending, wtrk, opc, otrk, oop, kind, held,
                  owned, installed, tracked, reg>>
  BY DEF Stop, Post, PostFill, PostCount, BecomesReady
<1>1. WorkerLocals'
  BY <1>a DEF Trk, WorkerLocals
<1> QED BY <1>a, <1>1, TrkFrame

\* Every step keeps the trackers right.
LEMMA NextTrk ==
    ASSUME PollerAssumption, TypeOK, Trk, [Next]_vars
    PROVE  Trk'
<1>1. CASE Stop \/ UNCHANGED vars
  BY <1>1, OthersTrk
<1>2. CASE WorkerStep
  <2>1. CASE \/ TakeChannelEvents \/ HandleChannelEvent \/ TakeTrackerEvents
             \/ DispatchEnds \/ WorkerExits
    BY <2>1, WorkerGoesRoundTrk
  <2>2. CASE HandleTrackerEvent
    BY <2>2, HandleTrackerEventTrk
  <2>3. CASE Poll
    BY <2>3, PollTrk
  <2>4. CASE \E t \in Trackers : Dispatch(t)
    BY <2>4, DispatchTrk
  <2>5. CASE HandlerRestarts \/ HandlerRearms \/ HandlerPauses
    BY <2>5, HandlerGoesOnTrk
  <2>6. CASE HandlerUninstalls \/ HandlerEnds
    BY <2>6, HandlerStopsTrk
  <2> QED BY <1>2, <2>1, <2>2, <2>3, <2>4, <2>5, <2>6 DEF WorkerStep
<1>3. CASE \E p \in Posters : Post(p) \/ PostFill(p) \/ PostCount(p)
  BY <1>3, OthersTrk
<1>4. ASSUME NEW o \in Owners, OwnerStep(o)
      PROVE  Trk'
  <2>1. CASE InstallAdd(o)
    BY <2>1, InstallAddTrk
  <2>2. CASE EventClaim(o)
    BY <2>2, EventClaimTrk
  <2>3. CASE EventFill(o) \/ EventCount(o)
    BY <2>3, EventDoneTrk
  <2>4. CASE StartArm(o)
    BY <2>4, StartArmTrk
  <2>5. CASE Uninstall(o)
    BY <2>5, UninstallTrk
  <2>6. CASE UninstallDel(o)
    BY <2>6, UninstallDelTrk
  <2> QED BY <1>4, <2>1, <2>2, <2>3, <2>4, <2>5, <2>6 DEF OwnerStep
<1>5. ASSUME NEW o \in Owners, NEW t \in Trackers,
             Start(o, t) \/ Release(o, t) \/ \E k \in Kinds : Install(o, t, k)
      PROVE  Trk'
  BY <1>5, StartTrk, ReleaseTrk, InstallTrk
<1>6. CASE \E t \in Trackers : BecomesReady(t)
  BY <1>6, OthersTrk
<1> QED BY <1>1, <1>2, <1>3, <1>4, <1>5, <1>6 DEF Next

-----------------------------------------------------------------------------
(* The theorems.                                                           *)

\* CountersMatch is the two queues' counters.
LEMMA InvParts ==
    /\ QInv /\ Trk <=> IInv /\ TrackedIsArmed
    /\ (QInv /\ Trk => TypeOK /\ OwnerLocals /\ WorkerLocals)
<1>1. CountersMatch <=> CevMatch /\ TevMatch
  BY DEF CountersMatch, CevMatch, TevMatch, Posting, Queueing
<1> QED BY <1>1 DEF QInv, Trk, IInv

\* A new poller has no tracker and no event.
LEMMA InitInv ==
    ASSUME PollerAssumption, Init
    PROVE  QInv /\ Trk
<1> USE DEF Init, ChannelEvents!Init, TrackerEvents!Init
<1>1. Posting = {} /\ Queueing = {}
  BY DEF Posting, Queueing
<1>2. TypeOK
  BY DEF PollerAssumption, TypeOK
<1>3. CevMatch /\ TevMatch
  BY <1>1, FS_EmptySet DEF CevMatch, TevMatch
<1>4. \A t, op : ~Queued(t, op)
  BY DEF Queued
<1>5. OwnerLocals /\ WorkerLocals
  BY DEF OwnerLocals, WorkerLocals, Removing
<1>6. Installed /\ MappedOrOver /\ TrackedIsArmed
  BY <1>4 DEF Installed, MappedOrOver, TrackedIsArmed
<1> QED BY <1>2, <1>3, <1>5, <1>6 DEF QInv, Trk

\* A step keeps the queues and the trackers right.
LEMMA NextInv ==
    ASSUME PollerAssumption, QInv, Trk, [Next]_vars
    PROVE  QInv' /\ Trk'
<1>1. TypeOK /\ OwnerLocals /\ WorkerLocals
  BY InvParts
<1> QED BY <1>1, NextQInv, NextTrk

\* A tracker that is registered or pending is alive: it is mapped, or its
\* removal is queued, or a thread that installs it has its channel.
LEMMA AliveFromInv ==
    ASSUME PollerAssumption, QInv, Trk
    PROVE  TrackerAlive
<1>1. /\ TypeOK /\ OwnerLocals /\ WorkerLocals /\ Installed /\ MappedOrOver
  BY InvParts DEF Trk
<1>2. \A t, op : Queued(t, op) => Alive(t)
  BY DEF Queued, Alive
<1>3. ASSUME NEW t \in Trackers, Mapped(t)
      PROVE  Alive(t)
  <2>1. CASE t \in trackers
    BY <2>1 DEF Alive
  <2>2. CASE Queued(t, "append")
    BY <1>2, <2>2
  <2>3. CASE \E o \in Owners : otrk[o] = t /\ opc[o] = "claim" /\ oop[o] = "append"
    BY <1>1, <2>3 DEF OwnerLocals, Installed, Alive
  <2> QED BY <1>3, <2>1, <2>2, <2>3 DEF Mapped
<1>4. \A t \in pending : t \in Trackers /\ Alive(t)
  BY <1>1, <1>2, <1>3 DEF TypeOK, MappedOrOver
<1>5. ASSUME NEW t \in Trackers, reg[t] # "none"
      PROVE  Alive(t)
  <2>1. t \in installed /\ ~Over(t)
    BY <1>1, <1>5 DEF Installed, Over
  <2> QED BY <1>1, <1>3, <2>1 DEF MappedOrOver
<1> QED BY <1>4, <1>5 DEF TrackerAlive

\* For every set of threads and trackers, the counters of the two queues match
\* what is queued, and every tracker that epoll or the worker can reach is in
\* the worker's map, or on its way into it, or over.
THEOREM PollerInvariance == ASSUME PollerAssumption PROVE Spec => []IInv
<1>1. Init => QInv /\ Trk
  BY InitInv
<1>2. QInv /\ Trk /\ [Next]_vars => (QInv /\ Trk)'
  BY NextInv
<1>3. QInv /\ Trk => IInv
  BY InvParts
<1> QED BY <1>1, <1>2, <1>3, PTL DEF Spec

\* What epoll_wait returns, and what it may return, is never a freed tracker.
THEOREM TrackersStayAlive == ASSUME PollerAssumption PROVE Spec => []TrackerAlive
<1>1. Init => QInv /\ Trk
  BY InitInv
<1>2. QInv /\ Trk /\ [Next]_vars => (QInv /\ Trk)'
  BY NextInv
<1>3. QInv /\ Trk => TrackerAlive
  BY AliveFromInv
<1> QED BY <1>1, <1>2, <1>3, PTL DEF Spec

\* A tracked tracker's registration is armed, or about to be, or its event is
\* pending: its events are not lost.
THEOREM TrackedStaysArmed == ASSUME PollerAssumption PROVE Spec => []TrackedIsArmed
<1>1. Init => QInv /\ Trk
  BY InitInv
<1>2. QInv /\ Trk /\ [Next]_vars => (QInv /\ Trk)'
  BY NextInv
<1>3. QInv /\ Trk => TrackedIsArmed
  BY InvParts
<1> QED BY <1>1, <1>2, <1>3, PTL DEF Spec
=============================================================================
