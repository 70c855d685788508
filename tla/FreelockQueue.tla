--------------------------- MODULE FreelockQueue ---------------------------
(***************************************************************************)
(* pump/toolkit/freelock_queue.h: a queue and a light_semaphore.  enqueue  *)
(* pushes and then signals; dequeue waits for a permit and then pops until *)
(* pop succeeds.  The inner queue is SlotQueue and the semaphore           *)
(* CountingSemaphore, which M2MQueue and LightSemaphore implement.         *)
(*                                                                         *)
(* The permit a consumer gets need not be for the element it finds: a      *)
(* second producer may have filled and signalled its slot while the first  *)
(* is still filling the slot in front.  dequeue then spins.                *)
(***************************************************************************)
EXTENDS Integers, Sequences, FiniteSets

CONSTANTS Producers,
          MaxItems  \* bound: elements enqueued by one producer

\* Assumed of the constants by the theorems.
FreelockAssumption == IsFiniteSet(Producers) /\ MaxItems \in Nat

Items == Producers \X (1 .. MaxItems)

VARIABLES slots,    \* queue_
          permits,  \* semaphone_
          ppc,      \* control state of each producer
          count,    \* elements each producer has enqueued or is enqueueing
          cpc,      \* control state of the consumer
          dequeued  \* history: what dequeue returned

vars == <<slots, permits, ppc, count, cpc, dequeued>>

Queue == INSTANCE SlotQueue WITH Values <- Items
Semaphore == INSTANCE CountingSemaphore WITH InitCount <- 0, MaxBatch <- 1

Init ==
    /\ Queue!Init
    /\ Semaphore!Init
    /\ ppc = [p \in Producers |-> "idle"]
    /\ count = [p \in Producers |-> 0]
    /\ cpc = "idle"
    /\ dequeued = <<>>

-----------------------------------------------------------------------------
\* enqueue: push claims a slot ...
Enqueue(p) ==
    /\ ppc[p] = "idle" /\ count[p] < MaxItems
    /\ count' = [count EXCEPT ![p] = @ + 1]
    /\ Queue!Claim(<<p, count[p] + 1>>)
    /\ ppc' = [ppc EXCEPT ![p] = "fill"]
    /\ UNCHANGED <<permits, cpc, dequeued>>

\* ... fills it ...
Fill(p) ==
    /\ ppc[p] = "fill"
    /\ \E i \in DOMAIN slots : slots[i].val = <<p, count[p]>> /\ Queue!Fill(i)
    /\ ppc' = [ppc EXCEPT ![p] = "signal"]
    /\ UNCHANGED <<permits, count, cpc, dequeued>>

\* Mutant: the signal is sent twice.
SignalTwice(p) ==
    /\ ppc[p] = "signal"
    /\ permits' = permits + 2
    /\ ppc' = [ppc EXCEPT ![p] = "idle"]
    /\ UNCHANGED <<slots, count, cpc, dequeued>>

\* ... and signals.
Signal(p) ==
    /\ ppc[p] = "signal"
    /\ Semaphore!Release(1)
    /\ ppc' = [ppc EXCEPT ![p] = "idle"]
    /\ UNCHANGED <<slots, count, cpc, dequeued>>

-----------------------------------------------------------------------------
\* Mutant: dequeue does not wait.
WaitNot ==
    /\ cpc = "idle"
    /\ permits' = permits - 1
    /\ cpc' = "pop"
    /\ UNCHANGED <<slots, ppc, count, dequeued>>

\* A dequeue that gets no permit (try_dequeue, or a timeout) changes nothing.
Wait ==
    /\ cpc = "idle"
    /\ Semaphore!Acquire
    /\ cpc' = "pop"
    /\ UNCHANGED <<slots, ppc, count, dequeued>>

\* Mutant: a pop that fails ends the dequeue, the permit is gone.
PopOnce ==
    /\ cpc = "pop"
    /\ IF Queue!CanPop
       THEN Queue!Pop /\ dequeued' = Append(dequeued, Head(slots).val)
       ELSE UNCHANGED <<slots, dequeued>>
    /\ cpc' = "idle"
    /\ UNCHANGED <<permits, ppc, count>>

\* A pop that fails is tried again at once.
Pop ==
    /\ cpc = "pop"
    /\ Queue!Pop
    /\ dequeued' = Append(dequeued, Head(slots).val)
    /\ cpc' = "idle"
    /\ UNCHANGED <<permits, ppc, count>>

-----------------------------------------------------------------------------
Next ==
    \/ \E p \in Producers : Enqueue(p) \/ Fill(p) \/ Signal(p)
    \/ Wait \/ Pop

Spec == Init /\ [][Next]_vars

\* An enqueue that has begun goes on; the consumer keeps dequeueing.
Fairness ==
    /\ \A p \in Producers : WF_vars(Fill(p) \/ Signal(p))
    /\ WF_vars(Wait) /\ WF_vars(Pop)

FairSpec == Spec /\ Fairness

-----------------------------------------------------------------------------
(* Properties.                                                             *)

\* Every variable has the shape the code gives it.
TypeOK ==
    /\ slots \in Seq([val : Items, ready : BOOLEAN])
    /\ permits \in Nat
    /\ ppc \in [Producers -> {"idle", "fill", "signal"}]
    /\ count \in [Producers -> 0 .. MaxItems]
    /\ cpc \in {"idle", "pop"}
    /\ dequeued \in Seq(Items)

Busy == {p \in Producers : ppc[p] # "idle"}

\* Permits and elements agree: one permit for every slot, but for the slots
\* whose enqueue has not signalled yet and the one a dequeue is popping.  More
\* permits and dequeue spins for ever on an empty queue, fewer and an element
\* stays behind.
PermitPerElement ==
    Len(slots) = permits + Cardinality(Busy) + (IF cpc = "pop" THEN 1 ELSE 0)

\* The inductive invariant: enqueue and dequeue keep types and permits right.
FreelockInv == TypeOK /\ PermitPerElement

\* The dequeue that holds a permit has something to pop, although the slot in
\* front may still be unfilled.
PopFindsSlot == cpc = "pop" => slots # <<>>

\* Every dequeue with a permit returns, and every element is dequeued.
AllDequeued == []<>(slots = <<>> /\ cpc = "idle")
=============================================================================
