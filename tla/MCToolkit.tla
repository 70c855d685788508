------------------------------ MODULE MCToolkit ------------------------------
(***************************************************************************)
(* The classes of pump/toolkit in one run: the semaphore, the queue with a *)
(* semaphore, the two rings and the buffer.  They share nothing, so that   *)
(* only one of them (part) moves in a behaviour and the others stay as     *)
(* they were created.                                                      *)
(***************************************************************************)
EXTENDS LightSemaphore, Sequences

CONSTANTS Producers, MaxItems,                        \* FreelockQueue
          M2MProducers, Consumers, M2MBlocks, M2MPush,  \* M2MQueue
          O2OBlocks, O2OPush,                         \* O2OQueue
          BlockSize, InitBlocks, NoValue,             \* both
          Modulus, Limit, MaxWritten, Handles, MaxOwners  \* IoBuffer

VARIABLES part,
          slots, permits, ppc, fcount, cpc, dequeued,
          next, ready, data, head, tail, blocks, mppc, pushes, wnode, wnext,
          mcpc, ctail, rnode, got, claims, want,
          onext, ohead, cacheTail, otail, cacheHead, odata, blkHead, blkTail,
          oblocks, oppc, pblk, ptail, ocpc, cblk, chead, ogot, pushed, oslots,
          alloced, raw, rawSize, rpos, size, references, freed, written, taken,
          owners, handles

freelock == <<slots, permits, ppc, fcount, cpc, dequeued>>
m2m == <<next, ready, data, head, tail, blocks, mppc, pushes, wnode, wnext, mcpc,
         ctail, rnode, got, claims, want>>
o2o == <<onext, ohead, cacheTail, otail, cacheHead, odata, blkHead, blkTail,
         oblocks, oppc, pblk, ptail, ocpc, cblk, chead, ogot, pushed, oslots>>
buffer == <<alloced, raw, rawSize, rpos, size, references, freed, written, taken,
            owners, handles>>

F == INSTANCE FreelockQueue WITH count <- fcount
M == INSTANCE M2MQueue WITH Producers <- M2MProducers, MaxBlocks <- M2MBlocks,
        MaxPush <- M2MPush, ppc <- mppc, cpc <- mcpc
O == INSTANCE O2OQueue WITH MaxBlocks <- O2OBlocks, MaxPush <- O2OPush,
        next <- onext, head <- ohead, tail <- otail, data <- odata,
        blocks <- oblocks, ppc <- oppc, cpc <- ocpc, got <- ogot, slots <- oslots
B == INSTANCE IoBuffer WITH count <- references

MCAssumption ==
    /\ F!FreelockAssumption /\ M!QueueAssumption /\ O!RingAssumption
    /\ B!BufferAssumption
ASSUME MCAssumption

MCInit ==
    /\ Init /\ F!Init /\ M!Init /\ O!Init /\ B!Init
    /\ part \in {"semaphore", "freelock", "m2m", "o2o", "buffer"}
    /\ part # "buffer" => rawSize = 0 /\ alloced

MCNext ==
    \/ part = "semaphore" /\ Next /\ UNCHANGED <<part, freelock, m2m, o2o, buffer>>
    \/ part = "freelock" /\ F!Next /\ UNCHANGED <<part, vars, m2m, o2o, buffer>>
    \/ part = "m2m" /\ M!Next /\ UNCHANGED <<part, vars, freelock, o2o, buffer>>
    \/ part = "o2o" /\ O!Next /\ UNCHANGED <<part, vars, freelock, m2m, buffer>>
    \/ part = "buffer" /\ B!Next /\ UNCHANGED <<part, vars, freelock, m2m, o2o>>

\* The fairness of the parts.  That of a consumer is for the run that moves
\* its ring: a part that stands still would have to take the poll it is ready for.
MCFairness ==
    /\ Fairness /\ F!Fairness
    /\ \A p \in M2MProducers : WF_m2m(M!PushStep(p))
    /\ \A c \in Consumers : WF_m2m(part = "m2m" /\ (M!LoadTail(c) \/ M!PopStep(c)))
    /\ WF_o2o(O!PushStep) /\ WF_o2o(part = "o2o" /\ (O!Pop \/ O!PopStep))

MCSpec ==
    MCInit /\ [][MCNext]_<<part, vars, freelock, m2m, o2o, buffer>> /\ MCFairness

\* freelock_queue: types, and one permit for every element (freelock_queue.h).
FreelockInv == F!FreelockInv

\* freelock_queue: a dequeue with a permit has something to pop
\* (freelock_queue.h: dequeue).
PopFindsSlot == F!PopFindsSlot

\* freelock_queue: everything is dequeued (freelock_queue.h: dequeue).
AllDequeued == F!AllDequeued

\* The m2m ring: slots are claimed in the order of its nodes, a pop returns the
\* element of the slot whose turn it was, and so the ring implements SlotQueue
\* (freelock_m2m_queue.h: push, __extend_list, pop).
M2MKeepsOrder ==
    /\ [](M!TypeOK /\ M!ClaimsFollowTail /\ M!DeliversClaimed)
    /\ M!ImplementsSlotQueue

\* The o2o ring: a pop returns the oldest element, whichever of the copies of
\* the positions were stale, and the ring implements SlotQueue
\* (freelock_o2o_queue.h: push, pop).
O2OKeepsOrder ==
    /\ [](O!TypeOK /\ O!TakesOldest)
    /\ O!ImplementsSlotQueue

\* Every element of a ring is popped, and every push to one comes back
\* (freelock_m2m_queue.h, freelock_o2o_queue.h).
RingsGoOn == M!EveryElementPopped /\ M!PushReturns /\ O!EveryElementPopped

\* io_buffer: the data lies inside the memory and is what was written
\* (buffer.cpp).
BufferContent == B!BufferContent

\* io_buffer: destroyed with its last reference (buffer.cpp, buffer.h).
BufferReferences == B!BufferReferences
=============================================================================
