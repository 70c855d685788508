------------------------------ MODULE O2OQueue ------------------------------
(***************************************************************************)
(* pump/toolkit/freelock_o2o_queue.h: a ring of blocks, each itself a ring *)
(* of BlockSize elements of which one stays free.  One thread pushes and   *)
(* one pops; each keeps a copy of the position the other one moves         *)
(* (cache_head, cache_tail) and looks at the real one only when the copy   *)
(* says full or empty.  Atomic loads and stores are sequentially           *)
(* consistent; an allocation may fail, and does when MaxBlocks are made.   *)
(***************************************************************************)
EXTENDS Naturals, Sequences

CONSTANTS BlockSize,   \* block_element_size_, a power of two
          InitBlocks,  \* blocks made by __init_list
          MaxBlocks,   \* bound: blocks in all
          MaxPush,     \* bound: elements pushed
          NoValue

\* Assumed of the constants: one element of a block stays free.
RingAssumption ==
    /\ BlockSize \in Nat \ {0, 1}
    /\ InitBlocks \in Nat \ {0}
    /\ MaxBlocks \in Nat /\ MaxBlocks >= InitBlocks
    /\ MaxPush \in Nat

Blocks == 1 .. MaxBlocks
Values == 1 .. MaxPush

VARIABLES
    next, head, cacheTail, tail, cacheHead, data,  \* the block_nodes
    blkHead, blkTail,  \* blk_head_, blk_tail_
    blocks,            \* capacity_, in blocks
    ppc, pblk, ptail,  \* push: control, blk, tail
    cpc, cblk, chead,  \* pop: control, blk, head
    got,               \* what pop has read
    pushed,            \* elements pushed or being pushed
    slots              \* history: what was pushed and not popped, oldest first

ring == <<next, blkTail, blocks>>
producer == <<ppc, pblk, ptail, tail, cacheHead, data>>
consumer == <<cpc, cblk, chead, blkHead, head, cacheTail, got>>
vars == <<next, head, cacheTail, tail, cacheHead, data, blkHead, blkTail,
          blocks, ppc, pblk, ptail, cpc, cblk, chead, got, pushed, slots>>

Up(i) == (i + 1) % BlockSize

\* __init_list
Init ==
    /\ next = [b \in Blocks |-> IF b < InitBlocks THEN b + 1 ELSE 1]
    /\ head = [b \in Blocks |-> 0] /\ cacheTail = head
    /\ tail = head /\ cacheHead = head
    /\ data = [b \in Blocks |-> [i \in 0 .. BlockSize - 1 |-> NoValue]]
    /\ blkHead = 1 /\ blkTail = 1 /\ blocks = InitBlocks
    /\ ppc = "idle" /\ pblk = 1 /\ ptail = 0
    /\ cpc = "idle" /\ cblk = 1 /\ chead = 0
    /\ got = NoValue /\ pushed = 0 /\ slots = <<>>

-----------------------------------------------------------------------------
(* push *)

\* The tail block has room by the copy of its head, or by the head itself.
Push ==
    /\ ppc = "idle" /\ pushed < MaxPush
    /\ pushed' = pushed + 1
    /\ pblk' = blkTail /\ ptail' = tail[blkTail]
    /\ LET full == Up(tail[blkTail]) = cacheHead[blkTail]
       IN  /\ cacheHead' = IF full THEN [cacheHead EXCEPT ![blkTail] = head[blkTail]]
                                   ELSE cacheHead
           /\ ppc' = IF Up(tail[blkTail]) = cacheHead'[blkTail] THEN "next" ELSE "put"
    /\ UNCHANGED <<ring, consumer, tail, data, slots>>

\* Mutant: a block is taken as free although the consumer is in it.
PushNextAny ==
    /\ ppc = "next"
    /\ IF blocks > 1
       THEN ppc' = "next_head" /\ pblk' = next[pblk] /\ UNCHANGED <<next, blocks, ptail>>
       ELSE /\ blocks < MaxBlocks
            /\ blocks' = blocks + 1
            /\ next' = [next EXCEPT ![blocks'] = next[pblk], ![pblk] = blocks']
            /\ pblk' = blocks' /\ ptail' = 0 /\ ppc' = "put_new"
    /\ UNCHANGED <<consumer, blkTail, tail, cacheHead, data, pushed, slots>>

\* The block behind it is free unless the consumer is in it; then a new one is
\* put in between.
PushNext ==
    /\ ppc = "next"
    /\ IF next[pblk] # blkHead
       THEN ppc' = "next_head" /\ pblk' = next[pblk] /\ UNCHANGED <<next, blocks, ptail>>
       ELSE /\ blocks < MaxBlocks
            /\ blocks' = blocks + 1
            /\ next' = [next EXCEPT ![blocks'] = next[pblk], ![pblk] = blocks']
            /\ pblk' = blocks' /\ ptail' = 0 /\ ppc' = "put_new"
    /\ UNCHANGED <<consumer, blkTail, tail, cacheHead, data, pushed, slots>>

\* ... unless there is no memory for it: push returns false.
PushFails ==
    /\ ppc = "next" /\ next[pblk] = blkHead
    /\ ppc' = "idle" /\ pushed' = pushed - 1
    /\ UNCHANGED <<ring, consumer, pblk, ptail, tail, cacheHead, data, slots>>

\* A free block is filled from where its head was left.
PushNextHead ==
    /\ ppc = "next_head"
    /\ cacheHead' = [cacheHead EXCEPT ![pblk] = head[pblk]]
    /\ ptail' = head[pblk]
    /\ ppc' = "put_next"
    /\ UNCHANGED <<ring, consumer, pblk, tail, data, pushed, slots>>

\* The element is constructed: the slot that becomes visible with the stores.
PushPut ==
    /\ ppc \in {"put", "put_next", "put_new"}
    /\ data' = [data EXCEPT ![pblk][ptail] = pushed]
    /\ slots' = Append(slots, [val |-> pushed, ready |-> FALSE])
    /\ ppc' = [put |-> "tail", put_next |-> "tail_next", put_new |-> "tail_new"][ppc]
    /\ UNCHANGED <<ring, consumer, pblk, ptail, tail, cacheHead, pushed>>

\* The last slot is ready with the store that shows it: the tail of the block
\* the consumer may be in, or blk_tail_ for another block.
LastReady == slots' = [slots EXCEPT ![Len(slots)].ready = TRUE]

\* In a new block cache_tail is set with tail; no consumer is there yet.
PushTail ==
    /\ ppc \in {"tail", "tail_next", "tail_new"}
    /\ tail' = [tail EXCEPT ![pblk] = Up(ptail)]
    /\ cacheTail' = IF ppc = "tail_new" THEN [cacheTail EXCEPT ![pblk] = 1] ELSE cacheTail
    /\ IF ppc = "tail"
       THEN LastReady /\ ppc' = "idle"
       ELSE ppc' = "blk_tail" /\ UNCHANGED slots
    /\ UNCHANGED <<ring, cpc, cblk, chead, blkHead, head, got, pblk, ptail,
                   cacheHead, data, pushed>>

PushBlkTail ==
    /\ ppc = "blk_tail"
    /\ blkTail' = pblk
    /\ LastReady /\ ppc' = "idle"
    /\ UNCHANGED <<consumer, next, blocks, pblk, ptail, tail, cacheHead, data, pushed>>

-----------------------------------------------------------------------------
(* pop *)

Pop ==
    /\ cpc = "idle"
    /\ cblk' = blkHead /\ chead' = head[blkHead]
    /\ cacheTail' = IF head[blkHead] = cacheTail[blkHead]
                    THEN [cacheTail EXCEPT ![blkHead] = tail[blkHead]] ELSE cacheTail
    /\ cpc' = IF head[blkHead] # cacheTail'[blkHead] THEN "take" ELSE "other"
    /\ UNCHANGED <<ring, producer, blkHead, head, got, pushed, slots>>

\* Nothing in this block: it is the last one and pop fails, or it is not.
PopOther ==
    /\ cpc = "other"
    /\ cpc' = IF cblk = blkTail THEN "idle" ELSE "again"
    /\ UNCHANGED <<ring, producer, cblk, chead, blkHead, head, cacheTail, got,
                   pushed, slots>>

\* Mutant: the tail is not looked at again.
PopAgainNot ==
    /\ cpc = "again"
    /\ cblk' = next[cblk] /\ blkHead' = next[cblk]
    /\ cpc' = "moved"
    /\ UNCHANGED <<ring, producer, chead, head, cacheTail, got, pushed, slots>>

\* It may have been filled up before the producer went on: the tail is looked
\* at again, and only an empty block is left.
PopAgain ==
    /\ cpc = "again"
    /\ cacheTail' = [cacheTail EXCEPT ![cblk] = tail[cblk]]
    /\ IF chead = tail[cblk]
       THEN cblk' = next[cblk] /\ blkHead' = next[cblk] /\ cpc' = "moved"
       ELSE cpc' = "take" /\ UNCHANGED <<cblk, blkHead>>
    /\ UNCHANGED <<ring, producer, chead, head, got, pushed, slots>>

PopMoved ==
    /\ cpc = "moved"
    /\ chead' = head[cblk]
    /\ cacheTail' = [cacheTail EXCEPT ![cblk] = tail[cblk]]
    /\ cpc' = "take"
    /\ UNCHANGED <<ring, producer, cblk, blkHead, head, got, pushed, slots>>

PopTake ==
    /\ cpc = "take"
    /\ got' = data[cblk][chead]
    /\ cpc' = "head"
    /\ UNCHANGED <<ring, producer, cblk, chead, blkHead, head, cacheTail, pushed, slots>>

PopHead ==
    /\ cpc = "head"
    /\ head' = [head EXCEPT ![cblk] = Up(chead)]
    /\ slots' = Tail(slots)
    /\ cpc' = "idle"
    /\ UNCHANGED <<ring, producer, cblk, chead, blkHead, cacheTail, got, pushed>>

-----------------------------------------------------------------------------
PushStep ==
    \/ PushNext \/ PushFails \/ PushNextHead
    \/ PushPut \/ PushTail \/ PushBlkTail
PopStep == PopOther \/ PopAgain \/ PopMoved \/ PopTake \/ PopHead

Next == Push \/ PushStep \/ Pop \/ PopStep

Spec == Init /\ [][Next]_vars

\* A push that has begun goes on, and the consumer keeps popping.
Fairness == WF_vars(PushStep) /\ WF_vars(Pop \/ PopStep)

FairSpec == Spec /\ Fairness

-----------------------------------------------------------------------------
(* Properties.                                                             *)

Positions == 0 .. BlockSize - 1
\* push has appended the element's slot, which nobody sees yet.
Unseen == {"tail", "tail_next", "tail_new", "blk_tail"}
\* push is about to go on to pblk.
Entering == {"next_head", "put_next", "put_new", "tail_next", "tail_new", "blk_tail"}

TypeOK ==
    /\ next \in [Blocks -> Blocks]
    /\ head \in [Blocks -> Positions] /\ cacheTail \in [Blocks -> Positions]
    /\ tail \in [Blocks -> Positions] /\ cacheHead \in [Blocks -> Positions]
    /\ data \in [Blocks -> [Positions -> Values \cup {NoValue}]]
    /\ blkHead \in Blocks /\ blkTail \in Blocks /\ blocks \in InitBlocks .. MaxBlocks
    /\ ppc \in {"idle", "next", "put"} \cup Unseen \cup Entering
    /\ cpc \in {"idle", "other", "again", "moved", "take", "head"}
    /\ pblk \in Blocks /\ cblk \in Blocks /\ ptail \in Positions /\ chead \in Positions
    /\ pushed \in 0 .. MaxPush
    /\ slots \in Seq([val : Values, ready : BOOLEAN])

\* Elements are numbered as they are pushed: the last one that pop can see,
\* the last one that has a slot, and the last one that was popped.
Visible == IF ppc = "idle" THEN pushed ELSE pushed - 1
LastClaimed == IF ppc \in {"idle"} \cup Unseen THEN pushed ELSE pushed - 1
Popped == LastClaimed - Len(slots)

\* How far it is from one position of a block to another, and the way back.
Dist(h, t) == IF h <= t THEN t - h ELSE t + BlockSize - h
At(h, j) == IF h + j < BlockSize THEN h + j ELSE h + j - BlockSize

Ring == 1 .. blocks
Held(b) == Dist(head[b], tail[b])
First(b) == data[b][head[b]]
\* Block b holds elements that pop can see.
Live(b) == head[b] # tail[b] /\ ~(ppc = "blk_tail" /\ b = pblk)

\* The blocks in use are linked in a ring, the others are as they were created.
Linked ==
    /\ \A b \in Ring : next[b] \in Ring
    /\ \A b, c \in Ring : next[b] = next[c] => b = c
    /\ \A b \in Ring : \E c \in Ring : next[c] = b
    /\ blkHead \in Ring /\ blkTail \in Ring
    /\ \A b \in Blocks : b > blocks => head[b] = 0 /\ tail[b] = 0 /\ cacheHead[b] = 0

\* A block's elements follow each other, and all of them are still to be popped.
BlocksInOrder ==
    \A b \in Ring : Live(b) =>
        /\ First(b) \in Nat /\ Popped < First(b) /\ First(b) + Held(b) - 1 <= Visible
        /\ \A j \in 1 .. Held(b) - 1 : data[b][At(head[b], j)] = First(b) + j

\* From blk_head_ to blk_tail_ each block goes on where the one before it ends;
\* behind blk_tail_ they are empty up to blk_head_.
RingInOrder ==
    /\ \A b \in Ring \ {blkTail} :
        /\ Live(b) \/ b = blkHead => Live(next[b])
        /\ Live(b) => First(next[b]) = First(b) + Held(b)
    /\ \A b \in Ring : b = blkTail \/ (~Live(b) /\ b # blkHead) =>
        (Live(next[b]) => next[b] = blkHead)
    /\ IF Live(blkTail) THEN First(blkTail) + Held(blkTail) - 1 = Visible
                        ELSE blkTail = blkHead /\ Popped = Visible
    /\ IF Live(blkHead) THEN First(blkHead) = Popped + 1
                        ELSE blkHead # blkTail => First(next[blkHead]) = Popped + 1

\* The copies of head and tail are behind them.
CopiesBehind ==
    /\ Held(blkTail) <= Dist(cacheHead[blkTail], tail[blkTail])
    /\ cpc # "moved" => Dist(head[blkHead], cacheTail[blkHead]) <= Held(blkHead)

\* What push knows.
PushLocals ==
    /\ ppc # "idle" => pushed > 0
    /\ ppc \in {"next", "put", "tail"} => pblk = blkTail
    /\ ppc \in {"put", "tail"} => ptail = tail[pblk] /\ Up(ptail) # cacheHead[pblk]
    /\ ppc \in Entering => pblk = next[blkTail] /\ pblk # blkHead
    /\ ppc \in Entering \ {"blk_tail"} => head[pblk] = tail[pblk]
    /\ ppc \in Entering \ {"next_head"} => ptail = head[pblk] /\ cacheHead[pblk] = ptail
    /\ ppc = "blk_tail" => tail[pblk] = Up(ptail)
    /\ ppc \in Unseen => data[pblk][ptail] = pushed

\* What pop knows.
PopLocals ==
    /\ cpc # "idle" => cblk = blkHead
    /\ cpc \in {"other", "again", "take", "head"} => chead = head[cblk]
    /\ cpc = "again" => blkHead # blkTail
    /\ cpc \in {"moved", "take", "head"} => Live(blkHead)
    /\ cpc \in {"take", "head"} => chead # cacheTail[cblk]
    /\ cpc = "head" => got = First(blkHead)

\* The slots are those of the elements that are not popped.
SlotsInOrder ==
    /\ Popped >= 0
    /\ \A i \in DOMAIN slots : slots[i].val = Popped + i
                             /\ slots[i].ready = (slots[i].val <= Visible)

RingInv ==
    /\ TypeOK /\ Linked /\ BlocksInOrder /\ RingInOrder /\ CopiesBehind
    /\ PushLocals /\ PopLocals /\ SlotsInOrder

\* What pop returns is the oldest element, which was there, whichever of the
\* copies of the positions were stale and whichever block it took it from
\* (freelock_o2o_queue.h: push, pop).
TakesOldest == cpc = "head" => slots # <<>> /\ slots[1].ready /\ slots[1].val = got

Slots == INSTANCE SlotQueue

\* The ring of blocks is a queue of slots filled and popped in order.
ImplementsSlotQueue == Slots!Spec

\* Every element that is pushed is popped; a pop that fails looks again.
EveryElementPopped == []<>(slots = <<>>)
=============================================================================
