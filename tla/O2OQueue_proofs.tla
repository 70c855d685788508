-------------------------- MODULE O2OQueue_proofs --------------------------
(***************************************************************************)
(* Proofs about O2OQueue, for any size of a block, any number of blocks    *)
(* and of elements: the inductive invariant RingInv, that pop returns the  *)
(* oldest element, and that the ring of blocks implements SlotQueue.       *)
(***************************************************************************)
EXTENDS O2OQueue, SequenceTheorems, TLAPS

-----------------------------------------------------------------------------
(* Positions in a block.                                                   *)

LEMMA UpIs ==
    ASSUME RingAssumption, NEW i \in Positions
    PROVE  Up(i) \in Positions /\ Up(i) = IF i + 1 = BlockSize THEN 0 ELSE i + 1
<1>1. BlockSize \in Nat /\ BlockSize > 1 /\ i \in 0 .. BlockSize - 1
  BY DEF RingAssumption, Positions
<1>2. CASE i + 1 = BlockSize
  BY <1>1, <1>2 DEF Up, Positions
<1>3. CASE i + 1 < BlockSize
  BY <1>1, <1>3 DEF Up, Positions
<1> QED BY <1>1, <1>2, <1>3

LEMMA DistIs ==
    ASSUME RingAssumption, NEW h \in Positions, NEW t \in Positions
    PROVE  /\ Dist(h, t) \in 0 .. BlockSize - 1
           /\ Dist(h, t) = 0 <=> h = t
           /\ Up(t) # h => Dist(h, Up(t)) = Dist(h, t) + 1
           /\ Up(t) = h <=> Dist(h, t) = BlockSize - 1
           /\ h # t => Dist(Up(h), t) = Dist(h, t) - 1
  BY UpIs DEF RingAssumption, Positions, Dist

LEMMA AtIs ==
    ASSUME RingAssumption, NEW h \in Positions, NEW t \in Positions,
           NEW j \in 0 .. BlockSize - 1
    PROVE  /\ At(h, j) \in Positions /\ At(h, 0) = h
           /\ At(h, Dist(h, t)) = t
           /\ j < Dist(h, t) => At(h, j) # t
           /\ j + 1 < BlockSize => At(Up(h), j) = At(h, j + 1)
  BY UpIs DEF RingAssumption, Positions, Dist, At

-----------------------------------------------------------------------------
LEMMA InitRingInv ==
    ASSUME RingAssumption, Init
    PROVE  RingInv
<1>1. /\ ppc = "idle" /\ cpc = "idle" /\ pushed = 0 /\ slots = <<>> /\ blocks = InitBlocks
      /\ blkHead = 1 /\ blkTail = 1 /\ pblk = 1 /\ cblk = 1 /\ ptail = 0 /\ chead = 0
      /\ head = [b \in Blocks |-> 0] /\ tail = [b \in Blocks |-> 0]
      /\ cacheHead = [b \in Blocks |-> 0] /\ cacheTail = [b \in Blocks |-> 0]
      /\ next = [b \in Blocks |-> IF b < InitBlocks THEN b + 1 ELSE 1]
      /\ data = [b \in Blocks |-> [i \in Positions |-> NoValue]]
  BY DEF Init, Positions
<1>2. /\ BlockSize \in Nat /\ BlockSize > 1 /\ InitBlocks \in Nat /\ InitBlocks > 0
      /\ MaxBlocks \in Nat /\ MaxBlocks >= InitBlocks /\ MaxPush \in Nat
  BY DEF RingAssumption
<1>3. 0 \in Positions /\ 1 \in Blocks
  BY <1>2 DEF Positions, Blocks
<1>4. TypeOK
  <2>1. next \in [Blocks -> Blocks]
    BY <1>1, <1>2 DEF Blocks
  <2>2. slots \in Seq([val : Values, ready : BOOLEAN])
    BY <1>1, EmptySeq
  <2>3. data \in [Blocks -> [Positions -> Values \cup {NoValue}]]
    BY <1>1
  <2>4. blocks \in InitBlocks .. MaxBlocks /\ pushed \in 0 .. MaxPush
    BY <1>1, <1>2
  <2> QED BY <1>1, <1>3, <2>1, <2>2, <2>3, <2>4 DEF TypeOK
<1>5. Visible = 0 /\ Popped = 0
  BY <1>1, EmptySeq DEF Visible, LastClaimed, Popped
<1>6. \A b \in Ring : ~Live(b)
  BY <1>1, <1>2 DEF Live, Ring, Blocks
<1>7. Linked
  <2>1. ASSUME NEW b \in Ring PROVE \E c \in Ring : next[c] = b
    <3>1. CASE b = 1
      <4>1. InitBlocks \in Ring /\ next[InitBlocks] = 1
        BY <1>1, <1>2 DEF Ring, Blocks
      <4> QED BY <3>1, <4>1
    <3>2. CASE b # 1
      <4>1. b - 1 \in Ring /\ next[b - 1] = b
        BY <1>1, <1>2, <3>2 DEF Ring, Blocks
      <4> QED BY <4>1
    <3> QED BY <3>1, <3>2
  <2>2. \A b \in Ring : next[b] \in Ring
    BY <1>1, <1>2 DEF Ring, Blocks
  <2>3. \A b, c \in Ring : next[b] = next[c] => b = c
    BY <1>1, <1>2 DEF Ring, Blocks
  <2>4. blkHead \in Ring /\ blkTail \in Ring
    BY <1>1, <1>2 DEF Ring
  <2>5. \A b \in Blocks : b > blocks => head[b] = 0 /\ tail[b] = 0 /\ cacheHead[b] = 0
    BY <1>1
  <2> QED BY <2>1, <2>2, <2>3, <2>4, <2>5 DEF Linked
<1>8. BlocksInOrder /\ RingInOrder
  <2>1. \A b \in Ring : next[b] \in Ring
    BY <1>7 DEF Linked
  <2>2. blkTail \in Ring
    BY <1>7 DEF Linked
  <2> QED BY <1>1, <1>5, <1>6, <2>1, <2>2 DEF BlocksInOrder, RingInOrder
<1>9. CopiesBehind
  <2>1. Dist(0, 0) = 0
    BY <1>3, DistIs
  <2> QED BY <1>1, <1>3, <2>1 DEF CopiesBehind, Held
<1>10. PushLocals /\ PopLocals
  BY <1>1 DEF PushLocals, PopLocals, Entering, Unseen
<1>11. SlotsInOrder
  BY <1>1, <1>5, EmptySeq DEF SlotsInOrder
<1> QED BY <1>4, <1>7, <1>8, <1>9, <1>10, <1>11 DEF RingInv

\* What the parts of the invariant say of one block that pop can see.
LEMMA LiveBlock ==
    ASSUME RingAssumption, RingInv, NEW b \in Ring
    PROVE  /\ b \in Blocks /\ head[b] \in Positions /\ tail[b] \in Positions
           /\ Held(b) \in 0 .. BlockSize - 1
           /\ Live(b) => Held(b) > 0 /\ At(head[b], 0) = head[b]
<1>1. b \in Blocks
  BY DEF RingInv, TypeOK, Ring, Blocks, RingAssumption
<1>2. head[b] \in Positions /\ tail[b] \in Positions
  BY <1>1 DEF RingInv, TypeOK
<1>3. 0 \in 0 .. BlockSize - 1
  BY DEF RingAssumption
<1>4. At(head[b], 0) = head[b]
  BY <1>2, <1>3, AtIs
<1>5. Held(b) \in 0 .. BlockSize - 1 /\ (Held(b) = 0 <=> head[b] = tail[b])
  BY <1>2, DistIs DEF Held
<1>6. Live(b) => Held(b) > 0
  BY <1>5 DEF Live, RingAssumption
<1> QED BY <1>1, <1>2, <1>4, <1>5, <1>6

\* A step that changes nothing that pop can see.
LEMMA Stays ==
    ASSUME RingAssumption, RingInv,
           UNCHANGED <<next, blkHead, blkTail, blocks>>,
           Visible' = Visible, Popped' = Popped,
           \A b \in Ring : Live(b)' <=> Live(b),
           \A b \in Ring : Live(b) =>
                /\ head'[b] = head[b] /\ tail'[b] = tail[b]
                /\ \A j \in 0 .. Held(b) - 1 :
                       data'[b][At(head[b], j)] = data[b][At(head[b], j)]
    PROVE  BlocksInOrder' /\ RingInOrder'
<1>1. Ring' = Ring /\ \A b \in Ring : next[b] \in Ring
  BY DEF Ring, RingInv, Linked
<1>2. blkHead \in Ring /\ blkTail \in Ring
  BY DEF RingInv, Linked
<1>3. \A b \in Ring : Live(b) => First(b)' = First(b) /\ Held(b)' = Held(b)
  <2> SUFFICES ASSUME NEW b \in Ring, Live(b)
               PROVE  First(b)' = First(b) /\ Held(b)' = Held(b)
    OBVIOUS
  <2>1. 0 \in 0 .. Held(b) - 1 /\ At(head[b], 0) = head[b]
    BY LiveBlock
  <2> QED BY <2>1 DEF First, Held
<1>4. BlocksInOrder'
  <2> SUFFICES ASSUME NEW b \in Ring, Live(b)
               PROVE  /\ First(b)' \in Nat /\ Popped < First(b)'
                      /\ First(b)' + Held(b)' - 1 <= Visible
                      /\ \A j \in 1 .. Held(b)' - 1 :
                            data'[b][At(head'[b], j)] = First(b)' + j
    BY <1>1 DEF BlocksInOrder
  <2>1. /\ First(b) \in Nat /\ Popped < First(b) /\ First(b) + Held(b) - 1 <= Visible
        /\ \A j \in 1 .. Held(b) - 1 : data[b][At(head[b], j)] = First(b) + j
    BY DEF RingInv, BlocksInOrder
  <2>2. Held(b) \in Nat
    BY LiveBlock
  <2> QED BY <1>3, <2>1, <2>2
<1>5. RingInOrder'
  BY <1>1, <1>2, <1>3 DEF RingInOrder, RingInv
<1> QED BY <1>4, <1>5

\* A block that is not in use is none of the ring.
LEMMA UnusedBlock ==
    ASSUME RingAssumption, RingInv, NEW r \in Ring
    PROVE  \A b \in Blocks : b > blocks => b # r
  BY DEF Ring, RingInv, TypeOK, Blocks, RingAssumption

\* A step that links no block.
LEMMA LinkedStays ==
    ASSUME RingAssumption, RingInv, next' = next, blocks' = blocks,
           blkHead' \in Ring, blkTail' \in Ring,
           \A b \in Blocks : b > blocks =>
                head'[b] = head[b] /\ tail'[b] = tail[b] /\ cacheHead'[b] = cacheHead[b]
    PROVE  Linked'
<1>1. Ring' = Ring /\ Linked
  BY DEF Ring, RingInv
<1> QED BY <1>1 DEF Linked

\* The slots of a step that claims, fills or pops none.
LEMMA SlotsStay ==
    ASSUME RingAssumption, RingInv, slots' = slots, Visible' = Visible, Popped' = Popped
    PROVE  SlotsInOrder'
  BY DEF RingInv, SlotsInOrder

-----------------------------------------------------------------------------
(* push *)

LEMMA PushInv ==
    ASSUME RingAssumption, RingInv, Push
    PROVE  RingInv'
<1>0. /\ TypeOK /\ Linked /\ CopiesBehind /\ PopLocals
      /\ blkTail \in Ring /\ blkTail \in Blocks /\ blkHead \in Ring
  BY LiveBlock DEF RingInv, Linked
<1>1. /\ ppc = "idle" /\ pushed < MaxPush /\ pushed' = pushed + 1 /\ pblk' = blkTail
      /\ ptail' = tail[blkTail]
      /\ UNCHANGED <<ring, consumer, tail, data, slots>>
      /\ \/ cacheHead' = cacheHead
         \/ cacheHead' = [cacheHead EXCEPT ![blkTail] = head[blkTail]]
      /\ \/ ppc' = "next"
         \/ ppc' = "put" /\ Up(tail[blkTail]) # cacheHead'[blkTail]
  BY DEF Push
<1>2. Visible' = Visible /\ Popped' = Popped
  BY <1>0, <1>1 DEF Visible, LastClaimed, Popped, Unseen, TypeOK
<1>3. \A b \in Ring : Live(b)' <=> Live(b)
  BY <1>1 DEF Live, consumer
<1>4. TypeOK'
  <2>1. pushed' \in 0 .. MaxPush
    BY <1>0, <1>1 DEF TypeOK, RingAssumption
  <2>2. cacheHead' \in [Blocks -> Positions]
    BY <1>0, <1>1 DEF TypeOK
  <2> QED BY <1>0, <1>1, <2>1, <2>2 DEF TypeOK, ring, consumer
<1>5. Linked'
  BY <1>0, <1>1, UnusedBlock, LinkedStays DEF ring, consumer, TypeOK
<1>6. BlocksInOrder' /\ RingInOrder'
  BY <1>1, <1>2, <1>3, Stays DEF ring, consumer
<1>7. CopiesBehind'
  <2>1. Held(blkTail) = Dist(head[blkTail], tail[blkTail]) /\ Held(blkTail) \in Nat
    BY <1>0, LiveBlock DEF Held
  <2>2. cacheHead'[blkTail] \in {cacheHead[blkTail], head[blkTail]}
    BY <1>0, <1>1 DEF TypeOK
  <2>3. Held(blkTail) <= Dist(cacheHead'[blkTail], tail[blkTail])
    BY <1>0, <2>1, <2>2 DEF CopiesBehind
  <2>4. /\ blkTail' = blkTail /\ tail' = tail /\ blkHead' = blkHead /\ cpc' = cpc
        /\ head' = head /\ cacheTail' = cacheTail
    BY <1>1 DEF ring, consumer
  <2>5. Held(blkTail)' = Held(blkTail) /\ Held(blkHead)' = Held(blkHead)
    BY <2>4 DEF Held
  <2>6. cpc # "moved" => Dist(head[blkHead], cacheTail[blkHead]) <= Held(blkHead)
    BY <1>0 DEF CopiesBehind
  <2> QED BY <2>3, <2>4, <2>5, <2>6 DEF CopiesBehind
<1>8. PushLocals'
  BY <1>0, <1>1 DEF PushLocals, Entering, Unseen, TypeOK, ring, consumer
<1>9. PopLocals'
  BY <1>0, <1>1, <1>3 DEF PopLocals, First, ring, consumer
<1>10. SlotsInOrder'
  BY <1>1, <1>2, SlotsStay
<1> QED BY <1>4, <1>5, <1>6, <1>7, <1>8, <1>9, <1>10 DEF RingInv

\* The block behind is free: nothing in it can be popped.
LEMMA PushNextFree ==
    ASSUME RingAssumption, RingInv, PushNext, next[pblk] # blkHead
    PROVE  RingInv'
<1>0. /\ TypeOK /\ Linked /\ CopiesBehind /\ PopLocals /\ PushLocals /\ RingInOrder
      /\ blkTail \in Ring /\ blkHead \in Ring
  BY DEF RingInv, Linked
<1>1. /\ ppc = "next" /\ ppc' = "next_head" /\ pblk' = next[pblk] /\ pblk = blkTail
      /\ UNCHANGED <<next, blocks, ptail, consumer, blkTail, tail, cacheHead, data, pushed, slots>>
  BY <1>0 DEF PushNext, PushLocals
<1>2. pblk' \in Ring /\ pblk' \in Blocks
  BY <1>0, <1>1, LiveBlock DEF Linked
<1>3. Visible' = Visible /\ Popped' = Popped
  BY <1>1 DEF Visible, LastClaimed, Popped, Unseen
<1>4. \A b \in Ring : Live(b)' <=> Live(b)
  BY <1>1 DEF Live, consumer
<1>5. head[pblk'] = tail[pblk']
  <2>1. ~Live(next[blkTail])
    BY <1>0, <1>1 DEF RingInOrder
  <2> QED BY <1>1, <2>1 DEF Live
<1>6. TypeOK'
  BY <1>0, <1>1, <1>2 DEF TypeOK, consumer, Entering
<1>7. Linked'
  BY <1>0, <1>1, LinkedStays DEF consumer
<1>8. BlocksInOrder' /\ RingInOrder'
  BY <1>1, <1>3, <1>4, Stays DEF consumer
<1>9. CopiesBehind'
  BY <1>0, <1>1 DEF CopiesBehind, Held, consumer
<1>10. PushLocals'
  BY <1>0, <1>1, <1>5 DEF PushLocals, Entering, Unseen, consumer
<1>11. PopLocals'
  BY <1>0, <1>1, <1>4 DEF PopLocals, First, consumer
<1>12. SlotsInOrder'
  BY <1>1, <1>3, SlotsStay
<1> QED BY <1>6, <1>7, <1>8, <1>9, <1>10, <1>11, <1>12 DEF RingInv

\* A push that gets no memory leaves everything as it was.
LEMMA PushFailsInv ==
    ASSUME RingAssumption, RingInv, PushFails
    PROVE  RingInv'
<1>0. TypeOK /\ Linked /\ CopiesBehind /\ PushLocals /\ PopLocals
  BY DEF RingInv
<1>1. /\ ppc = "next" /\ ppc' = "idle" /\ pushed' = pushed - 1
      /\ UNCHANGED <<ring, consumer, pblk, ptail, tail, cacheHead, data, slots>>
  BY DEF PushFails
<1>2. pushed > 0 /\ pushed \in 0 .. MaxPush
  BY <1>0, <1>1 DEF PushLocals, TypeOK
<1>3. Visible' = Visible /\ Popped' = Popped
  BY <1>1, <1>2 DEF Visible, LastClaimed, Popped, Unseen
<1>4. \A b \in Ring : Live(b)' <=> Live(b)
  BY <1>1 DEF Live, consumer
<1>5. TypeOK'
  BY <1>0, <1>1, <1>2, RingAssumption DEF RingAssumption, TypeOK, ring, consumer
<1>6. Linked'
  BY <1>0, <1>1, LinkedStays DEF Linked, ring, consumer
<1>7. BlocksInOrder' /\ RingInOrder'
  BY <1>1, <1>3, <1>4, Stays DEF ring, consumer
<1>8. CopiesBehind'
  BY <1>0, <1>1 DEF CopiesBehind, Held, ring, consumer
<1>9. PushLocals'
  BY <1>1 DEF PushLocals, Entering, Unseen
<1>10. PopLocals'
  BY <1>0, <1>1, <1>4, LiveBlock DEF PopLocals, First, ring, consumer, Linked
<1>11. SlotsInOrder'
  BY <1>1, <1>3, SlotsStay
<1> QED BY <1>5, <1>6, <1>7, <1>8, <1>9, <1>10, <1>11 DEF RingInv

LEMMA PushNextHeadInv ==
    ASSUME RingAssumption, RingInv, PushNextHead
    PROVE  RingInv'
<1>0. /\ TypeOK /\ Linked /\ CopiesBehind /\ PopLocals /\ PushLocals
      /\ blkTail \in Ring /\ blkHead \in Ring
  BY DEF RingInv, Linked
<1>1. /\ ppc = "next_head" /\ ppc' = "put_next" /\ ptail' = head[pblk]
      /\ cacheHead' = [cacheHead EXCEPT ![pblk] = head[pblk]]
      /\ UNCHANGED <<ring, consumer, pblk, tail, data, pushed, slots>>
      /\ pblk \in Blocks /\ pblk = next[blkTail] /\ pblk # blkHead /\ head[pblk] = tail[pblk]
  BY <1>0 DEF PushNextHead, PushLocals, Entering, TypeOK
<1>2. pblk \in Ring
  BY <1>0, <1>1 DEF Linked
<1>3. Visible' = Visible /\ Popped' = Popped
  BY <1>1 DEF Visible, LastClaimed, Popped, Unseen
<1>4. \A b \in Ring : Live(b)' <=> Live(b)
  BY <1>1 DEF Live, consumer
<1>5. TypeOK'
  BY <1>0, <1>1 DEF TypeOK, ring, consumer, Entering
<1>6. Linked'
  BY <1>0, <1>1, <1>2, UnusedBlock, LinkedStays DEF ring, consumer, TypeOK
<1>7. BlocksInOrder' /\ RingInOrder'
  BY <1>1, <1>3, <1>4, Stays DEF ring, consumer
<1>8. CopiesBehind'
  <2>1. /\ blkTail' = blkTail /\ tail' = tail /\ blkHead' = blkHead /\ cpc' = cpc
        /\ head' = head /\ cacheTail' = cacheTail
    BY <1>1 DEF ring, consumer
  <2>2. Held(blkTail)' = Held(blkTail) /\ Held(blkHead)' = Held(blkHead)
    BY <2>1 DEF Held
  <2>3. Held(blkTail) \in Nat /\ Held(blkTail) = Dist(head[blkTail], tail[blkTail])
        /\ blkTail \in Blocks
    BY <1>0, LiveBlock DEF Held
  <2>4. cacheHead'[blkTail] \in {cacheHead[blkTail], head[blkTail]}
    BY <1>0, <1>1, <2>3 DEF TypeOK
  <2>5. Held(blkTail) <= Dist(cacheHead'[blkTail], tail[blkTail])
    BY <1>0, <2>3, <2>4 DEF CopiesBehind
  <2>6. cpc # "moved" => Dist(head[blkHead], cacheTail[blkHead]) <= Held(blkHead)
    BY <1>0 DEF CopiesBehind
  <2> QED BY <2>1, <2>2, <2>5, <2>6 DEF CopiesBehind
<1>9. PushLocals'
  BY <1>0, <1>1 DEF PushLocals, Entering, Unseen, ring, consumer, TypeOK
<1>10. PopLocals'
  BY <1>0, <1>1, <1>4 DEF PopLocals, First, ring, consumer
<1>11. SlotsInOrder'
  BY <1>1, <1>3, SlotsStay
<1> QED BY <1>5, <1>6, <1>7, <1>8, <1>9, <1>10, <1>11 DEF RingInv

\* The block that is put between the tail block and the consumer's is empty.
LEMMA PushNextNew ==
    ASSUME RingAssumption, RingInv, PushNext, next[pblk] = blkHead
    PROVE  RingInv'
<1> DEFINE n == blocks + 1
<1>0. /\ TypeOK /\ Linked /\ CopiesBehind /\ PopLocals /\ PushLocals /\ RingInOrder
      /\ BlocksInOrder
      /\ blkTail \in Ring /\ blkHead \in Ring /\ blkTail \in Blocks /\ blkHead \in Blocks
  BY LiveBlock DEF RingInv, Linked
<1>1. /\ ppc = "next" /\ ppc' = "put_new" /\ pblk' = n /\ pblk = blkTail /\ ptail' = 0
      /\ blocks' = n /\ blocks < MaxBlocks /\ next[blkTail] = blkHead
      /\ next' = [next EXCEPT ![n] = blkHead, ![blkTail] = n]
      /\ UNCHANGED <<consumer, blkTail, tail, cacheHead, data, pushed, slots>>
  BY <1>0 DEF PushNext, PushLocals
<1>2. /\ n \in Blocks /\ n \notin Ring /\ Ring' = Ring \cup {n} /\ Ring \subseteq Blocks
      /\ blocks \in Nat /\ n \in InitBlocks .. MaxBlocks
  <2>1. /\ blocks \in Nat /\ InitBlocks \in Nat /\ InitBlocks > 0 /\ MaxBlocks \in Nat
        /\ InitBlocks <= blocks
    BY <1>0 DEF TypeOK, RingAssumption
  <2>2. Ring = 1 .. blocks /\ Ring' = 1 .. n /\ Blocks = 1 .. MaxBlocks
    BY <1>1 DEF Ring, Blocks
  <2>3. n \in Blocks /\ n \notin Ring /\ n \in InitBlocks .. MaxBlocks
    BY <1>1, <2>1, <2>2
  <2>4. Ring' = Ring \cup {n} /\ Ring \subseteq Blocks
    BY <1>1, <2>1, <2>2
  <2> QED BY <2>1, <2>3, <2>4
<1>3. head[n] = 0 /\ tail[n] = 0 /\ cacheHead[n] = 0
  BY <1>0, <1>2 DEF Linked
<1>4. Visible' = Visible /\ Popped' = Popped
  BY <1>1 DEF Visible, LastClaimed, Popped, Unseen
<1>5. /\ \A b \in Ring' : Live(b)' <=> Live(b)
      /\ ~Live(n)
      /\ \A b \in Blocks : First(b)' = First(b) /\ Held(b)' = Held(b)
  BY <1>1, <1>3 DEF Live, consumer, First, Held
<1>6. /\ next'[n] = blkHead /\ next'[blkTail] = n
      /\ \A b \in Ring \ {blkTail} : next'[b] = next[b]
  BY <1>0, <1>1, <1>2 DEF TypeOK
<1>7. TypeOK'
  <2>1. 0 \in Positions
    BY DEF RingAssumption, Positions
  <2>2. next' \in [Blocks -> Blocks]
    BY <1>0, <1>1, <1>2 DEF TypeOK
  <2> QED BY <1>0, <1>1, <1>2, <2>1, <2>2 DEF TypeOK, consumer, Entering
<1>8. Linked'
  <2>1. \A b \in Ring' : next'[b] \in Ring'
    BY <1>0, <1>2, <1>6 DEF Linked
  <2>2. \A b, c \in Ring' : next'[b] = next'[c] => b = c
    BY <1>0, <1>1, <1>2, <1>6 DEF Linked
  <2>3. \A b \in Blocks : b > n => head[b] = 0 /\ tail[b] = 0 /\ cacheHead[b] = 0
    BY <1>0, <1>2 DEF Linked, Blocks
  <2>4. ASSUME NEW b \in Ring' PROVE \E c \in Ring' : next'[c] = b
    <3>1. CASE b = n
      BY <1>0, <1>2, <1>6, <3>1
    <3>2. CASE b = blkHead
      BY <1>2, <1>6, <3>2
    <3>3. CASE b # n /\ b # blkHead
      <4>1. PICK c \in Ring : next[c] = b
        BY <1>0, <1>2, <3>3 DEF Linked
      <4>2. next'[c] = b
        BY <1>1, <1>6, <3>3, <4>1
      <4> QED BY <1>2, <4>2
    <3> QED BY <3>1, <3>2, <3>3
  <2> QED BY <1>0, <1>1, <1>2, <2>1, <2>2, <2>3, <2>4 DEF Linked, consumer
<1>9. BlocksInOrder'
  BY <1>0, <1>1, <1>2, <1>4, <1>5 DEF BlocksInOrder, consumer
<1>10. RingInOrder'
  <2>1. \A b \in Ring' \ {blkTail} :
            /\ Live(b) \/ b = blkHead => Live(next'[b])
            /\ Live(b) => First(next'[b]) = First(b) + Held(b)
    BY <1>0, <1>2, <1>5, <1>6 DEF RingInOrder
  <2>2. \A b \in Ring' : b = blkTail \/ (~Live(b) /\ b # blkHead) =>
            (Live(next'[b]) => next'[b] = blkHead)
    BY <1>0, <1>2, <1>5, <1>6 DEF RingInOrder
  <2>3. IF Live(blkHead) THEN First(blkHead) = Popped + 1
                         ELSE blkHead # blkTail => First(next'[blkHead]) = Popped + 1
    BY <1>0, <1>6 DEF RingInOrder
  <2>4. /\ \A b \in Ring' : next'[b] \in Ring' /\ next'[b] \in Blocks /\ b \in Blocks
        /\ blkHead' = blkHead /\ blkTail' = blkTail /\ blkHead \in Ring' /\ blkTail \in Ring'
    <3>1. \A b \in Ring' : next'[b] \in Ring'
      BY <1>8 DEF Linked
    <3>2. \A b \in Ring' : b \in Blocks
      BY <1>2
    <3>3. blkHead' = blkHead /\ blkTail' = blkTail /\ blkHead \in Ring' /\ blkTail \in Ring'
      BY <1>0, <1>1, <1>2 DEF consumer
    <3> QED BY <3>1, <3>2, <3>3
  <2>5. /\ \A b \in Ring' : /\ Live(b)' <=> Live(b)
                            /\ First(b)' = First(b) /\ Held(b)' = Held(b)
                            /\ Live(next[b])' <=> Live(next'[b])
                            /\ First(next[b])' = First(next'[b])
    BY <1>1, <1>5, <2>4 DEF Live, First, consumer
  <2>6. IF Live(blkTail) THEN First(blkTail) + Held(blkTail) - 1 = Visible
                         ELSE blkTail = blkHead /\ Popped = Visible
    BY <1>0 DEF RingInOrder
  <2>7. \A b \in Ring' \ {blkTail} :
            /\ Live(b)' \/ b = blkHead => Live(next[b])'
            /\ Live(b)' => First(next[b])' = First(b)' + Held(b)'
    BY <2>1, <2>5
  <2>8. \A b \in Ring' : b = blkTail \/ (~Live(b)' /\ b # blkHead) =>
            (Live(next[b])' => next'[b] = blkHead)
    BY <2>2, <2>5
  <2> QED BY <1>4, <1>5, <2>3, <2>4, <2>5, <2>6, <2>7, <2>8 DEF RingInOrder
<1>11. CopiesBehind'
  BY <1>0, <1>1, <1>5 DEF CopiesBehind, consumer
<1>12. PushLocals'
  BY <1>0, <1>1, <1>2, <1>3, <1>6 DEF PushLocals, Entering, Unseen, consumer
<1>13. PopLocals'
  BY <1>0, <1>1, <1>2, <1>5 DEF PopLocals, consumer
<1>14. SlotsInOrder'
  BY <1>1, <1>4, SlotsStay
<1> QED
  BY <1>7, <1>8, <1>9, <1>10, <1>11, <1>12, <1>13, <1>14 DEF RingInv

\* The element is put where no element is that pop can see.
LEMMA PushPutInv ==
    ASSUME RingAssumption, RingInv, PushPut
    PROVE  RingInv'
<1>0. /\ TypeOK /\ Linked /\ CopiesBehind /\ PopLocals /\ PushLocals /\ SlotsInOrder
      /\ blkTail \in Ring /\ blkHead \in Ring
  BY DEF RingInv, Linked
<1>1. /\ data' = [data EXCEPT ![pblk][ptail] = pushed]
      /\ slots' = Append(slots, [val |-> pushed, ready |-> FALSE])
      /\ UNCHANGED <<ring, consumer, pblk, ptail, tail, cacheHead, pushed>>
      /\ pblk \in Blocks /\ ptail \in Positions /\ pushed > 0 /\ pushed \in 1 .. MaxPush
  BY <1>0 DEF PushPut, PushLocals, TypeOK, RingAssumption
<1>2. \/ ppc = "put" /\ ppc' = "tail"
      \/ ppc = "put_next" /\ ppc' = "tail_next"
      \/ ppc = "put_new" /\ ppc' = "tail_new"
  BY DEF PushPut
<1>3. /\ pblk \in Ring
      /\ ptail = tail[pblk]
  <2>1. CASE ppc = "put"
    BY <1>0, <2>1 DEF PushLocals
  <2>2. CASE ppc # "put"
    BY <1>0, <1>2, <2>2 DEF PushLocals, Linked, Entering
  <2> QED BY <2>1, <2>2
<1>4. Visible' = Visible /\ Visible = pushed - 1
  BY <1>1, <1>2 DEF Visible
<1>5. Len(slots') = Len(slots) + 1 /\ Len(slots) \in Nat
  BY <1>0, <1>1 DEF TypeOK
<1>6. Popped' = Popped /\ Popped = pushed - 1 - Len(slots)
  BY <1>1, <1>2, <1>5 DEF LastClaimed, Popped, Unseen
<1>7. \A b \in Ring : Live(b)' <=> Live(b)
  BY <1>1, <1>2 DEF Live, consumer
<1>8. \A b \in Ring : Live(b) => \A j \in 0 .. Held(b) - 1 :
                       data'[b][At(head[b], j)] = data[b][At(head[b], j)]
  <2> SUFFICES ASSUME NEW b \in Ring, Live(b), NEW j \in 0 .. Held(b) - 1
               PROVE  data'[b][At(head[b], j)] = data[b][At(head[b], j)]
    OBVIOUS
  <2>1. /\ b \in Blocks /\ head[b] \in Positions /\ tail[b] \in Positions
        /\ Held(b) \in 0 .. BlockSize - 1
    BY LiveBlock
  <2>2. j \in 0 .. BlockSize - 1 /\ j < Held(b)
    BY <2>1 DEF RingAssumption
  <2>3. At(head[b], j) \in Positions /\ At(head[b], j) # tail[b]
    BY <2>1, <2>2, AtIs DEF Held
  <2>4. CASE b = pblk
    BY <1>0, <1>1, <1>3, <2>1, <2>3, <2>4 DEF TypeOK
  <2>5. CASE b # pblk
    BY <1>0, <1>1, <2>1, <2>5 DEF TypeOK
  <2> QED BY <2>4, <2>5
<1>9. TypeOK'
  <2>1. slots' \in Seq([val : Values, ready : BOOLEAN])
    <3>1. [val |-> pushed, ready |-> FALSE] \in [val : Values, ready : BOOLEAN]
      BY <1>1 DEF Values
    <3> QED BY <1>0, <1>1, <3>1, AppendProperties DEF TypeOK
  <2>2. data' \in [Blocks -> [Positions -> Values \cup {NoValue}]]
    BY <1>0, <1>1 DEF TypeOK, Values
  <2> QED BY <1>0, <1>1, <1>2, <2>1, <2>2 DEF TypeOK, ring, consumer, Unseen
<1>10. Linked'
  BY <1>0, <1>1, LinkedStays DEF ring, consumer
<1>11. BlocksInOrder' /\ RingInOrder'
  BY <1>1, <1>4, <1>6, <1>7, <1>8, Stays DEF ring, consumer
<1>12. CopiesBehind'
  BY <1>0, <1>1 DEF CopiesBehind, Held, ring, consumer
<1>13. PushLocals'
  <2>1. data'[pblk][ptail] = pushed
    BY <1>0, <1>1 DEF TypeOK
  <2> QED BY <1>0, <1>1, <1>2, <2>1 DEF PushLocals, Entering, Unseen, ring, consumer
<1>14. PopLocals'
  <2>1. Live(blkHead) => First(blkHead)' = First(blkHead)
    <3> SUFFICES ASSUME Live(blkHead) PROVE First(blkHead)' = First(blkHead)
      OBVIOUS
    <3>1. 0 \in 0 .. Held(blkHead) - 1 /\ At(head[blkHead], 0) = head[blkHead]
      BY <1>0, LiveBlock
    <3>2. data'[blkHead][head[blkHead]] = data[blkHead][head[blkHead]]
      BY <1>0, <1>8, <3>1
    <3> QED BY <1>1, <3>2 DEF First, consumer
  <2> QED BY <1>0, <1>1, <1>7, <2>1 DEF PopLocals, ring, consumer
<1>15. SlotsInOrder'
  <2> SUFFICES ASSUME NEW i \in DOMAIN slots'
               PROVE  slots'[i].val = Popped + i /\ slots'[i].ready = (slots'[i].val <= Visible)
    BY <1>0, <1>4, <1>6 DEF SlotsInOrder
  <2>1. /\ DOMAIN slots' = 1 .. Len(slots) + 1 /\ DOMAIN slots = 1 .. Len(slots)
        /\ slots'[Len(slots) + 1] = [val |-> pushed, ready |-> FALSE]
        /\ \A k \in 1 .. Len(slots) : slots'[k] = slots[k]
    BY <1>0, <1>1, <1>5, AppendProperties DEF TypeOK
  <2>2. CASE i = Len(slots) + 1
    <3>1. slots'[i].val = pushed /\ slots'[i].ready = FALSE
      BY <2>1, <2>2
    <3>2. pushed = Popped + i /\ ~(pushed <= Visible)
      <4>1. pushed \in Nat
        BY <1>0 DEF TypeOK
      <4>2. pushed = Popped + i
        BY <1>5, <1>6, <2>2, <4>1
      <4>3. ~(pushed <= Visible)
        BY <1>4, <4>1
      <4> QED BY <4>2, <4>3
    <3>3. (pushed <= Visible) = FALSE
      BY <3>2
    <3> QED BY <3>1, <3>2, <3>3
  <2>3. CASE i \in 1 .. Len(slots)
    BY <1>0, <2>1, <2>3 DEF SlotsInOrder
  <2> QED BY <1>5, <2>1, <2>2, <2>3
<1> QED
  BY <1>9, <1>10, <1>11, <1>12, <1>13, <1>14, <1>15 DEF RingInv

\* What pop has left is among what it can see.
LEMMA PoppedIsVisible ==
    ASSUME RingAssumption, RingInv
    PROVE  Popped \in Nat /\ Visible \in Int /\ Popped <= Visible
<1>0. /\ TypeOK /\ RingInOrder /\ BlocksInOrder /\ SlotsInOrder /\ blkTail \in Ring
  BY DEF RingInv, Linked
<1>1. Len(slots) \in Nat /\ pushed \in Nat
  BY <1>0 DEF TypeOK, RingAssumption
<1>2. Popped \in Nat /\ Visible \in Int
  BY <1>0, <1>1 DEF SlotsInOrder, Popped, LastClaimed, Visible
<1>3. CASE Live(blkTail)
  <2>1. /\ First(blkTail) \in Nat /\ Popped < First(blkTail)
        /\ First(blkTail) + Held(blkTail) - 1 <= Visible
    BY <1>0, <1>3 DEF BlocksInOrder
  <2>2. Held(blkTail) \in Nat /\ Held(blkTail) > 0
    BY <1>0, <1>3, LiveBlock
  <2> QED BY <1>2, <2>1, <2>2
<1>4. CASE ~Live(blkTail)
  BY <1>0, <1>2, <1>4 DEF RingInOrder
<1> QED BY <1>2, <1>3, <1>4

\* The store that shows an element fills the last slot.
LEMMA LastFilled ==
    ASSUME RingAssumption, RingInv, ppc \in Unseen, LastReady,
           Visible' = pushed, Popped' = Popped
    PROVE  /\ SlotsInOrder' /\ slots' \in Seq([val : Values, ready : BOOLEAN])
           /\ Visible = pushed - 1 /\ Len(slots') = Len(slots)
           /\ Len(slots) \in DOMAIN slots /\ ~slots[Len(slots)].ready
<1>0. TypeOK /\ SlotsInOrder
  BY DEF RingInv
<1>1. /\ slots \in Seq([val : Values, ready : BOOLEAN]) /\ Len(slots) \in Nat
      /\ DOMAIN slots = 1 .. Len(slots) /\ pushed \in Nat
  BY <1>0 DEF TypeOK, RingAssumption
<1>2. Visible = pushed - 1 /\ Popped = pushed - Len(slots)
  BY DEF Visible, Popped, LastClaimed, Unseen
<1>3. Popped <= Visible /\ Popped \in Nat
  BY PoppedIsVisible
<1>4. Len(slots) \in DOMAIN slots
  BY <1>1, <1>2, <1>3
<1>5. \A i \in DOMAIN slots : slots[i] \in [val : Values, ready : BOOLEAN]
  BY <1>1, ElementOfSeq
<1> DEFINE last == [slots[Len(slots)] EXCEPT !.ready = TRUE]
<1>6. /\ DOMAIN slots' = DOMAIN slots /\ slots' = [slots EXCEPT ![Len(slots)] = last]
      /\ last.val = slots[Len(slots)].val /\ last.ready = TRUE
      /\ last \in [val : Values, ready : BOOLEAN]
  <2>1. slots[Len(slots)] \in [val : Values, ready : BOOLEAN]
    BY <1>4, <1>5
  <2> QED BY <2>1 DEF LastReady
<1> HIDE DEF last
<1>7. slots' \in Seq([val : Values, ready : BOOLEAN]) /\ Len(slots') = Len(slots)
  BY <1>1, <1>4, <1>6, ExceptSeq
<1>8. /\ slots[Len(slots)].val = pushed
      /\ slots[Len(slots)].ready = (pushed <= Visible)
  BY <1>0, <1>1, <1>2, <1>4 DEF SlotsInOrder
<1>9. SlotsInOrder'
  <2> SUFFICES ASSUME NEW i \in DOMAIN slots
               PROVE  slots'[i].val = Popped + i /\ slots'[i].ready = (slots'[i].val <= pushed)
    BY <1>0, <1>6 DEF SlotsInOrder
  <2>1. CASE i = Len(slots)
    <3>1. slots'[i].val = pushed /\ slots'[i].ready = TRUE
      BY <1>4, <1>6, <1>8, <2>1
    <3>2. pushed = Popped + i /\ (pushed <= pushed) = TRUE
      BY <1>1, <1>2, <2>1
    <3> QED BY <3>1, <3>2
  <2>2. CASE i # Len(slots)
    <3>1. slots'[i] = slots[i] /\ slots[i].val = Popped + i
          /\ slots[i].ready = (slots[i].val <= Visible)
      BY <1>0, <1>4, <1>6, <2>2 DEF SlotsInOrder
    <3>2. Popped + i <= Visible /\ Popped + i <= pushed
      BY <1>1, <1>2, <2>2
    <3> QED BY <3>1, <3>2
  <2> QED BY <2>1, <2>2
<1>10. ~(pushed <= Visible)
  BY <1>1, <1>2
<1> QED BY <1>2, <1>4, <1>7, <1>8, <1>9, <1>10

\* The tail block goes on by one element.
LEMMA PushTailSame ==
    ASSUME RingAssumption, RingInv, PushTail, ppc = "tail"
    PROVE  RingInv'
<1>0. /\ TypeOK /\ Linked /\ CopiesBehind /\ PopLocals /\ PushLocals /\ SlotsInOrder
      /\ RingInOrder /\ BlocksInOrder
      /\ blkTail \in Ring /\ blkHead \in Ring
  BY DEF RingInv, Linked
<1>1. /\ pblk = blkTail /\ ptail = tail[blkTail] /\ ppc' = "idle"
      /\ tail' = [tail EXCEPT ![blkTail] = Up(tail[blkTail])]
      /\ cacheTail' = cacheTail /\ LastReady
      /\ UNCHANGED <<ring, cpc, cblk, chead, blkHead, head, got, pblk, ptail,
                     cacheHead, data, pushed>>
      /\ data[blkTail][tail[blkTail]] = pushed
      /\ Up(tail[blkTail]) # cacheHead[blkTail]
      /\ blkTail' = blkTail /\ blkHead' = blkHead
  BY <1>0 DEF PushTail, PushLocals, Unseen, ring
<1>2. /\ blkTail \in Blocks /\ head[blkTail] \in Positions /\ tail[blkTail] \in Positions
      /\ cacheHead[blkTail] \in Positions
      /\ Held(blkTail) \in 0 .. BlockSize - 1 /\ BlockSize \in Nat
      /\ Popped \in Nat /\ pushed \in Nat /\ Visible = pushed - 1 /\ Popped <= Visible
  BY <1>0, LiveBlock, PoppedIsVisible DEF TypeOK, RingAssumption, Visible
<1>3. Visible' = pushed /\ Visible = pushed - 1
  BY <1>1 DEF Visible
<1>4. Popped' = Popped
  <2>1. Len(slots') = Len(slots)
    BY <1>0, <1>1 DEF LastReady, TypeOK
  <2> QED BY <1>1, <2>1 DEF Popped, LastClaimed, Unseen
<1>5. SlotsInOrder' /\ slots' \in Seq([val : Values, ready : BOOLEAN])
  BY <1>1, <1>3, <1>4, LastFilled DEF Unseen
<1>6. /\ Held(blkTail)' = Held(blkTail) + 1
      /\ Dist(cacheHead[blkTail], Up(tail[blkTail]))
             = Dist(cacheHead[blkTail], tail[blkTail]) + 1
      /\ Up(tail[blkTail]) # head[blkTail]
      /\ tail'[blkTail] = Up(tail[blkTail])
  <2>1. tail'[blkTail] = Up(tail[blkTail])
    BY <1>0, <1>1, <1>2 DEF TypeOK
  <2>2. Dist(cacheHead[blkTail], tail[blkTail]) \in 0 .. BlockSize - 1
        /\ Dist(cacheHead[blkTail], tail[blkTail]) # BlockSize - 1
        /\ Dist(cacheHead[blkTail], Up(tail[blkTail]))
             = Dist(cacheHead[blkTail], tail[blkTail]) + 1
    BY <1>1, <1>2, DistIs
  <2>3. Held(blkTail) # BlockSize - 1
    BY <1>0, <1>2, <2>2 DEF CopiesBehind
  <2>4. Up(tail[blkTail]) # head[blkTail]
    BY <1>2, <2>3, DistIs DEF Held
  <2>5. Dist(head[blkTail], Up(tail[blkTail])) = Held(blkTail) + 1
    BY <1>2, <2>4, DistIs DEF Held
  <2>6. Held(blkTail)' = Dist(head[blkTail], Up(tail[blkTail]))
    BY <1>1, <2>1 DEF Held, ring
  <2> QED BY <2>1, <2>2, <2>4, <2>5, <2>6
<1>7. /\ \A b \in Ring : Live(b) => Live(b)'
      /\ \A b \in Ring : b # blkTail => (Live(b)' <=> Live(b)) /\ Held(b)' = Held(b)
      /\ \A b \in Ring : First(b)' = First(b)
      /\ Live(blkTail)' /\ (Live(blkTail) <=> head[blkTail] # tail[blkTail])
  <2>1. \A b \in Ring : b # blkTail => tail'[b] = tail[b]
    BY <1>1, LiveBlock
  <2>2. \A b \in Ring : First(b)' = First(b)
    BY <1>1 DEF First
  <2>3. \A b \in Ring : b # blkTail => (Live(b)' <=> Live(b)) /\ Held(b)' = Held(b)
    BY <1>1, <2>1 DEF Live, Held
  <2>4. Live(blkTail)' /\ (Live(blkTail) <=> head[blkTail] # tail[blkTail])
    BY <1>1, <1>6 DEF Live, ring
  <2> QED BY <1>1, <2>2, <2>3, <2>4
\* What the tail block holds now ends with the element that is pushed.
<1>8. /\ First(blkTail) \in Nat /\ Popped < First(blkTail)
      /\ First(blkTail) + Held(blkTail) = pushed
      /\ Live(blkTail) \/ (blkTail = blkHead /\ First(blkTail) = Popped + 1)
  <2>1. CASE Live(blkTail)
    <3>1. First(blkTail) + Held(blkTail) - 1 = Visible
      BY <1>0, <2>1 DEF RingInOrder
    <3>2. First(blkTail) \in Nat /\ Popped < First(blkTail)
      BY <1>0, <2>1 DEF BlocksInOrder
    <3> QED BY <1>2, <2>1, <3>1, <3>2
  <2>2. CASE ~Live(blkTail)
    <3>1. blkTail = blkHead /\ Popped = Visible
      BY <1>0, <2>2 DEF RingInOrder
    <3>2. head[blkTail] = tail[blkTail] /\ First(blkTail) = pushed
      BY <1>1, <1>7, <2>2 DEF First
    <3>3. Held(blkTail) = 0
      BY <1>2, <3>2, DistIs DEF Held
    <3> QED BY <1>2, <3>1, <3>2, <3>3
  <2> QED BY <2>1, <2>2
<1>9. TypeOK'
  <2>1. tail' \in [Blocks -> Positions]
    BY <1>0, <1>1, <1>2, UpIs DEF TypeOK
  <2> QED BY <1>0, <1>1, <1>5, <2>1 DEF TypeOK, ring
<1>10. Linked'
  BY <1>0, <1>1, UnusedBlock, LinkedStays DEF ring, TypeOK
<1>11. BlocksInOrder'
  <2> SUFFICES ASSUME NEW b \in Ring, Live(b)'
               PROVE  /\ First(b)' \in Nat /\ Popped < First(b)'
                      /\ First(b)' + Held(b)' - 1 <= pushed
                      /\ \A j \in 1 .. Held(b)' - 1 :
                            data[b][At(head[b], j)] = First(b)' + j
    BY <1>1, <1>3, <1>4 DEF BlocksInOrder, Ring, ring
  <2>1. CASE b = blkTail
    <3>1. First(b)' + Held(b)' - 1 = pushed
      BY <1>1, <1>2, <1>6, <1>7, <1>8, <2>1
    <3>2. ASSUME NEW j \in 1 .. Held(b)' - 1
          PROVE  data[b][At(head[b], j)] = First(b) + j
      <4>1. j \in 1 .. Held(b)
        BY <1>1, <1>2, <1>6, <2>1, <3>2
      <4>2. CASE j = Held(b)
        <5>1. At(head[b], j) = tail[b]
          BY <1>2, <2>1, <4>2, AtIs DEF Held
        <5> QED BY <1>1, <1>8, <2>1, <4>2, <5>1
      <4>3. CASE j # Held(b)
        <5>1. j \in 1 .. Held(b) - 1 /\ Held(b) # 0
          BY <1>2, <2>1, <4>1, <4>3
        <5>2. Live(b)
          BY <1>2, <1>7, <2>1, <5>1, DistIs DEF Held
        <5> QED BY <1>0, <5>1, <5>2 DEF BlocksInOrder
      <4> QED BY <4>2, <4>3
    <3> QED BY <1>2, <1>7, <1>8, <2>1, <3>1, <3>2
  <2>2. CASE b # blkTail
    <3>1. /\ First(b) \in Nat /\ Popped < First(b) /\ First(b) + Held(b) - 1 <= Visible
          /\ \A j \in 1 .. Held(b) - 1 : data[b][At(head[b], j)] = First(b) + j
      BY <1>0, <1>7, <2>2 DEF BlocksInOrder
    <3>2. Held(b) \in Nat
      BY LiveBlock
    <3> QED BY <1>2, <1>7, <2>2, <3>1, <3>2
  <2> QED BY <2>1, <2>2
<1>12. RingInOrder'
  <2>1. \A b \in Ring \ {blkTail} :
            /\ Live(b)' \/ b = blkHead => Live(next[b])'
            /\ Live(b)' => First(next[b])' = First(b)' + Held(b)'
    <3> SUFFICES ASSUME NEW b \in Ring, b # blkTail
                 PROVE  /\ Live(b)' \/ b = blkHead => Live(next[b])'
                        /\ Live(b)' => First(next[b])' = First(b)' + Held(b)'
      OBVIOUS
    <3>1. next[b] \in Ring /\ next'[b] = next[b]
      BY <1>0, <1>1 DEF Linked, ring
    <3>2. (Live(next[b]) => Live(next[b])') /\ First(next[b])' = First(next[b])
      BY <1>7, <3>1
    <3> QED BY <1>0, <1>7, <3>1, <3>2 DEF RingInOrder
  <2>2. \A b \in Ring : b = blkTail \/ (~Live(b)' /\ b # blkHead) =>
            (Live(next[b])' => next[b] = blkHead)
    <3> SUFFICES ASSUME NEW b \in Ring, b = blkTail \/ (~Live(b)' /\ b # blkHead),
                        Live(next[b])'
                 PROVE  next[b] = blkHead
      OBVIOUS
    <3>1. next[b] \in Ring /\ next'[b] = next[b]
      BY <1>0, <1>1 DEF Linked, ring
    <3>2. b = blkTail \/ (~Live(b) /\ b # blkHead)
      BY <1>7
    <3>3. CASE Live(next[b])
      BY <1>0, <3>2, <3>3 DEF RingInOrder
    <3>4. CASE ~Live(next[b])
      BY <1>7, <1>8, <3>1, <3>4
    <3> QED BY <3>3, <3>4
  <2>3. First(blkTail)' + Held(blkTail)' - 1 = pushed
    BY <1>0, <1>1, <1>2, <1>6, <1>7, <1>8
  <2>4. IF Live(blkHead)' THEN First(blkHead)' = Popped + 1
                          ELSE blkHead # blkTail => First(next[blkHead])' = Popped + 1
    <3>1. next[blkHead] \in Ring /\ next'[blkHead] = next[blkHead]
      BY <1>0, <1>1 DEF Linked, ring
    <3> QED BY <1>0, <1>1, <1>7, <1>8, <3>1 DEF RingInOrder
  <2>5. /\ Ring' = Ring /\ next' = next /\ blkHead' = blkHead /\ blkTail' = blkTail
    BY <1>1 DEF Ring, ring
  <2> QED BY <1>0, <1>3, <1>4, <1>7, <2>1, <2>2, <2>3, <2>4, <2>5 DEF RingInOrder
<1>13. CopiesBehind'
  <2>1. Held(blkTail) + 1 <= Dist(cacheHead[blkTail], Up(tail[blkTail]))
    BY <1>0, <1>2, <1>6, DistIs DEF CopiesBehind
  <2>2. Held(blkHead) <= Held(blkHead)' /\ Held(blkHead) \in Nat /\ Held(blkHead)' \in Nat
    BY <1>0, <1>1, <1>2, <1>6, <1>7, LiveBlock
  <2>3. cpc # "moved" => Dist(head[blkHead], cacheTail[blkHead]) <= Held(blkHead)'
    <3>1. cpc # "moved" => Dist(head[blkHead], cacheTail[blkHead]) <= Held(blkHead)
      BY <1>0 DEF CopiesBehind
    <3>2. Dist(head[blkHead], cacheTail[blkHead]) \in Nat
      BY <1>0, LiveBlock, DistIs DEF TypeOK
    <3> QED BY <2>2, <3>1, <3>2
  <2> QED BY <1>1, <1>6, <2>1, <2>3 DEF CopiesBehind, ring
<1>14. PushLocals' /\ PopLocals'
  BY <1>0, <1>1, <1>7 DEF PushLocals, PopLocals, Entering, Unseen, ring
<1> QED
  BY <1>5, <1>9, <1>10, <1>11, <1>12, <1>13, <1>14 DEF RingInv

\* The element is in another block, which pop does not see yet.
LEMMA PushTailOther ==
    ASSUME RingAssumption, RingInv, PushTail, ppc # "tail"
    PROVE  RingInv'
<1>0. /\ TypeOK /\ Linked /\ CopiesBehind /\ PopLocals /\ PushLocals /\ RingInOrder
      /\ blkTail \in Ring /\ blkHead \in Ring
  BY DEF RingInv, Linked
<1>1. /\ ppc \in {"tail_next", "tail_new"} /\ ppc' = "blk_tail"
      /\ tail' = [tail EXCEPT ![pblk] = Up(ptail)]
      /\ cacheTail' = cacheTail \/ cacheTail' = [cacheTail EXCEPT ![pblk] = 1]
      /\ UNCHANGED <<ring, cpc, cblk, chead, blkHead, head, got, pblk, ptail,
                     cacheHead, data, pushed, slots>>
      /\ blkTail' = blkTail /\ blkHead' = blkHead
  BY DEF PushTail, ring
<1>2. /\ pblk = next[blkTail] /\ pblk # blkHead /\ head[pblk] = tail[pblk]
      /\ ptail = head[pblk] /\ cacheHead[pblk] = ptail /\ data[pblk][ptail] = pushed
      /\ pblk \in Ring /\ pblk \in Blocks /\ ptail \in Positions
  BY <1>0, <1>1 DEF PushLocals, Entering, Unseen, Linked, TypeOK
<1>3. pblk # blkTail
  BY <1>0, <1>2 DEF RingInOrder, Live
<1>4. Visible' = Visible /\ Popped' = Popped
  BY <1>1 DEF Visible, LastClaimed, Popped, Unseen
<1>5. tail'[pblk] = Up(ptail) /\ \A b \in Ring : b # pblk => tail'[b] = tail[b]
  BY <1>0, <1>1, <1>2, LiveBlock DEF TypeOK
<1>6. /\ \A b \in Ring : (Live(b)' <=> Live(b)) /\ (Live(b) => b # pblk)
      /\ \A b \in Ring : First(b)' = First(b) /\ (b # pblk => Held(b)' = Held(b))
  BY <1>1, <1>2, <1>5 DEF Live, First, Held
<1>7. TypeOK'
  <2>1. tail' \in [Blocks -> Positions] /\ cacheTail' \in [Blocks -> Positions]
    <3>1. 1 \in Positions
      BY DEF RingAssumption, Positions
    <3> QED BY <1>0, <1>1, <1>2, <3>1, UpIs DEF TypeOK
  <2> QED BY <1>0, <1>1, <2>1 DEF TypeOK, ring, Entering
<1>8. Linked'
  BY <1>0, <1>1, <1>2, UnusedBlock, LinkedStays DEF ring, TypeOK
<1>9. BlocksInOrder' /\ RingInOrder'
  BY <1>1, <1>4, <1>5, <1>6, Stays DEF ring
<1>10. CopiesBehind'
  <2>1. cacheTail'[blkHead] = cacheTail[blkHead]
    BY <1>0, <1>1, <1>2 DEF TypeOK
  <2> QED BY <1>0, <1>1, <1>2, <1>3, <1>5, <1>6, <2>1 DEF CopiesBehind
<1>11. PushLocals'
  BY <1>0, <1>1, <1>2, <1>5 DEF PushLocals, Entering, Unseen, ring
<1>12. PopLocals'
  <2>1. cacheTail'[blkHead] = cacheTail[blkHead]
    BY <1>0, <1>1, <1>2 DEF TypeOK
  <2> QED BY <1>0, <1>1, <1>6, <2>1 DEF PopLocals
<1>13. SlotsInOrder'
  BY <1>1, <1>4, SlotsStay
<1> QED
  BY <1>7, <1>8, <1>9, <1>10, <1>11, <1>12, <1>13 DEF RingInv

\* With blk_tail_ the other block follows the tail block.
LEMMA PushBlkTailInv ==
    ASSUME RingAssumption, RingInv, PushBlkTail
    PROVE  RingInv'
<1>0. /\ TypeOK /\ Linked /\ CopiesBehind /\ PopLocals /\ PushLocals /\ SlotsInOrder
      /\ RingInOrder /\ BlocksInOrder
      /\ blkTail \in Ring /\ blkHead \in Ring
  BY DEF RingInv, Linked
<1>1. /\ ppc = "blk_tail" /\ ppc' = "idle" /\ blkTail' = pblk /\ LastReady
      /\ UNCHANGED <<consumer, next, blocks, pblk, ptail, tail, cacheHead, data, pushed>>
      /\ blkHead' = blkHead
  BY DEF PushBlkTail, consumer
<1>2. /\ pblk = next[blkTail] /\ pblk # blkHead /\ ptail = head[pblk]
      /\ cacheHead[pblk] = ptail /\ tail[pblk] = Up(ptail) /\ data[pblk][ptail] = pushed
      /\ pblk \in Ring /\ pblk \in Blocks /\ ptail \in Positions /\ BlockSize \in Nat
      /\ Popped \in Nat /\ pushed \in Nat /\ Visible = pushed - 1 /\ Popped <= Visible
      /\ BlockSize > 1
  BY <1>0, <1>1, PoppedIsVisible
    DEF PushLocals, Entering, Unseen, Linked, TypeOK, RingAssumption, Visible
<1>3. /\ Held(pblk) = 1 /\ First(pblk) = pushed /\ head[pblk] # tail[pblk]
      /\ Held(pblk) = Dist(cacheHead[pblk], tail[pblk])
  <2>1. Dist(ptail, ptail) = 0 /\ Up(ptail) # ptail
    BY <1>2, DistIs
  <2>2. Dist(ptail, Up(ptail)) = 1
    BY <1>2, <2>1, DistIs
  <2> QED BY <1>2, <2>1, <2>2 DEF Held, First
<1>4. ~Live(pblk) /\ pblk # blkTail
  BY <1>0, <1>1, <1>2 DEF RingInOrder, Live
<1>5. Visible' = pushed
  BY <1>1 DEF Visible
<1>6. Popped' = Popped
  <2>1. Len(slots') = Len(slots)
    BY <1>0, <1>1 DEF LastReady, TypeOK
  <2> QED BY <1>1, <2>1 DEF Popped, LastClaimed, Unseen
<1>7. SlotsInOrder' /\ slots' \in Seq([val : Values, ready : BOOLEAN])
  BY <1>1, <1>5, <1>6, LastFilled DEF Unseen
<1>8. /\ Ring' = Ring /\ next' = next /\ head' = head /\ tail' = tail
      /\ \A b \in Ring : b # pblk => (Live(b)' <=> Live(b))
      /\ \A b \in Ring : First(b)' = First(b) /\ Held(b)' = Held(b)
      /\ Live(pblk)'
  BY <1>1, <1>3 DEF Live, First, Held, Ring, consumer
<1>9. TypeOK'
  BY <1>0, <1>1, <1>2, <1>7 DEF TypeOK, consumer
<1>10. Linked'
  BY <1>0, <1>1, <1>2, LinkedStays DEF consumer
<1>11. BlocksInOrder'
  <2> SUFFICES ASSUME NEW b \in Ring, Live(b)'
               PROVE  /\ First(b)' \in Nat /\ Popped < First(b)'
                      /\ First(b)' + Held(b)' - 1 <= pushed
                      /\ \A j \in 1 .. Held(b)' - 1 :
                            data[b][At(head[b], j)] = First(b)' + j
    BY <1>1, <1>5, <1>6, <1>8 DEF BlocksInOrder
  <2>1. CASE b = pblk
    BY <1>1, <1>2, <1>3, <1>8, <2>1
  <2>2. CASE b # pblk
    <3>1. /\ First(b) \in Nat /\ Popped < First(b) /\ First(b) + Held(b) - 1 <= Visible
          /\ \A j \in 1 .. Held(b) - 1 : data[b][At(head[b], j)] = First(b) + j
      BY <1>0, <1>8, <2>2 DEF BlocksInOrder
    <3>2. Held(b) \in Nat
      BY LiveBlock
    <3> QED BY <1>2, <1>8, <2>2, <3>1, <3>2
  <2> QED BY <2>1, <2>2
<1>12. RingInOrder'
  <2>0. \A b \in Ring : next[b] \in Ring /\ next'[b] = next[b]
    BY <1>0, <1>1 DEF Linked
  <2>1. \A b \in Ring \ {pblk} :
            /\ Live(b)' \/ b = blkHead => Live(next[b])'
            /\ Live(b)' => First(next[b])' = First(b)' + Held(b)'
    <3> SUFFICES ASSUME NEW b \in Ring, b # pblk
                 PROVE  /\ Live(b)' \/ b = blkHead => Live(next[b])'
                        /\ Live(b)' => First(next[b])' = First(b)' + Held(b)'
      OBVIOUS
    <3>1. next[b] \in Ring /\ next'[b] = next[b]
      BY <2>0
    <3>2. CASE b = blkTail
      <4>1. next[b] = pblk /\ Live(next[b])' /\ First(next[b])' = pushed
        BY <1>1, <1>2, <1>3, <1>8, <3>1, <3>2
      <4>2. Live(b) => First(b) + Held(b) - 1 = Visible
        BY <1>0, <3>2 DEF RingInOrder
      <4>3. Live(b) => First(b) \in Nat
        BY <1>0, <3>2 DEF BlocksInOrder
      <4>4. Held(b) \in Nat
        BY LiveBlock
      <4>5. Live(b) => pushed = First(b) + Held(b)
        BY <1>2, <4>2, <4>3, <4>4
      <4> QED BY <1>8, <3>1, <4>1, <4>5
    <3>3. CASE b # blkTail
      <4>1. /\ Live(b) \/ b = blkHead => Live(next[b])
            /\ Live(b) => First(next[b]) = First(b) + Held(b)
        BY <1>0, <3>3 DEF RingInOrder
      <4>2. Live(next[b]) => Live(next[b])'
        BY <1>4, <1>8, <3>1
      <4>3. First(next[b])' = First(next[b])
        BY <1>8, <3>1
      <4> QED BY <1>8, <4>1, <4>2, <4>3
    <3> QED BY <3>2, <3>3
  <2>2. \A b \in Ring : b = pblk \/ (~Live(b)' /\ b # blkHead) =>
            (Live(next[b])' => next[b] = blkHead)
    <3> SUFFICES ASSUME NEW b \in Ring, b = pblk \/ (~Live(b)' /\ b # blkHead),
                        Live(next[b])'
                 PROVE  next[b] = blkHead
      OBVIOUS
    <3>1. next[b] \in Ring /\ next'[b] = next[b]
      BY <2>0
    <3>2. ~Live(b) /\ b # blkHead
      BY <1>2, <1>4, <1>8
    <3>3. b # blkTail
      BY <1>0, <3>2 DEF RingInOrder
    <3>4. next[b] # pblk
      BY <1>0, <1>2, <3>3 DEF Linked
    <3>5. Live(next[b])
      BY <1>8, <3>1, <3>4
    <3> QED BY <1>0, <3>2, <3>5 DEF RingInOrder
  <2>3. First(pblk)' + Held(pblk)' - 1 = pushed
    BY <1>1, <1>2, <1>3, <1>8
  <2>4. IF Live(blkHead)' THEN First(blkHead)' = Popped + 1
                          ELSE blkHead # pblk => First(next[blkHead])' = Popped + 1
    <3>1. CASE blkHead = blkTail /\ ~Live(blkHead)
      <4>1. Popped = Visible
        BY <1>0, <3>1 DEF RingInOrder
      <4>2. next[blkHead] = pblk /\ First(next[blkHead])' = pushed
        BY <1>1, <1>2, <1>3, <1>8, <2>0, <3>1
      <4>3. ~Live(blkHead)'
        BY <1>0, <1>1, <1>2, <1>8, <3>1
      <4> QED BY <1>2, <4>1, <4>2, <4>3
    <3>2. CASE ~(blkHead = blkTail /\ ~Live(blkHead))
      <4>1. next[blkHead] \in Ring /\ next'[blkHead] = next[blkHead]
        BY <1>0, <2>0
      <4> QED BY <1>0, <1>1, <1>2, <1>8, <3>2, <4>1 DEF RingInOrder
    <3> QED BY <3>1, <3>2
  <2> QED BY <1>1, <1>5, <1>6, <1>8, <2>1, <2>2, <2>3, <2>4 DEF RingInOrder
<1>13. CopiesBehind'
  BY <1>0, <1>1, <1>2, <1>3, <1>8 DEF CopiesBehind, consumer
<1>14. PushLocals' /\ PopLocals'
  BY <1>0, <1>1, <1>2, <1>4, <1>8 DEF PushLocals, PopLocals, Entering, Unseen, consumer
<1> QED
  BY <1>7, <1>9, <1>10, <1>11, <1>12, <1>13, <1>14 DEF RingInv

-----------------------------------------------------------------------------
(* pop *)

\* A block that the producer is about to enter is not the one that pop is in.
LEMMA HeadIsLive ==
    ASSUME RingAssumption, RingInv
    PROVE  Live(blkHead) <=> head[blkHead] # tail[blkHead]
  BY DEF RingInv, PushLocals, Entering, Live

LEMMA PopInv ==
    ASSUME RingAssumption, RingInv, Pop
    PROVE  RingInv'
<1>0. /\ TypeOK /\ Linked /\ CopiesBehind /\ PopLocals /\ PushLocals
      /\ blkTail \in Ring /\ blkHead \in Ring /\ blkHead \in Blocks
      /\ head[blkHead] \in Positions /\ tail[blkHead] \in Positions
      /\ cacheTail[blkHead] \in Positions
  BY LiveBlock DEF RingInv, Linked, TypeOK
<1>1. /\ cpc = "idle" /\ cblk' = blkHead /\ chead' = head[blkHead]
      /\ \/ cacheTail' = cacheTail
         \/ cacheTail' = [cacheTail EXCEPT ![blkHead] = tail[blkHead]]
      /\ \/ cpc' = "other"
         \/ cpc' = "take" /\ head[blkHead] # cacheTail'[blkHead]
      /\ UNCHANGED <<ring, producer, blkHead, head, got, pushed, slots>>
      /\ UNCHANGED <<next, blkTail, blocks, ppc, pblk, ptail, tail, cacheHead, data>>
  BY DEF Pop, ring, producer
<1>2. Visible' = Visible /\ Popped' = Popped
  BY <1>1 DEF Visible, LastClaimed, Popped
<1>3. /\ \A b \in Ring : Live(b)' <=> Live(b)
      /\ Held(blkTail)' = Held(blkTail) /\ Held(blkHead)' = Held(blkHead)
  BY <1>1 DEF Live, Held
<1>4. /\ Dist(head[blkHead], cacheTail'[blkHead]) <= Held(blkHead)
      /\ Held(blkHead) \in Nat
      /\ cacheTail'[blkHead] \in Positions
  <2>1. cacheTail'[blkHead] \in {cacheTail[blkHead], tail[blkHead]}
    BY <1>0, <1>1 DEF TypeOK
  <2>2. Held(blkHead) \in Nat /\ Held(blkHead) = Dist(head[blkHead], tail[blkHead])
    BY <1>0, LiveBlock DEF Held
  <2> QED BY <1>0, <1>1, <2>1, <2>2 DEF CopiesBehind
<1>5. head[blkHead] # cacheTail'[blkHead] => Live(blkHead)
  BY <1>0, <1>4, DistIs, HeadIsLive DEF Held
<1>6. TypeOK'
  <2>1. cacheTail' \in [Blocks -> Positions]
    BY <1>0, <1>1 DEF TypeOK
  <2> QED BY <1>0, <1>1, <2>1 DEF TypeOK
<1>7. Linked'
  BY <1>0, <1>1, LinkedStays
<1>8. BlocksInOrder' /\ RingInOrder'
  BY <1>1, <1>2, <1>3, Stays
<1>9. CopiesBehind'
  BY <1>0, <1>1, <1>3, <1>4 DEF CopiesBehind
<1>10. PushLocals'
  BY <1>0, <1>1 DEF PushLocals
<1>11. PopLocals'
  BY <1>0, <1>1, <1>3, <1>5 DEF PopLocals
<1>12. SlotsInOrder'
  BY <1>1, <1>2, SlotsStay
<1> QED BY <1>6, <1>7, <1>8, <1>9, <1>10, <1>11, <1>12 DEF RingInv

\* The steps of pop that stay in the block and take nothing.
LEMMA PopLooksInv ==
    ASSUME RingAssumption, RingInv,
           PopOther \/ (PopAgain /\ chead # tail[cblk]) \/ PopMoved \/ PopTake
    PROVE  RingInv'
<1>0. /\ TypeOK /\ Linked /\ CopiesBehind /\ PopLocals /\ PushLocals
      /\ blkTail \in Ring /\ blkHead \in Ring /\ blkHead \in Blocks
      /\ head[blkHead] \in Positions /\ tail[blkHead] \in Positions
  BY LiveBlock DEF RingInv, Linked
<1>1. /\ cblk = blkHead /\ cblk' = cblk
      /\ UNCHANGED <<ring, producer, blkHead, head, pushed, slots>>
      /\ UNCHANGED <<next, blkTail, blocks, ppc, pblk, ptail, tail, cacheHead, data>>
      /\ \/ cacheTail' = cacheTail
         \/ cacheTail' = [cacheTail EXCEPT ![blkHead] = tail[blkHead]]
  BY <1>0 DEF PopOther, PopAgain, PopMoved, PopTake, PopLocals, ring, producer
<1>2. Visible' = Visible /\ Popped' = Popped
  BY <1>1 DEF Visible, LastClaimed, Popped
<1>3. /\ \A b \in Ring : Live(b)' <=> Live(b)
      /\ Held(blkTail)' = Held(blkTail) /\ Held(blkHead)' = Held(blkHead)
      /\ First(blkHead)' = First(blkHead)
  BY <1>1 DEF Live, Held, First
<1>4. /\ Held(blkHead) = Dist(head[blkHead], tail[blkHead]) /\ Held(blkHead) \in Nat
      /\ cacheTail'[blkHead] \in {cacheTail[blkHead], tail[blkHead]}
  BY <1>0, <1>1, LiveBlock DEF Held, TypeOK
<1>5. \/ cpc' \in {"idle", "again"} /\ cacheTail' = cacheTail /\ cpc = "other"
      \/ cpc' = "take" /\ cacheTail'[blkHead] = tail[blkHead]
      \/ cpc = "take" /\ cpc' = "head" /\ cacheTail' = cacheTail
  BY <1>0, <1>1 DEF PopOther, PopAgain, PopMoved, PopTake, TypeOK
<1>6. /\ cpc' # "other" /\ cpc' # "moved"
      /\ cpc' \in {"again", "take", "head"} => chead' = head[blkHead]
      /\ cpc' = "again" => blkHead # blkTail
      /\ cpc' \in {"take", "head"} => Live(blkHead)
      /\ cpc' = "head" => got' = First(blkHead)
      /\ cpc' \in {"take", "head"} => head[blkHead] # cacheTail'[blkHead]
  <2>1. CASE PopOther
    BY <1>0, <1>1, <2>1 DEF PopOther, PopLocals
  <2>2. CASE PopAgain /\ chead # tail[cblk]
    BY <1>0, <1>1, <2>2, HeadIsLive DEF PopAgain, PopLocals, TypeOK
  <2>3. CASE PopMoved
    BY <1>0, <1>1, <2>3, HeadIsLive DEF PopMoved, PopLocals, TypeOK
  <2>4. CASE PopTake
    BY <1>0, <1>1, <2>4 DEF PopTake, PopLocals, First
  <2> QED BY <2>1, <2>2, <2>3, <2>4
<1>7. TypeOK'
  <2>1. cacheTail' \in [Blocks -> Positions]
    BY <1>0, <1>1 DEF TypeOK
  <2>2. cblk' \in Blocks /\ chead' \in Positions
    BY <1>0, <1>1 DEF PopOther, PopAgain, PopMoved, PopTake, TypeOK
  <2> QED BY <1>0, <1>1, <1>5, <2>1, <2>2 DEF TypeOK
<1>8. Linked'
  BY <1>0, <1>1, LinkedStays
<1>9. BlocksInOrder' /\ RingInOrder'
  BY <1>1, <1>2, <1>3, Stays
<1>10. CopiesBehind'
  <2>1. Dist(head[blkHead], cacheTail'[blkHead]) <= Held(blkHead)
    BY <1>0, <1>4, <1>5 DEF CopiesBehind
  <2> QED BY <1>0, <1>1, <1>3, <2>1 DEF CopiesBehind
<1>11. PushLocals'
  BY <1>0, <1>1 DEF PushLocals
<1>12. PopLocals'
  BY <1>0, <1>1, <1>3, <1>6 DEF PopLocals
<1>13. SlotsInOrder'
  BY <1>1, <1>2, SlotsStay
<1> QED BY <1>7, <1>8, <1>9, <1>10, <1>11, <1>12, <1>13 DEF RingInv

\* An empty block is left for the next, which has the oldest element.
LEMMA PopLeaveInv ==
    ASSUME RingAssumption, RingInv, PopAgain, chead = tail[cblk]
    PROVE  RingInv'
<1> DEFINE n == next[blkHead]
<1>0. /\ TypeOK /\ Linked /\ CopiesBehind /\ PopLocals /\ PushLocals
      /\ RingInOrder /\ BlocksInOrder
      /\ blkTail \in Ring /\ blkHead \in Ring
  BY DEF RingInv, Linked
<1>1. /\ cpc = "again" /\ cpc' = "moved" /\ cblk = blkHead /\ cblk' = n /\ blkHead' = n
      /\ chead = head[blkHead] /\ head[blkHead] = tail[blkHead] /\ blkHead # blkTail
      /\ cacheTail' = [cacheTail EXCEPT ![blkHead] = tail[blkHead]]
      /\ UNCHANGED <<ring, producer, chead, head, got, pushed, slots>>
      /\ UNCHANGED <<next, blkTail, blocks, ppc, pblk, ptail, tail, cacheHead, data>>
  BY <1>0 DEF PopAgain, PopLocals, ring, producer
<1>2. ~Live(blkHead) /\ Live(n) /\ First(n) = Popped + 1 /\ n \in Ring /\ n \in Blocks
      /\ Live(blkTail)
  <2>1. n \in Ring
    BY <1>0 DEF Linked
  <2>2. ~Live(blkHead) /\ Live(n) /\ Live(blkTail)
    BY <1>0, <1>1 DEF RingInOrder, Live
  <2>3. First(n) = Popped + 1
    BY <1>0, <1>1, <2>2 DEF RingInOrder
  <2> QED BY <2>1, <2>2, <2>3, LiveBlock
<1>3. Visible' = Visible /\ Popped' = Popped
  BY <1>1 DEF Visible, LastClaimed, Popped
<1>4. /\ Ring' = Ring
      /\ \A b \in Ring : (Live(b)' <=> Live(b)) /\ Held(b)' = Held(b) /\ First(b)' = First(b)
  BY <1>1 DEF Live, Held, First, Ring
<1>5. TypeOK'
  <2>1. cacheTail' \in [Blocks -> Positions]
    BY <1>0, <1>1, LiveBlock DEF TypeOK
  <2> QED BY <1>0, <1>1, <1>2, <2>1 DEF TypeOK
<1>6. Linked'
  BY <1>0, <1>1, <1>2, LinkedStays
<1>7. BlocksInOrder'
  BY <1>0, <1>1, <1>3, <1>4 DEF BlocksInOrder
<1>8. RingInOrder'
  <2>0. \A b \in Ring : /\ next[b] \in Ring /\ next'[b] = next[b]
                        /\ (Live(next[b])' <=> Live(next[b]))
                        /\ First(next[b])' = First(next[b])
    <3> SUFFICES ASSUME NEW b \in Ring
                 PROVE  /\ next[b] \in Ring /\ next'[b] = next[b]
                        /\ (Live(next[b])' <=> Live(next[b]))
                        /\ First(next[b])' = First(next[b])
      OBVIOUS
    <3>1. next[b] \in Ring /\ next'[b] = next[b]
      BY <1>0, <1>1 DEF Linked
    <3> QED BY <1>4, <3>1
  <2>1. \A b \in Ring \ {blkTail} :
            /\ Live(b)' \/ b = n => Live(next[b])'
            /\ Live(b)' => First(next[b])' = First(b)' + Held(b)'
    BY <1>0, <1>2, <1>4, <2>0 DEF RingInOrder
  <2>2. \A b \in Ring : b = blkTail \/ (~Live(b)' /\ b # n) =>
            (Live(next[b])' => next[b] = n)
    BY <1>0, <1>2, <1>4, <2>0 DEF RingInOrder
  <2>3. Live(blkTail)' /\ First(blkTail)' + Held(blkTail)' - 1 = Visible
    BY <1>0, <1>1, <1>2, <1>4 DEF RingInOrder
  <2>4. Live(blkHead)' /\ First(blkHead)' = Popped + 1
    BY <1>1, <1>2, <1>4
  <2> QED BY <1>1, <1>3, <1>4, <2>0, <2>1, <2>2, <2>3, <2>4 DEF RingInOrder
<1>9. CopiesBehind'
  BY <1>0, <1>1, <1>4 DEF CopiesBehind
<1>10. PushLocals'
  <2>1. next[blkTail] # n
    BY <1>0, <1>1 DEF Linked
  <2> QED BY <1>0, <1>1, <2>1 DEF PushLocals
<1>11. PopLocals'
  BY <1>0, <1>1, <1>2, <1>4 DEF PopLocals
<1>12. SlotsInOrder'
  BY <1>1, <1>3, SlotsStay
<1> QED BY <1>5, <1>6, <1>7, <1>8, <1>9, <1>10, <1>11, <1>12 DEF RingInv

\* While pop is in a block with elements, the first of them is the oldest slot.
LEMMA OldestIsHere ==
    ASSUME RingAssumption, RingInv, Live(blkHead)
    PROVE  /\ First(blkHead) = Popped + 1 /\ First(blkHead) <= Visible
           /\ 1 \in DOMAIN slots /\ slots[1].val = First(blkHead) /\ slots[1].ready = TRUE
           /\ slots # <<>> /\ Len(slots) \in Nat /\ Len(slots) > 0
<1>0. /\ TypeOK /\ RingInOrder /\ BlocksInOrder /\ SlotsInOrder /\ blkHead \in Ring
  BY DEF RingInv, Linked
<1>1. First(blkHead) = Popped + 1
  BY <1>0 DEF RingInOrder
<1>2. First(blkHead) \in Nat /\ First(blkHead) + Held(blkHead) - 1 <= Visible
  BY <1>0 DEF BlocksInOrder
<1>3. Held(blkHead) \in Nat /\ Held(blkHead) > 0
  BY <1>0, LiveBlock
<1>4. Popped \in Nat /\ Visible \in Int
  BY PoppedIsVisible
<1>5. First(blkHead) <= Visible
  BY <1>2, <1>3, <1>4
<1>6. Len(slots) \in Nat /\ DOMAIN slots = 1 .. Len(slots) /\ pushed \in Nat
  BY <1>0 DEF TypeOK, RingAssumption
<1>7. Len(slots) > 0
  BY <1>1, <1>4, <1>5, <1>6 DEF Visible, Popped, LastClaimed
<1>8. 1 \in DOMAIN slots /\ slots # <<>>
  BY <1>6, <1>7
<1>9. slots[1].val = Popped + 1 /\ slots[1].ready = (Popped + 1 <= Visible)
  BY <1>0, <1>8 DEF SlotsInOrder
<1> QED BY <1>1, <1>5, <1>6, <1>7, <1>8, <1>9

\* The head of the block goes on: its next element is the oldest now, or it is
\* empty and the block behind it has it.
LEMMA PopHeadInv ==
    ASSUME RingAssumption, RingInv, PopHead
    PROVE  RingInv'
<1>0. /\ TypeOK /\ Linked /\ CopiesBehind /\ PopLocals /\ PushLocals /\ SlotsInOrder
      /\ RingInOrder /\ BlocksInOrder
      /\ blkTail \in Ring /\ blkHead \in Ring
  BY DEF RingInv, Linked
<1>1. /\ cpc = "head" /\ cpc' = "idle" /\ cblk = blkHead /\ chead = head[blkHead]
      /\ head' = [head EXCEPT ![blkHead] = Up(head[blkHead])] /\ slots' = Tail(slots)
      /\ UNCHANGED <<ring, producer, cblk, chead, blkHead, cacheTail, got, pushed>>
      /\ UNCHANGED <<next, blkTail, blocks, ppc, pblk, ptail, tail, cacheHead, data>>
      /\ Live(blkHead) /\ head[blkHead] # cacheTail[blkHead]
  BY <1>0 DEF PopHead, PopLocals, ring, producer
<1>2. /\ blkHead \in Blocks /\ head[blkHead] \in Positions /\ tail[blkHead] \in Positions
      /\ cacheTail[blkHead] \in Positions /\ cacheHead[blkTail] \in Positions
      /\ Held(blkHead) \in 1 .. BlockSize - 1 /\ BlockSize \in Nat
      /\ Popped \in Nat /\ Visible \in Int /\ Popped <= Visible
      /\ tail[blkTail] \in Positions
  BY <1>0, <1>1, LiveBlock, PoppedIsVisible DEF TypeOK, RingAssumption
<1>3. /\ First(blkHead) = Popped + 1 /\ First(blkHead) <= Visible
      /\ Len(slots) \in Nat /\ Len(slots) > 0 /\ slots # <<>>
  BY <1>1, OldestIsHere
<1>4. /\ Len(slots') = Len(slots) - 1
      /\ \A i \in 1 .. Len(slots) - 1 : slots'[i] = slots[i + 1]
      /\ slots' \in Seq([val : Values, ready : BOOLEAN])
  BY <1>0, <1>1, <1>3, HeadTailProperties DEF TypeOK
<1>5. Visible' = Visible /\ Popped' = Popped + 1
  BY <1>0, <1>1, <1>2, <1>3, <1>4 DEF Visible, Popped, LastClaimed, TypeOK, RingAssumption
<1>6. /\ head'[blkHead] = Up(head[blkHead])
      /\ \A b \in Ring : b # blkHead => head'[b] = head[b]
      /\ Up(head[blkHead]) \in Positions
      /\ \A b \in Ring : b \in Blocks
  BY <1>0, <1>1, <1>2, UpIs, LiveBlock DEF TypeOK
<1>7. /\ Held(blkHead)' = Held(blkHead) - 1
      /\ Live(blkHead)' <=> Held(blkHead) > 1
      /\ Held(blkHead) > 1 => First(blkHead)' = First(blkHead) + 1
  <2>1. head[blkHead] # tail[blkHead]
    BY <1>1 DEF Live
  <2>2. Dist(Up(head[blkHead]), tail[blkHead]) = Held(blkHead) - 1
    BY <1>2, <2>1, DistIs DEF Held
  <2>3. Held(blkHead)' = Held(blkHead) - 1
    BY <1>1, <1>6, <2>2 DEF Held
  <2>4. Up(head[blkHead]) # tail[blkHead] <=> Held(blkHead) > 1
    BY <1>2, <1>6, <2>2, DistIs
  <2>5. Live(blkHead)' <=> Up(head[blkHead]) # tail[blkHead]
    BY <1>0, <1>1, <1>6 DEF Live, PushLocals, Entering
  <2>6. ASSUME Held(blkHead) > 1 PROVE First(blkHead)' = First(blkHead) + 1
    <3>1. data[blkHead][At(head[blkHead], 1)] = First(blkHead) + 1
      BY <1>0, <1>1, <1>2, <2>6 DEF BlocksInOrder
    <3>2. 0 \in 0 .. BlockSize - 1 /\ 0 + 1 < BlockSize
      BY <1>2, <2>6
    <3>3. At(Up(head[blkHead]), 0) = Up(head[blkHead])
      BY <1>6, <3>2, AtIs
    <3>4. At(Up(head[blkHead]), 0) = At(head[blkHead], 0 + 1)
      BY <1>2, <3>2, AtIs
    <3> QED BY <1>1, <1>6, <3>1, <3>3, <3>4 DEF First
  <2> QED BY <2>3, <2>4, <2>5, <2>6
<1>8. \A b \in Ring : b # blkHead =>
            (Live(b)' <=> Live(b)) /\ Held(b)' = Held(b) /\ First(b)' = First(b)
  BY <1>1, <1>6 DEF Live, Held, First
\* Every other element that pop can see is younger, and what goes on there
\* does not go on in this block.
<1>9. \A b \in Ring : Live(b) => First(b) \in Nat /\ Popped < First(b)
                                 /\ Held(b) \in Nat /\ Held(b) > 0
  BY <1>0, LiveBlock DEF BlocksInOrder
<1>10. \A b \in Ring : b # blkHead /\ Live(b) => Popped + 1 < First(b)
  <2> SUFFICES ASSUME NEW b \in Ring, b # blkHead, Live(b)
               PROVE  Popped + 1 < First(b)
    OBVIOUS
  <2>1. PICK c \in Ring : next[c] = b
    BY <1>0 DEF Linked
  <2>2. c # blkTail /\ (Live(c) \/ c = blkHead)
    BY <1>0, <2>1 DEF RingInOrder
  <2>3. Live(c) /\ First(b) = First(c) + Held(c)
    BY <1>0, <1>1, <2>1, <2>2 DEF RingInOrder
  <2> QED BY <1>2, <1>9, <2>3
<1>11. \A b \in Ring : b # blkTail /\ Live(b) => next[b] # blkHead
  <2> SUFFICES ASSUME NEW b \in Ring, b # blkTail, Live(b), next[b] = blkHead
               PROVE  FALSE
    OBVIOUS
  <2>1. First(blkHead) = First(b) + Held(b)
    BY <1>0 DEF RingInOrder
  <2> QED BY <1>2, <1>3, <1>9, <2>1
<1>12. TypeOK'
  <2>1. head' \in [Blocks -> Positions]
    BY <1>0, <1>1, <1>2, <1>6 DEF TypeOK
  <2> QED BY <1>0, <1>1, <1>4, <2>1 DEF TypeOK
<1>13. Linked'
  BY <1>0, <1>1, UnusedBlock, LinkedStays DEF TypeOK
<1>14. BlocksInOrder'
  <2> SUFFICES ASSUME NEW b \in Ring, Live(b)'
               PROVE  /\ First(b)' \in Nat /\ Popped + 1 < First(b)'
                      /\ First(b)' + Held(b)' - 1 <= Visible
                      /\ \A j \in 1 .. Held(b)' - 1 :
                            data[b][At(head'[b], j)] = First(b)' + j
    BY <1>1, <1>5 DEF BlocksInOrder, Ring
  <2>0. Live(b)
    BY <1>1, <1>8
  <2>1. /\ First(b) \in Nat /\ First(b) + Held(b) - 1 <= Visible
        /\ \A j \in 1 .. Held(b) - 1 : data[b][At(head[b], j)] = First(b) + j
    BY <1>0, <2>0 DEF BlocksInOrder
  <2>2. CASE b = blkHead
    <3>1. /\ Held(b) > 1 /\ First(b)' = First(b) + 1 /\ Held(b)' = Held(b) - 1
          /\ head'[b] = Up(head[b])
      BY <1>1, <1>6, <1>7, <2>2
    <3>2. ASSUME NEW j \in 1 .. Held(b)' - 1
          PROVE  data[b][At(head'[b], j)] = First(b)' + j
      <4>1. j \in 0 .. BlockSize - 1 /\ j + 1 < BlockSize /\ j + 1 \in 1 .. Held(b) - 1
        BY <1>2, <2>2, <3>1, <3>2
      <4>2. At(Up(head[b]), j) = At(head[b], j + 1)
        BY <1>2, <2>2, <4>1, AtIs
      <4>3. data[b][At(head[b], j + 1)] = First(b) + (j + 1)
        BY <2>1, <4>1
      <4> QED BY <2>1, <3>1, <4>1, <4>2, <4>3
    <3> QED BY <1>2, <1>3, <2>1, <2>2, <3>1, <3>2
  <2>3. CASE b # blkHead
    BY <1>6, <1>8, <1>10, <2>0, <2>1, <2>3
  <2> QED BY <2>2, <2>3
<1>15. RingInOrder'
  <2>0. \A b \in Ring : next[b] \in Ring /\ next'[b] = next[b]
    BY <1>0, <1>1 DEF Linked
  <2>1. \A b \in Ring \ {blkTail} :
            /\ Live(b)' \/ b = blkHead => Live(next[b])'
            /\ Live(b)' => First(next[b])' = First(b)' + Held(b)'
    <3> SUFFICES ASSUME NEW b \in Ring, b # blkTail, Live(b)' \/ b = blkHead
                 PROVE  /\ Live(next[b])'
                        /\ Live(b)' => First(next[b])' = First(b)' + Held(b)'
      OBVIOUS
    <3>1. next[b] \in Ring /\ next'[b] = next[b]
      BY <2>0
    <3>2. Live(b)
      BY <1>1, <1>8
    <3>3. next[b] # blkHead /\ Live(next[b]) /\ First(next[b]) = First(b) + Held(b)
      BY <1>0, <1>11, <3>2 DEF RingInOrder
    <3>4. Live(next[b])' /\ First(next[b])' = First(next[b])
      BY <1>8, <3>1, <3>3
    <3>5. ASSUME Live(b)' PROVE First(b)' + Held(b)' = First(b) + Held(b)
      <4>1. CASE b = blkHead
        BY <1>1, <1>2, <1>3, <1>7, <3>5, <4>1
      <4>2. CASE b # blkHead
        BY <1>8, <4>2
      <4> QED BY <4>1, <4>2
    <3> QED BY <3>3, <3>4, <3>5
  <2>2. \A b \in Ring : b = blkTail \/ (~Live(b)' /\ b # blkHead) =>
            (Live(next[b])' => next[b] = blkHead)
    <3> SUFFICES ASSUME NEW b \in Ring, b = blkTail \/ (~Live(b)' /\ b # blkHead),
                        Live(next[b])', next[b] # blkHead
                 PROVE  FALSE
      OBVIOUS
    <3>1. next[b] \in Ring /\ next'[b] = next[b]
      BY <2>0
    <3>2. Live(next[b])
      BY <1>8, <3>1
    <3>3. b = blkTail \/ (~Live(b) /\ b # blkHead)
      BY <1>8
    <3> QED BY <1>0, <3>2, <3>3 DEF RingInOrder
  <2>3. IF Live(blkTail)' THEN First(blkTail)' + Held(blkTail)' - 1 = Visible
                          ELSE blkTail = blkHead /\ Popped + 1 = Visible
    <3>1. CASE blkTail = blkHead
      <4>1. First(blkHead) + Held(blkHead) - 1 = Visible
        BY <1>0, <1>1, <3>1 DEF RingInOrder
      <4>2. CASE Held(blkHead) > 1
        BY <1>1, <1>2, <1>3, <1>7, <3>1, <4>1, <4>2
      <4>3. CASE Held(blkHead) = 1
        BY <1>1, <1>2, <1>3, <1>7, <3>1, <4>1, <4>3
      <4> QED BY <1>2, <4>2, <4>3
    <3>2. CASE blkTail # blkHead
      BY <1>0, <1>1, <1>8, <3>2 DEF RingInOrder
    <3> QED BY <3>1, <3>2
  <2>4. IF Live(blkHead)' THEN First(blkHead)' = Popped + 1 + 1
                          ELSE blkHead # blkTail => First(next[blkHead])' = Popped + 1 + 1
    <3>1. CASE Live(blkHead)'
      BY <1>2, <1>3, <1>7, <3>1
    <3>2. CASE ~Live(blkHead)'
      <4> SUFFICES ASSUME blkHead # blkTail
                   PROVE  First(next[blkHead])' = Popped + 1 + 1
        BY <3>2
      <4>1. next[blkHead] \in Ring /\ next'[blkHead] = next[blkHead]
            /\ next[blkHead] # blkHead
        BY <1>0, <1>1, <1>11, <2>0
      <4>2. First(next[blkHead]) = First(blkHead) + Held(blkHead) /\ Held(blkHead) = 1
        BY <1>0, <1>1, <1>2, <1>7, <3>2 DEF RingInOrder
      <4>3. First(next[blkHead])' = First(next[blkHead])
        BY <1>1, <1>8, <4>1
      <4> QED BY <1>2, <1>3, <4>2, <4>3
    <3> QED BY <3>1, <3>2
  <2>5. Ring' = Ring /\ blkHead' = blkHead /\ blkTail' = blkTail /\ next' = next
    BY <1>1 DEF Ring
  <2> QED BY <1>5, <2>1, <2>2, <2>3, <2>4, <2>5 DEF RingInOrder
<1>16. CopiesBehind'
  <2>1. Held(blkTail)' <= Dist(cacheHead[blkTail], tail[blkTail])
    <3>1. Held(blkTail) <= Dist(cacheHead[blkTail], tail[blkTail])
      BY <1>0 DEF CopiesBehind
    <3>2. CASE blkTail = blkHead
      <4>1. Dist(cacheHead[blkTail], tail[blkTail]) \in Nat
        BY <1>2, DistIs
      <4> QED BY <1>1, <1>2, <1>7, <3>1, <3>2, <4>1
    <3>3. CASE blkTail # blkHead
      BY <1>0, <1>1, <1>8, <3>1, <3>3
    <3> QED BY <3>2, <3>3
  <2>2. Dist(Up(head[blkHead]), cacheTail[blkHead]) <= Held(blkHead) - 1
    <3>1. Dist(head[blkHead], cacheTail[blkHead]) <= Held(blkHead)
      BY <1>0, <1>1 DEF CopiesBehind
    <3>2. /\ Dist(Up(head[blkHead]), cacheTail[blkHead])
                = Dist(head[blkHead], cacheTail[blkHead]) - 1
          /\ Dist(head[blkHead], cacheTail[blkHead]) \in Nat
      <4>1. Dist(head[blkHead], cacheTail[blkHead]) \in 0 .. BlockSize - 1
        BY <1>2, DistIs
      <4>2. Dist(Up(head[blkHead]), cacheTail[blkHead])
                = Dist(head[blkHead], cacheTail[blkHead]) - 1
        BY <1>1, <1>2, DistIs
      <4> QED BY <4>1, <4>2
    <3> QED BY <1>2, <3>1, <3>2
  <2> QED BY <1>1, <1>6, <1>7, <2>1, <2>2 DEF CopiesBehind
<1>17. PushLocals'
  <2>1. ppc \in Entering => head'[pblk] = head[pblk]
    BY <1>0, <1>6 DEF PushLocals, Linked
  <2> QED BY <1>0, <1>1, <2>1 DEF PushLocals
<1>18. PopLocals'
  BY <1>1 DEF PopLocals
<1>19. SlotsInOrder'
  <2> SUFFICES ASSUME NEW i \in DOMAIN slots'
               PROVE  /\ slots'[i].val = Popped + 1 + i
                      /\ slots'[i].ready = (slots'[i].val <= Visible)
    BY <1>2, <1>5 DEF SlotsInOrder
  <2>1. i \in 1 .. Len(slots) - 1 /\ i + 1 \in DOMAIN slots /\ slots'[i] = slots[i + 1]
    BY <1>0, <1>3, <1>4 DEF TypeOK
  <2>2. /\ slots[i + 1].val = Popped + (i + 1)
        /\ slots[i + 1].ready = (slots[i + 1].val <= Visible)
    BY <1>0, <2>1 DEF SlotsInOrder
  <2> QED BY <1>2, <2>1, <2>2
<1> QED
  BY <1>12, <1>13, <1>14, <1>15, <1>16, <1>17, <1>18, <1>19 DEF RingInv

-----------------------------------------------------------------------------
LEMMA NextRingInv ==
    ASSUME RingAssumption, RingInv, [Next]_vars
    PROVE  RingInv'
<1>1. CASE UNCHANGED vars
  <2>0. /\ UNCHANGED <<next, head, cacheTail, tail, cacheHead, data, blkHead, blkTail>>
        /\ UNCHANGED <<blocks, ppc, pblk, ptail, cpc, cblk, chead, got, pushed, slots>>
    BY <1>1 DEF vars
  <2>1. Visible' = Visible /\ Popped' = Popped /\ Ring' = Ring
    BY <2>0 DEF Visible, Popped, LastClaimed, Ring
  <2>2. /\ \A b \in Ring : (Live(b)' <=> Live(b))
        /\ Held(blkTail)' = Held(blkTail) /\ Held(blkHead)' = Held(blkHead)
        /\ First(blkHead)' = First(blkHead)
    BY <2>0 DEF Live, Held, First
  <2>3. TypeOK'
    BY <2>0 DEF RingInv, TypeOK
  <2>4. Linked'
    BY <2>0, LinkedStays DEF RingInv, Linked
  <2>5. BlocksInOrder' /\ RingInOrder'
    BY <2>0, <2>1, <2>2, Stays
  <2>6. CopiesBehind'
    BY <2>0, <2>2 DEF RingInv, CopiesBehind
  <2>7. PushLocals'
    BY <2>0 DEF RingInv, PushLocals
  <2>8. PopLocals'
    BY <2>0, <2>2 DEF RingInv, PopLocals, Linked
  <2>9. SlotsInOrder'
    BY <2>0, <2>1, SlotsStay
  <2> QED BY <2>3, <2>4, <2>5, <2>6, <2>7, <2>8, <2>9 DEF RingInv
<1>2. CASE Next
  <2>1. CASE Push
    BY <2>1, PushInv
  <2>2. CASE PushNext
    BY <2>2, PushNextFree, PushNextNew
  <2>2a. CASE PushFails
    BY <2>2a, PushFailsInv
  <2>3. CASE PushTail
    BY <2>3, PushTailSame, PushTailOther
  <2>4. CASE PushNextHead \/ PushPut \/ PushBlkTail
    BY <2>4, PushNextHeadInv, PushPutInv, PushBlkTailInv
  <2>5. CASE Pop
    BY <2>5, PopInv
  <2>6. CASE PopStep
    BY <2>6, PopLooksInv, PopLeaveInv, PopHeadInv DEF PopStep
  <2> QED BY <1>2, <2>1, <2>2, <2>2a, <2>3, <2>4, <2>5, <2>6 DEF Next, PushStep
<1> QED BY <1>1, <1>2

LEMMA RingTakesOldest ==
    ASSUME RingAssumption, RingInv
    PROVE  TypeOK /\ TakesOldest
<1>1. TypeOK /\ (cpc = "head" => Live(blkHead) /\ got = First(blkHead))
  BY DEF RingInv, PopLocals
<1> QED BY <1>1, OldestIsHere DEF TakesOldest

\* Each step of the ring is a step of the queue of slots, or none.
LEMMA RingStepIsSlotStep ==
    ASSUME RingAssumption, RingInv, [Next]_vars
    PROVE  [Slots!Next]_slots
<1>0. TypeOK /\ PushLocals /\ PopLocals
  BY DEF RingInv
<1>1. CASE PushPut
  <2>1. pushed \in Values
    BY <1>0, <1>1 DEF PushPut, PushLocals, TypeOK, Values, RingAssumption
  <2>2. Slots!Claim(pushed)
    BY <1>1 DEF PushPut, Slots!Claim
  <2> QED BY <2>1, <2>2 DEF Slots!Next
<1>2. CASE ppc \in Unseen /\ LastReady /\ Visible' = pushed /\ Popped' = Popped
  <2>1. Len(slots) \in DOMAIN slots /\ ~slots[Len(slots)].ready
    BY <1>2, LastFilled
  <2>2. Slots!Fill(Len(slots))
    BY <1>2, <2>1 DEF Slots!Fill, LastReady
  <2> QED BY <2>1, <2>2 DEF Slots!Next
<1>3. CASE PushBlkTail \/ (PushTail /\ ppc = "tail")
  <2>1. ppc \in Unseen /\ LastReady /\ ppc' = "idle" /\ pushed' = pushed
    BY <1>3 DEF PushBlkTail, PushTail, Unseen
  <2>2. Len(slots') = Len(slots)
    BY <1>0, <2>1 DEF LastReady, TypeOK
  <2>3. Visible' = pushed /\ Popped' = Popped
    BY <2>1, <2>2 DEF Visible, Popped, LastClaimed
  <2> QED BY <1>2, <2>1, <2>3
<1>4. CASE PopHead
  <2>1. slots # <<>> /\ slots[1].ready
    BY <1>0, <1>4, OldestIsHere DEF PopHead, PopLocals
  <2>2. Slots!Pop
    BY <1>4, <2>1 DEF PopHead, Slots!Pop, Slots!CanPop
  <2> QED BY <2>2 DEF Slots!Next
<1>5. CASE UNCHANGED slots
  BY <1>5
<1>6. CASE \/ Push \/ PushNext \/ PushFails \/ PushNextHead
            \/ (PushTail /\ ppc # "tail") \/ Pop
  BY <1>5, <1>6 DEF Push, PushNext, PushFails, PushNextHead, PushTail, Pop
<1>7. CASE PopOther \/ PopAgain \/ PopMoved \/ PopTake \/ UNCHANGED vars
  BY <1>5, <1>7 DEF PopOther, PopAgain, PopMoved, PopTake, vars
<1> QED BY <1>1, <1>3, <1>4, <1>6, <1>7 DEF Next, PushStep, PopStep

-----------------------------------------------------------------------------
(* The theorems.                                                           *)

\* Whatever the two threads read of each other's positions, the blocks and the
\* copies fit together (freelock_o2o_queue.h: push, pop).
THEOREM RingInvariance ==
    ASSUME RingAssumption
    PROVE  Spec => []RingInv
<1>1. Init => RingInv
  BY InitRingInv
<1>2. RingInv /\ [Next]_vars => RingInv'
  BY NextRingInv
<1> QED BY <1>1, <1>2, PTL DEF Spec

\* pop returns the oldest element, which is there (freelock_o2o_queue.h: pop).
THEOREM OldestTaken ==
    ASSUME RingAssumption
    PROVE  Spec => [](TypeOK /\ TakesOldest)
<1>1. RingInv => TypeOK /\ TakesOldest
  BY RingTakesOldest
<1>2. Spec => []RingInv
  BY RingInvariance
<1> QED BY <1>1, <1>2, PTL

\* The ring of blocks is a queue of slots filled and popped in order
\* (freelock_o2o_queue.h).
THEOREM RefinesSlotQueue ==
    ASSUME RingAssumption
    PROVE  Spec => ImplementsSlotQueue
<1>1. Init => Slots!Init
  BY DEF Init, Slots!Init
<1>2. RingInv /\ [Next]_vars => [Slots!Next]_slots
  BY RingStepIsSlotStep
<1>3. Spec => []RingInv
  BY RingInvariance
<1> QED BY <1>1, <1>2, <1>3, PTL DEF Spec, ImplementsSlotQueue, Slots!Spec
=============================================================================
