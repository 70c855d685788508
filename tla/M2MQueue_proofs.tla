-------------------------- MODULE M2MQueue_proofs --------------------------
(***************************************************************************)
(* Proofs about M2MQueue with one consumer, for any size of a block, any   *)
(* number of blocks, producers and elements: the inductive invariant       *)
(* QueueInv, that a pop returns the element of the slot that was claimed   *)
(* first, and that the ring implements SlotQueue, as long as head_ does    *)
(* not go all round the ring between two steps of a push (HeadsFresh); and *)
(* that it never does with one producer.                                   *)
(***************************************************************************)
EXTENDS M2MQueue, SequenceTheorems, TLAPS

OneConsumer == \A c, d \in Consumers : c = d
OneProducer == \A p, q \in Producers : p = q

-----------------------------------------------------------------------------
\* The nodes of the allocated blocks are nodes.
LEMMA UsedNodes ==
    ASSUME QueueAssumption, TypeOK
    PROVE  /\ Used \subseteq Nodes /\ Null \notin Nodes
           /\ blocks * BlockSize \in Nat
           /\ blocks < MaxBlocks =>
                blocks * BlockSize + BlockSize = (blocks + 1) * BlockSize
                /\ 1 .. (blocks + 1) * BlockSize \subseteq Nodes
<1>1. /\ BlockSize \in Nat /\ BlockSize > 1 /\ MaxBlocks \in Nat /\ blocks \in Nat
      /\ blocks <= MaxBlocks
  BY DEF QueueAssumption, TypeOK
<1>2. ASSUME NEW b \in Nat, b <= MaxBlocks
      PROVE  b * BlockSize \in Nat /\ b * BlockSize <= BlockSize * MaxBlocks
  <2>1. PICK d \in Nat : MaxBlocks = b + d
    <3>1. MaxBlocks - b \in Nat /\ MaxBlocks = b + (MaxBlocks - b)
      BY <1>1, <1>2
    <3> QED BY <3>1
  <2>2. b * BlockSize \in Nat /\ d * BlockSize \in Nat
    BY <1>1
  <2>3. (b + d) * BlockSize = b * BlockSize + d * BlockSize
    BY <1>1
  <2>4. BlockSize * MaxBlocks = MaxBlocks * BlockSize
    BY <1>1
  <2> QED BY <2>1, <2>2, <2>3, <2>4
<1>3. Used \subseteq Nodes /\ Null \notin Nodes
  BY <1>1, <1>2 DEF Used, Nodes, Null
<1>4. ASSUME blocks < MaxBlocks
      PROVE  /\ blocks * BlockSize + BlockSize = (blocks + 1) * BlockSize
             /\ 1 .. (blocks + 1) * BlockSize \subseteq Nodes
  <2>1. blocks + 1 \in Nat /\ blocks + 1 <= MaxBlocks
    BY <1>1, <1>4
  <2>2. (blocks + 1) * BlockSize \in Nat /\ (blocks + 1) * BlockSize <= BlockSize * MaxBlocks
    BY <1>2, <2>1
  <2>3. blocks * BlockSize + BlockSize = (blocks + 1) * BlockSize
    BY <1>1
  <2>4. BlockSize * MaxBlocks \in Nat
    BY <1>1
  <2>5. ASSUME NEW n \in Nat, NEW m \in Nat, n <= m PROVE 1 .. n \subseteq 1 .. m
    BY <2>5
  <2> QED BY <2>2, <2>3, <2>4, <2>5 DEF Nodes
<1> QED BY <1>1, <1>2, <1>3, <1>4

\* What the parts of the invariant say of the claims and of the ring.
LEMMA ClaimFacts ==
    ASSUME QueueAssumption, QueueInv
    PROVE  /\ claims \in Seq([val : Values, node : Nodes, ready : BOOLEAN])
           /\ Len(claims) \in Nat /\ DOMAIN claims = 1 .. Len(claims)
           /\ \A i \in DOMAIN claims :
                /\ claims[i].val \in Values /\ claims[i].node \in Used
                /\ claims[i].ready \in BOOLEAN
                /\ claims[i] = [val |-> claims[i].val, node |-> claims[i].node,
                                ready |-> claims[i].ready]
                /\ claims[i].node # tail /\ claims[i].node # Turn
           /\ \A i, j \in DOMAIN claims : claims[i].node = claims[j].node => i = j
           /\ tail \in Used /\ tail # Turn
           /\ Turn \in Used /\ Turn \in Nodes /\ Turn # Null
           /\ next[Turn] \in Used /\ next[Turn] # Turn
<1>1. /\ claims \in Seq([val : Values, node : Nodes, ready : BOOLEAN])
      /\ RingLinked /\ ClaimsApart
  BY DEF QueueInv, TypeOK
<1>2. Len(claims) \in Nat /\ DOMAIN claims = 1 .. Len(claims)
  BY <1>1, LenProperties
<1>3. \A i \in DOMAIN claims : claims[i] \in [val : Values, node : Nodes, ready : BOOLEAN]
  BY <1>1, <1>2, ElementOfSeq
<1>4. \A i \in DOMAIN claims : i \in 0 .. Len(claims) /\ NodeAt(i) = claims[i].node
  BY <1>2 DEF NodeAt
<1>5. NodeAt(0) = tail /\ 0 \in 0 .. Len(claims) /\ Len(claims) \in 0 .. Len(claims)
  BY <1>2 DEF NodeAt
<1>6. \A i \in DOMAIN claims : i # 0
  BY <1>2
<1>7. \A i \in DOMAIN claims : claims[i].node \in Used /\ claims[i].node # tail
                               /\ claims[i].node # Turn
  BY <1>1, <1>4, <1>5, <1>6 DEF ClaimsApart
<1>8. \A i, j \in DOMAIN claims : claims[i].node = claims[j].node => i = j
  BY <1>1, <1>4 DEF ClaimsApart
<1>9. tail \in Used /\ tail # Turn
  BY <1>1, <1>5 DEF ClaimsApart
<1>10. NodeAt(Len(claims)) \in Used /\ NodeAt(Len(claims)) # Turn
  BY <1>1, <1>5 DEF ClaimsApart
<1>11. Turn \in Used
  BY <1>1, <1>10 DEF RingLinked, Turn
<1>12. next[Turn] \in Used /\ next[Turn] # Turn
  BY <1>1, <1>10, <1>11 DEF RingLinked, Turn
<1>13. Turn \in Nodes /\ Turn # Null
  BY <1>11, UsedNodes DEF QueueInv
<1> QED
  BY <1>1, <1>2, <1>3, <1>7, <1>8, <1>9, <1>11, <1>12, <1>13

LEMMA InitQueueInv ==
    ASSUME QueueAssumption, Init
    PROVE  QueueInv
<1> DEFINE last == BlockSize * InitBlocks
<1>1. /\ BlockSize \in Nat /\ BlockSize > 1 /\ InitBlocks \in Nat /\ InitBlocks > 0
      /\ MaxBlocks \in Nat /\ MaxBlocks >= InitBlocks /\ MaxPush \in Nat
  BY DEF QueueAssumption
<1>2. last \in Nat /\ last > 1 /\ last <= BlockSize * MaxBlocks /\ InitBlocks * BlockSize = last
  <2>1. PICK d \in Nat : MaxBlocks = InitBlocks + d
    <3>1. MaxBlocks - InitBlocks \in Nat /\ MaxBlocks = InitBlocks + (MaxBlocks - InitBlocks)
      BY <1>1
    <3> QED BY <3>1
  <2>2. PICK e \in Nat : InitBlocks = 1 + e
    <3>1. InitBlocks - 1 \in Nat /\ InitBlocks = 1 + (InitBlocks - 1)
      BY <1>1
    <3> QED BY <3>1
  <2>3. BlockSize * (InitBlocks + d) = BlockSize * InitBlocks + BlockSize * d
        /\ BlockSize * d \in Nat /\ BlockSize * InitBlocks \in Nat
        /\ InitBlocks * BlockSize = BlockSize * InitBlocks
    BY <1>1
  <2>4. BlockSize * (1 + e) = BlockSize + BlockSize * e /\ BlockSize * e \in Nat
    BY <1>1
  <2> QED BY <1>1, <2>1, <2>2, <2>3, <2>4
<1>3. /\ head = 1 /\ tail = last /\ blocks = InitBlocks /\ claims = <<>>
      /\ next = [n \in Nodes |-> IF n = last THEN 1 ELSE IF n < last THEN n + 1 ELSE Null]
      /\ ready = [n \in Nodes |-> 0] /\ data = [n \in Nodes |-> NoValue]
      /\ \A p \in Producers : ppc[p] = "idle"
      /\ \A c \in Consumers : cpc[c] = "idle"
  BY DEF Init
<1>4. Used = 1 .. last /\ Nodes = 1 .. BlockSize * MaxBlocks /\ last \in Used /\ 1 \in Used
      /\ Used \subseteq Nodes
  <2>1. Used = 1 .. last
    BY <1>2, <1>3 DEF Used
  <2>2. BlockSize * MaxBlocks \in Nat
    BY <1>1
  <2> HIDE DEF last
  <2> QED BY <1>2, <2>1, <2>2 DEF Nodes
<1> HIDE DEF last
<1>5. \A n \in Used : next[n] = IF n = last THEN 1 ELSE n + 1
  BY <1>2, <1>3, <1>4
<1>6. RingLinked
  BY <1>2, <1>4, <1>5 DEF RingLinked
<1>7. TypeOK
  <2>1. next \in [Nodes -> Nodes \cup {Null}]
    BY <1>1, <1>2, <1>3, <1>4 DEF Nodes
  <2>2. \A n \in 1 .. blocks * BlockSize : next[n] # Null
    BY <1>2, <1>3, <1>4, <1>5 DEF Null
  <2>3. claims \in Seq([val : Values, node : Nodes, ready : BOOLEAN])
    BY <1>3
  <2>4. blocks \in InitBlocks .. MaxBlocks /\ 0 \in 0 .. MaxPush
    BY <1>1, <1>3
  <2>5. head \in Nodes \cup {Null} /\ tail \in Nodes
    BY <1>3, <1>4
  <2>6. /\ ppc \in [Producers -> PPCs] /\ pushes \in [Producers -> 0 .. MaxPush]
        /\ wnode \in [Producers -> Nodes \cup {Null}]
        /\ wnext \in [Producers -> Nodes \cup {Null}]
    BY <2>4 DEF Init, PPCs
  <2>7. /\ cpc \in [Consumers -> CPCs] /\ ctail \in [Consumers -> Nodes \cup {Null}]
        /\ rnode \in [Consumers -> Nodes \cup {Null}]
        /\ got \in [Consumers -> Values \cup {NoValue}]
        /\ want \in [Consumers -> Values \cup {NoValue}]
    BY DEF Init, CPCs
  <2> QED BY <1>3, <2>1, <2>2, <2>3, <2>4, <2>5, <2>6, <2>7 DEF TypeOK
<1>8. Len(claims) = 0 /\ DOMAIN claims = {} /\ Turn = 1 /\ NodeAt(0) = last
  BY <1>3, <1>4, <1>5 DEF Turn, NodeAt
<1>9. ClaimsFollowTail
  BY <1>3, <1>8 DEF ClaimsFollowTail
<1>10. ClaimsApart
  BY <1>2, <1>4, <1>8 DEF ClaimsApart
<1>11. LockerOk
  BY <1>3 DEF LockerOk, Locked, Looking
<1>12. ClaimsOwned
  BY <1>3, <1>8 DEF ClaimsOwned, Filling
<1>13. ReadyHolds
  BY <1>3, <1>8 DEF ReadyHolds
<1>14. ConsumerOk
  BY <1>3 DEF ConsumerOk
<1> QED BY <1>6, <1>7, <1>9, <1>10, <1>11, <1>12, <1>13, <1>14 DEF QueueInv

-----------------------------------------------------------------------------
(* push                                                                    *)

\* A step of a push that changes no node, claim or position of a consumer.
LEMMA NodesStay ==
    ASSUME QueueInv, UNCHANGED <<nodeVars, tail, blocks, consumerVars, claims>>
    PROVE  /\ RingLinked' /\ ClaimsApart' /\ ConsumerOk'
           /\ head' = head => ClaimsFollowTail'
           /\ Turn' = Turn
<1>1. /\ next' = next /\ ready' = ready /\ data' = data /\ tail' = tail /\ blocks' = blocks
      /\ cpc' = cpc /\ ctail' = ctail /\ rnode' = rnode /\ got' = got /\ want' = want
      /\ claims' = claims
  BY DEF nodeVars, consumerVars
<1>2. RingLinked /\ ClaimsApart /\ ConsumerOk /\ ClaimsFollowTail
  BY DEF QueueInv
<1>3. Used' = Used /\ Turn' = Turn /\ \A i \in 0 .. Len(claims) : NodeAt(i)' = NodeAt(i)
  BY <1>1 DEF Used, Turn, NodeAt
<1>4. RingLinked'
  BY <1>1, <1>2, <1>3 DEF RingLinked
<1>5. ClaimsApart'
  BY <1>1, <1>2, <1>3 DEF ClaimsApart, NodeAt
<1>6. ConsumerOk'
  BY <1>1, <1>2 DEF ConsumerOk
<1>7. head' = head => ClaimsFollowTail'
  BY <1>1, <1>2, <1>3 DEF ClaimsFollowTail, NodeAt
<1> QED BY <1>3, <1>4, <1>5, <1>6, <1>7

\* A step of a push before it has a slot, or while it waits for its node, that
\* changes only what that push knows.
LEMMA LocalStep ==
    ASSUME QueueAssumption, QueueInv, NEW p \in Producers, NEW l \in PPCs,
           ppc' = [ppc EXCEPT ![p] = l], l \notin Locked \cup {"idle", "set_ready"},
           UNCHANGED <<nodeVars, head, tail, blocks, consumerVars, claims>>,
           wnode' \in [Producers -> Nodes \cup {Null}],
           wnext' \in [Producers -> Nodes \cup {Null}],
           \A q \in Producers \ {p} : wnode'[q] = wnode[q],
           l \in Looking => wnode'[p] # Null,
           \/ ppc[p] \notin {"idle"} \cup Filling /\ l \notin Filling /\ pushes' = pushes
           \/ ppc[p] \in Filling /\ l \in Filling /\ pushes' = pushes /\ wnode'[p] = wnode[p]
           \/ /\ ppc[p] = "idle" /\ l \notin Filling /\ pushes[p] < MaxPush
              /\ pushes' = [pushes EXCEPT ![p] = @ + 1]
    PROVE  QueueInv'
<1>0. TypeOK /\ LockerOk /\ ClaimsOwned /\ ReadyHolds /\ MaxPush \in Nat
  BY DEF QueueInv, QueueAssumption
<1>1. /\ next' = next /\ ready' = ready /\ data' = data /\ tail' = tail /\ blocks' = blocks
      /\ cpc' = cpc /\ ctail' = ctail /\ rnode' = rnode /\ got' = got /\ want' = want
      /\ claims' = claims /\ head' = head
  BY DEF nodeVars, consumerVars
<1>2. RingLinked' /\ ClaimsApart' /\ ConsumerOk' /\ ClaimsFollowTail' /\ Turn' = Turn
  BY <1>1, NodesStay
<1>3. ppc'[p] = l /\ \A q \in Producers \ {p} : ppc'[q] = ppc[q]
  BY <1>0 DEF TypeOK
<1>4. /\ pushes' \in [Producers -> 0 .. MaxPush]
      /\ \A q \in Producers \ {p} : pushes'[q] = pushes[q]
      /\ \A q \in Producers : pushes[q] \in Nat /\ pushes[q] <= pushes'[q]
      /\ ppc[p] = "idle" => pushes'[p] = pushes[p] + 1
      /\ ppc[p] # "idle" => pushes' = pushes
  <2>1. pushes \in [Producers -> 0 .. MaxPush]
    BY <1>0 DEF TypeOK
  <2>2. CASE pushes' = pushes /\ ppc[p] # "idle"
    BY <1>0, <2>1, <2>2
  <2>3. CASE ppc[p] = "idle" /\ pushes[p] < MaxPush /\ pushes' = [pushes EXCEPT ![p] = @ + 1]
    BY <1>0, <2>1, <2>3
  <2> QED BY <2>2, <2>3 DEF Filling
<1>5. TypeOK'
  BY <1>0, <1>1, <1>4 DEF TypeOK
<1>6. LockerOk'
  BY <1>0, <1>1, <1>2, <1>3 DEF LockerOk
<1>7. ClaimsOwned'
  <2>1. \A i \in DOMAIN claims', q \in Producers, k \in 1 .. MaxPush :
            claims'[i].val = <<q, k>> => k <= pushes'[q]
    BY <1>0, <1>1, <1>4 DEF ClaimsOwned
  <2>2. \A i, j \in DOMAIN claims' : claims'[i].val = claims'[j].val => i = j
    BY <1>0, <1>1 DEF ClaimsOwned
  <2>3. \A q \in Producers : ppc'[q] # "idle" => pushes'[q] > 0
    BY <1>0, <1>3, <1>4 DEF ClaimsOwned
  <2>4. ASSUME NEW q \in Producers, ppc'[q] \notin {"idle"} \cup Filling,
               NEW i \in DOMAIN claims'
        PROVE  claims'[i].val # <<q, pushes'[q]>>
    <3>1. CASE q = p /\ ppc[p] = "idle"
      <4>1. pushes'[p] \in 1 .. MaxPush /\ ~(pushes'[p] <= pushes[p])
        BY <1>4, <3>1
      <4> QED BY <1>0, <1>1, <3>1, <4>1 DEF ClaimsOwned
    <3>2. CASE q # p \/ ppc[p] # "idle"
      <4>1. ppc[q] \notin {"idle"} \cup Filling /\ pushes'[q] = pushes[q]
        BY <1>3, <1>4, <2>4, <3>2
      <4> QED BY <1>0, <1>1, <4>1 DEF ClaimsOwned, Pushing
    <3> QED BY <3>1, <3>2
  <2>5. ASSUME NEW q \in Producers, ppc'[q] \in Filling
        PROVE  \E i \in DOMAIN claims' :
                  /\ claims'[i].val = <<q, pushes'[q]>>
                  /\ claims'[i].node = wnode'[q] /\ ~claims'[i].ready
    <3>1. ppc[q] \in Filling /\ wnode'[q] = wnode[q] /\ pushes'[q] = pushes[q]
      BY <1>3, <1>4, <2>5 DEF Filling
    <3>2. PICK i \in DOMAIN claims : /\ claims[i].val = Pushing(q)
                                     /\ claims[i].node = wnode[q] /\ ~claims[i].ready
      BY <1>0, <3>1 DEF ClaimsOwned
    <3> QED BY <1>1, <3>1, <3>2 DEF Pushing
  <2> QED BY <2>1, <2>2, <2>3, <2>4, <2>5 DEF ClaimsOwned, Pushing
<1>8. ReadyHolds'
  <2>1. \A q \in Producers : ppc'[q] = "set_ready" => data'[wnode'[q]] = <<q, pushes'[q]>>
    BY <1>0, <1>1, <1>3, <1>4 DEF ReadyHolds, Pushing
  <2> QED BY <1>0, <1>1, <2>1 DEF ReadyHolds, Pushing
<1> QED BY <1>2, <1>5, <1>6, <1>7, <1>8 DEF QueueInv

LEMMA PushLooksInv ==
    ASSUME QueueAssumption, QueueInv, NEW p \in Producers,
           Push(p) \/ LoadHead(p) \/ LoadNext(p) \/ TestFull(p) \/ WaitUnready(p)
    PROVE  QueueInv'
<1>0. TypeOK /\ LockerOk
  BY DEF QueueInv
<1>1. CASE Push(p)
  BY <1>0, <1>1, LocalStep DEF Push, PGoto, PPCs, Locked, Looking, Filling, TypeOK
<1>2. CASE LoadHead(p)
  <2>1. /\ wnode' \in [Producers -> Nodes \cup {Null}] /\ wnode'[p] = head
        /\ \A q \in Producers \ {p} : wnode'[q] = wnode[q]
    BY <1>0, <1>2 DEF LoadHead, TypeOK
  <2> QED
    BY <1>0, <1>2, <2>1, LocalStep DEF LoadHead, PGoto, PPCs, Locked, Looking, Filling, TypeOK
<1>3. CASE LoadNext(p)
  <2>1. wnode[p] # Null /\ wnode[p] \in Nodes
    BY <1>0, <1>3 DEF LoadNext, LockerOk, Looking, TypeOK
  <2>2. wnext' \in [Producers -> Nodes \cup {Null}]
    BY <1>0, <1>3, <2>1 DEF LoadNext, TypeOK
  <2> QED
    BY <1>0, <1>3, <2>1, <2>2, LocalStep
       DEF LoadNext, PGoto, PPCs, Locked, Looking, Filling, TypeOK
<1>4. CASE TestFull(p)
  <2>1. wnode[p] # Null
    BY <1>0, <1>4 DEF TestFull, LockerOk, Looking
  <2>2. CASE wnext[p] # tail
    BY <1>0, <1>4, <2>1, <2>2, LocalStep
       DEF TestFull, PGoto, PPCs, Locked, Looking, Filling, TypeOK
  <2>3. CASE wnext[p] = tail
    BY <1>0, <1>4, <2>1, <2>3, LocalStep
       DEF TestFull, PGoto, PPCs, Locked, Looking, Filling, TypeOK
  <2> QED BY <2>2, <2>3
<1>5. CASE WaitUnready(p)
  BY <1>0, <1>5, LocalStep DEF WaitUnready, PGoto, PPCs, Locked, Looking, Filling, TypeOK
<1> QED BY <1>1, <1>2, <1>3, <1>4, <1>5

\* A compare-and-swap of head_ that fails.
LEMMA CasFailsInv ==
    ASSUME QueueAssumption, QueueInv, NEW p \in Producers,
           ppc[p] \in {"cas_head", "lock_head"}, CasFails(p),
           wnext' = [wnext EXCEPT ![p] = Null],
           UNCHANGED <<nodeVars, tail, blocks, pushes, consumerVars>>
    PROVE  QueueInv'
<1>0. TypeOK
  BY DEF QueueInv
<1>1. /\ wnode' \in [Producers -> Nodes \cup {Null}] /\ wnode'[p] = head
      /\ \A q \in Producers \ {p} : wnode'[q] = wnode[q]
      /\ wnext' \in [Producers -> Nodes \cup {Null}]
      /\ head' = head /\ claims' = claims
  BY <1>0 DEF CasFails, TypeOK
<1>2. CASE head = Null
  BY <1>0, <1>1, <1>2, LocalStep
     DEF CasFails, PGoto, PPCs, Locked, Looking, Filling, TypeOK
<1>3. CASE head # Null
  BY <1>0, <1>1, <1>3, LocalStep
     DEF CasFails, PGoto, PPCs, Locked, Looking, Filling, TypeOK
<1> QED BY <1>2, <1>3

\* A push takes the node whose turn it is, and the next one has its turn.
LEMMA ClaimStep ==
    ASSUME QueueAssumption, QueueInv, NEW p \in Producers,
           ppc[p] \in {"cas_head", "unlock_head"}, wnode[p] = Turn,
           head' = next[Turn], next[Turn] # tail,
           \A q \in Producers : ppc[q] \in Locked => q = p,
           Claimed(p, wnode[p]), PGoto(p, "wait_unready"),
           wnext' \in [Producers -> Nodes \cup {Null}],
           UNCHANGED <<nodeVars, tail, blocks, pushes, wnode, consumerVars>>
    PROVE  QueueInv'
<1> DEFINE new == [val |-> Pushing(p), node |-> Turn, ready |-> FALSE]
<1>l. PICK L \in Nat : L = Len(claims)
  BY ClaimFacts
<1>0. /\ TypeOK /\ RingLinked /\ ClaimsFollowTail /\ ClaimsApart /\ LockerOk /\ ClaimsOwned
      /\ ReadyHolds /\ ConsumerOk
  BY DEF QueueInv
<1>1. /\ next' = next /\ ready' = ready /\ data' = data /\ tail' = tail /\ blocks' = blocks
      /\ cpc' = cpc /\ ctail' = ctail /\ rnode' = rnode /\ got' = got /\ want' = want
      /\ pushes' = pushes /\ wnode' = wnode /\ claims' = Append(claims, new)
      /\ ppc' = [ppc EXCEPT ![p] = "wait_unready"]
  BY DEF nodeVars, consumerVars, Claimed, PGoto
<1>2. /\ claims \in Seq([val : Values, node : Nodes, ready : BOOLEAN]) /\ L \in Nat
      /\ DOMAIN claims = 1 .. L /\ Turn \in Used /\ Turn \in Nodes /\ Turn # Null
      /\ tail # Turn /\ next[Turn] \in Used /\ next[Turn] # Turn
      /\ \A i \in DOMAIN claims : claims[i].node # Turn
  BY <1>l, ClaimFacts
<1>3. pushes[p] \in 1 .. MaxPush /\ Pushing(p) \in Values
  <2>1. pushes[p] \in 0 .. MaxPush /\ MaxPush \in Nat /\ pushes[p] > 0
    BY <1>0 DEF ClaimsOwned, TypeOK, QueueAssumption
  <2>2. pushes[p] \in 1 .. MaxPush
    BY <2>1
  <2> QED BY <2>2 DEF Pushing, Values
<1>4. new \in [val : Values, node : Nodes, ready : BOOLEAN]
  BY <1>2, <1>3
<1>5. /\ claims' \in Seq([val : Values, node : Nodes, ready : BOOLEAN]) /\ Len(claims') = L + 1
      /\ DOMAIN claims' = 1 .. L + 1 /\ claims'[L + 1] = new
      /\ \A i \in 1 .. L : claims'[i] = claims[i]
  BY <1>1, <1>2, <1>4, <1>l, AppendProperties, LenProperties
<1>6. /\ new.val = Pushing(p) /\ new.node = Turn /\ new.ready = FALSE
      /\ L = Len(claims) /\ 1 .. L = DOMAIN claims
  BY <1>2, <1>l
<1> HIDE DEF new
<1>7. /\ \A i \in 0 .. L : NodeAt(i)' = NodeAt(i)
      /\ NodeAt(L + 1)' = Turn /\ Turn' = next[Turn] /\ Used' = Used
      /\ 1 .. L + 1 = (1 .. L) \cup {L + 1} /\ 0 .. L + 1 = (0 .. L) \cup {L + 1}
  <2>1. \A i \in 0 .. L : i = 0 \/ i \in 1 .. L
    BY <1>2
  <2>2. \A i \in 0 .. L : NodeAt(i)' = NodeAt(i)
    BY <1>1, <1>5, <2>1 DEF NodeAt
  <2>3. NodeAt(L + 1)' = Turn
    <3>1. L + 1 # 0 /\ claims'[L + 1].node = Turn
      BY <1>2, <1>5, <1>6
    <3> QED BY <3>1 DEF NodeAt
  <2>4. Turn' = next[Turn]
    BY <1>1, <1>2, <1>5, <1>6 DEF Turn, NodeAt
  <2>5. 1 .. L + 1 = (1 .. L) \cup {L + 1} /\ 0 .. L + 1 = (0 .. L) \cup {L + 1}
    BY <1>2
  <2> QED BY <1>1, <2>2, <2>3, <2>4, <2>5 DEF Used
<1>8. ppc'[p] = "wait_unready" /\ \A q \in Producers \ {p} : ppc'[q] = ppc[q]
  BY <1>0, <1>1 DEF TypeOK
<1>9. TypeOK'
  <2>1. head' \in Nodes
    BY <1>0, <1>2, UsedNodes
  <2>2. ppc' \in [Producers -> PPCs]
    BY <1>0, <1>1 DEF TypeOK, PPCs
  <2> QED BY <1>0, <1>1, <1>5, <2>1, <2>2 DEF TypeOK
<1>10. RingLinked'
  BY <1>0, <1>1, <1>7 DEF RingLinked
<1>11. ClaimsFollowTail'
  <2>1. ASSUME NEW i \in 1 .. L PROVE claims'[i].node = next'[NodeAt(i - 1)']
    <3>1. i - 1 \in 0 .. L /\ claims[i].node = next[NodeAt(i - 1)]
      BY <1>0, <1>2 DEF ClaimsFollowTail
    <3> QED BY <1>1, <1>5, <1>7, <3>1
  <2>2. claims'[L + 1].node = next'[NodeAt(L)']
    <3>1. NodeAt(L)' = NodeAt(L) /\ Turn = next[NodeAt(L)]
      BY <1>2, <1>6, <1>7 DEF Turn
    <3> QED BY <1>1, <1>5, <1>6, <3>1
  <2>3. ASSUME NEW i \in DOMAIN claims' PROVE claims'[i].node = next'[NodeAt(i - 1)']
    <3>1. CASE i = L + 1
      <4>1. i - 1 = L
        BY <1>2, <3>1
      <4> QED BY <2>2, <3>1, <4>1
    <3> QED BY <1>5, <1>7, <2>1, <3>1
  <2> QED BY <1>7, <2>3 DEF ClaimsFollowTail
<1>12. ClaimsApart'
  <2>1. \A i \in 0 .. L : NodeAt(i) \in Used /\ NodeAt(i) # Turn
    BY <1>0, <1>l DEF ClaimsApart
  <2>2. \A i, j \in 0 .. L : NodeAt(i) = NodeAt(j) => i = j
    BY <1>0, <1>l DEF ClaimsApart
  <2>3. ASSUME NEW i \in 0 .. L PROVE NodeAt(i) # next[Turn]
    <3>1. CASE i = 0
      BY <3>1 DEF NodeAt
    <3>2. CASE i # 0
      <4>1. i \in DOMAIN claims /\ i - 1 \in 0 .. L /\ NodeAt(i) = claims[i].node
        BY <1>2, <3>2 DEF NodeAt
      <4>2. NodeAt(i) = next[NodeAt(i - 1)]
        BY <1>0, <4>1 DEF ClaimsFollowTail
      <4> QED BY <1>0, <1>2, <2>1, <4>1, <4>2 DEF RingLinked
    <3> QED BY <3>1, <3>2
  <2>4. ASSUME NEW i \in 0 .. L + 1
        PROVE  NodeAt(i)' \in Used /\ NodeAt(i)' # next[Turn]
    BY <1>2, <1>7, <2>1, <2>3
  <2>5. ASSUME NEW i \in 0 .. L + 1, NEW j \in 0 .. L + 1, NodeAt(i)' = NodeAt(j)'
        PROVE  i = j
    <3>1. CASE i \in 0 .. L /\ j \in 0 .. L
      BY <1>7, <2>2, <2>5, <3>1
    <3>2. CASE i = L + 1 /\ j \in 0 .. L
      BY <1>7, <2>1, <2>5, <3>2
    <3>3. CASE j = L + 1 /\ i \in 0 .. L
      BY <1>7, <2>1, <2>5, <3>3
    <3> QED BY <1>7, <3>1, <3>2, <3>3
  <2> QED BY <1>5, <1>7, <2>4, <2>5 DEF ClaimsApart
<1>13. LockerOk'
  BY <1>0, <1>1, <1>8 DEF LockerOk, Locked, Looking
<1>14. ClaimsOwned'
  <2>1. \A i \in DOMAIN claims : claims[i].val # Pushing(p)
    BY <1>0 DEF ClaimsOwned, Filling
  <2>2. ASSUME NEW i \in DOMAIN claims', NEW q \in Producers, NEW k \in 1 .. MaxPush,
               claims'[i].val = <<q, k>>
        PROVE  k <= pushes'[q]
    <3>1. CASE i \in 1 .. L
      <4>1. i \in DOMAIN claims /\ claims[i].val = <<q, k>>
        BY <1>5, <1>6, <2>2, <3>1
      <4>2. k <= pushes[q]
        BY <1>0, <4>1 DEF ClaimsOwned
      <4> QED BY <1>1, <4>2
    <3>2. CASE i = L + 1
      <4>1. q = p /\ k = pushes[p]
        BY <1>5, <1>6, <2>2, <3>2 DEF Pushing
      <4> QED BY <1>1, <1>3, <4>1
    <3> QED BY <1>5, <1>7, <3>1, <3>2
  <2>3. \A i, j \in DOMAIN claims' : claims'[i].val = claims'[j].val => i = j
    BY <1>0, <1>5, <1>6, <1>7, <2>1 DEF ClaimsOwned
  <2>4. \A q \in Producers : ppc'[q] # "idle" => pushes'[q] > 0
    BY <1>0, <1>1, <1>3, <1>8 DEF ClaimsOwned
  <2>5. ASSUME NEW q \in Producers, ppc'[q] \notin {"idle"} \cup Filling, NEW i \in DOMAIN claims'
        PROVE  claims'[i].val # <<q, pushes'[q]>>
    <3>1. q # p /\ ppc[q] \notin {"idle"} \cup Filling
      BY <1>8, <2>5 DEF Filling
    <3>2. CASE i \in 1 .. L
      BY <1>0, <1>1, <1>5, <1>6, <3>1, <3>2 DEF ClaimsOwned, Pushing
    <3>3. CASE i = L + 1
      BY <1>5, <1>6, <3>1, <3>3 DEF Pushing
    <3> QED BY <1>5, <1>7, <3>2, <3>3
  <2>6. ASSUME NEW q \in Producers, ppc'[q] \in Filling
        PROVE  \E i \in DOMAIN claims' :
                  /\ claims'[i].val = <<q, pushes'[q]>>
                  /\ claims'[i].node = wnode'[q] /\ ~claims'[i].ready
    <3>1. CASE q = p
      BY <1>1, <1>5, <1>6, <1>7, <3>1 DEF Pushing
    <3>2. CASE q # p
      <4>1. PICK i \in DOMAIN claims : /\ claims[i].val = Pushing(q)
                                       /\ claims[i].node = wnode[q] /\ ~claims[i].ready
        BY <1>0, <1>8, <2>6, <3>2 DEF ClaimsOwned
      <4> QED BY <1>1, <1>2, <1>5, <1>7, <4>1 DEF Pushing
    <3> QED BY <3>1, <3>2
  <2> QED BY <2>2, <2>3, <2>4, <2>5, <2>6 DEF ClaimsOwned, Pushing
<1>15. ReadyHolds'
  <2>1. ASSUME NEW n \in Nodes, ready'[n] = 1
        PROVE  \/ n = tail' /\ \E c \in Consumers : cpc'[c] \in {"read", "unready"}
               \/ \E i \in DOMAIN claims' : claims'[i].node = n /\ claims'[i].ready
    <3>1. CASE n = tail /\ \E c \in Consumers : cpc[c] \in {"read", "unready"}
      BY <1>1, <3>1
    <3>2. CASE \E i \in DOMAIN claims : claims[i].node = n /\ claims[i].ready
      <4>1. PICK i \in DOMAIN claims : claims[i].node = n /\ claims[i].ready
        BY <3>2
      <4> QED BY <1>2, <1>5, <1>7, <4>1
    <3> QED BY <1>0, <1>1, <2>1, <3>1, <3>2 DEF ReadyHolds
  <2>2. \A i \in DOMAIN claims' : claims'[i].ready =>
            ready'[claims'[i].node] = 1 /\ data'[claims'[i].node] = claims'[i].val
    BY <1>0, <1>1, <1>2, <1>5, <1>6, <1>7 DEF ReadyHolds
  <2>3. \A q \in Producers : ppc'[q] = "set_ready" => data'[wnode'[q]] = <<q, pushes'[q]>>
    BY <1>0, <1>1, <1>8 DEF ReadyHolds, Pushing
  <2> QED BY <2>1, <2>2, <2>3 DEF ReadyHolds, Pushing
<1>16. ConsumerOk'
  BY <1>0, <1>1 DEF ConsumerOk
<1> QED
  BY <1>9, <1>10, <1>11, <1>12, <1>13, <1>14, <1>15, <1>16 DEF QueueInv

LEMMA CasHeadInv ==
    ASSUME QueueAssumption, QueueInv, HeadsFresh, NEW p \in Producers, CasHead(p)
    PROVE  QueueInv'
<1>0. TypeOK /\ LockerOk /\ ClaimsFollowTail
  BY DEF QueueInv
<1>1. CASE CasFails(p)
  BY <1>1, CasFailsInv DEF CasHead
<1>2. CASE head = wnode[p] /\ Claimed(p, wnode[p]) /\ PGoto(p, "wait_unready")
           /\ UNCHANGED wnode /\ \E n \in {wnext[p], next[wnode[p]]} : head' = n
  <2>1. ppc[p] = "cas_head" /\ wnext' = [wnext EXCEPT ![p] = Null]
        /\ UNCHANGED <<nodeVars, tail, blocks, pushes, consumerVars>>
    BY DEF CasHead
  <2>2. wnode[p] # Null
    BY <1>0, <2>1 DEF LockerOk, Looking
  <2>3. wnode[p] = Turn
    BY <1>0, <1>2, <2>2 DEF ClaimsFollowTail
  <2>4. wnext[p] = next[Turn] /\ wnext[p] # tail
    BY <1>2, <2>1, <2>3 DEF HeadsFresh
  <2>5. head' = next[Turn] /\ next[Turn] # tail
    BY <1>2, <2>3, <2>4
  <2>6. \A q \in Producers : ppc[q] \in Locked => q = p
    BY <1>0, <1>2, <2>2 DEF LockerOk
  <2>7. wnext' \in [Producers -> Nodes \cup {Null}]
    BY <1>0, <2>1 DEF TypeOK
  <2> QED BY <1>2, <2>1, <2>3, <2>5, <2>6, <2>7, ClaimStep
<1> QED BY <1>1, <1>2 DEF CasHead

LEMMA UnlockHeadInv ==
    ASSUME QueueAssumption, QueueInv, NEW p \in Producers, UnlockHead(p)
    PROVE  QueueInv'
<1>0. TypeOK /\ LockerOk
  BY DEF QueueInv
<1>1. ppc[p] = "unlock_head" /\ wnode[p] = Turn /\ next[Turn] # tail /\ head' = next[Turn]
      /\ \A q \in Producers : ppc[q] \in Locked => q = p
  BY <1>0 DEF UnlockHead, LockerOk, Locked
<1>2. wnext' \in [Producers -> Nodes \cup {Null}]
  BY <1>0 DEF UnlockHead, TypeOK
<1> QED BY <1>1, <1>2, ClaimStep DEF UnlockHead

\* A step of a push that has no slot before or after it.
LEMMA OwnedStays ==
    ASSUME QueueInv, NEW p \in Producers, NEW l \in PPCs,
           l \notin {"idle"} \cup Filling, ppc[p] \notin {"idle"} \cup Filling,
           ppc' = [ppc EXCEPT ![p] = l],
           UNCHANGED <<ready, data, tail, pushes, wnode, consumerVars, claims>>
    PROVE  ClaimsOwned' /\ ReadyHolds' /\ ppc' \in [Producers -> PPCs]
<1>0. TypeOK /\ ClaimsOwned /\ ReadyHolds
  BY DEF QueueInv
<1>1. /\ cpc' = cpc /\ claims' = claims /\ pushes' = pushes /\ wnode' = wnode
      /\ ready' = ready /\ data' = data /\ tail' = tail
  BY DEF consumerVars
<1>2. ppc'[p] = l /\ \A q \in Producers \ {p} : ppc'[q] = ppc[q]
  BY <1>0 DEF TypeOK
<1>3. ClaimsOwned'
  <2>1. ASSUME NEW q \in Producers, ppc'[q] \in Filling
        PROVE  ppc[q] \in Filling
    BY <1>2, <2>1
  <2>2. ASSUME NEW q \in Producers, ppc'[q] \notin {"idle"} \cup Filling
        PROVE  ppc[q] \notin {"idle"} \cup Filling
    BY <1>2, <2>2
  <2>3. ASSUME NEW q \in Producers, ppc'[q] # "idle"
        PROVE  ppc[q] # "idle"
    BY <1>2, <2>3
  <2>4. ASSUME NEW q \in Producers, ppc'[q] \in Filling
        PROVE  \E i \in DOMAIN claims' :
                  /\ claims'[i].val = <<q, pushes'[q]>>
                  /\ claims'[i].node = wnode'[q] /\ ~claims'[i].ready
    <3>1. PICK i \in DOMAIN claims : /\ claims[i].val = Pushing(q)
                                     /\ claims[i].node = wnode[q] /\ ~claims[i].ready
      BY <1>0, <2>1, <2>4 DEF ClaimsOwned
    <3> QED BY <1>1, <3>1 DEF Pushing
  <2>5. ASSUME NEW q \in Producers, ppc'[q] \notin {"idle"} \cup Filling,
               NEW i \in DOMAIN claims'
        PROVE  claims'[i].val # <<q, pushes'[q]>>
    BY <1>0, <1>1, <2>2, <2>5 DEF ClaimsOwned, Pushing
  <2>6. \A q \in Producers : ppc'[q] # "idle" => pushes'[q] > 0
    BY <1>0, <1>1, <2>3 DEF ClaimsOwned
  <2>7. \A i, j \in DOMAIN claims' : claims'[i].val = claims'[j].val => i = j
    BY <1>0, <1>1 DEF ClaimsOwned
  <2>8. \A i \in DOMAIN claims', q \in Producers, k \in 1 .. MaxPush :
            claims'[i].val = <<q, k>> => k <= pushes'[q]
    BY <1>0, <1>1 DEF ClaimsOwned
  <2> QED BY <2>4, <2>5, <2>6, <2>7, <2>8 DEF ClaimsOwned, Pushing
<1>4. ReadyHolds'
  BY <1>0, <1>1, <1>2 DEF ReadyHolds, Pushing, Filling
<1> QED BY <1>0, <1>3, <1>4 DEF TypeOK

LEMMA LockHeadInv ==
    ASSUME QueueAssumption, QueueInv, NEW p \in Producers, LockHead(p)
    PROVE  QueueInv'
<1>0. TypeOK /\ LockerOk /\ ClaimsFollowTail
  BY DEF QueueInv
<1>1. CASE CasFails(p)
  BY <1>1, CasFailsInv DEF LockHead
<1>2. CASE /\ head = wnode[p] /\ head' = Null /\ PGoto(p, "insert_block")
           /\ UNCHANGED <<wnode, claims>>
  <2>1. /\ ppc[p] = "lock_head" /\ wnext' = [wnext EXCEPT ![p] = Null]
        /\ UNCHANGED <<nodeVars, tail, blocks, pushes, consumerVars>>
    BY DEF LockHead
  <2>2. /\ next' = next /\ ready' = ready /\ data' = data /\ cpc' = cpc /\ ctail' = ctail
        /\ rnode' = rnode /\ got' = got /\ want' = want
    BY <2>1 DEF nodeVars, consumerVars
  <2>3. head # Null /\ wnode[p] = Turn
    BY <1>0, <1>2, <2>1 DEF LockerOk, Looking, ClaimsFollowTail
  <2>4. RingLinked' /\ ClaimsApart' /\ ConsumerOk' /\ Turn' = Turn
    BY <1>2, <2>1, NodesStay
  <2>5. ClaimsOwned' /\ ReadyHolds' /\ ppc' \in [Producers -> PPCs]
    BY <1>2, <2>1, <2>2, OwnedStays DEF PGoto, PPCs, Filling
  <2>6. TypeOK'
    BY <1>0, <1>2, <2>1, <2>2, <2>5 DEF TypeOK
  <2>7. ClaimsFollowTail'
    <3>1. \A i \in DOMAIN claims : claims[i].node = next[NodeAt(i - 1)]
      BY <1>0 DEF ClaimsFollowTail
    <3> QED BY <1>2, <2>1, <2>2, <3>1 DEF ClaimsFollowTail, NodeAt
  <2>8. ppc'[p] = "insert_block" /\ \A q \in Producers \ {p} : ppc'[q] = ppc[q]
    BY <1>0, <1>2 DEF TypeOK, PGoto
  <2>9. \A q \in Producers : ppc[q] \notin Locked
    BY <1>0, <2>3 DEF LockerOk
  <2>10. LockerOk'
    BY <1>0, <1>2, <2>3, <2>4, <2>8, <2>9 DEF LockerOk, Locked, Looking
  <2> QED BY <2>4, <2>5, <2>6, <2>7, <2>10 DEF QueueInv
<1> QED BY <1>1, <1>2 DEF LockHead

LEMMA AllocFailsInv ==
    ASSUME QueueAssumption, QueueInv, NEW p \in Producers, AllocFails(p)
    PROVE  QueueInv'
<1>0. TypeOK /\ LockerOk /\ ClaimsFollowTail
  BY DEF QueueInv
<1>1. /\ ppc[p] = "insert_block" /\ head' = wnode[p] /\ ppc' = [ppc EXCEPT ![p] = "load_next"]
      /\ UNCHANGED <<nodeVars, tail, blocks, pushes, wnode, wnext, consumerVars, claims>>
  BY DEF AllocFails, PGoto
<1>2. /\ next' = next /\ ready' = ready /\ data' = data /\ cpc' = cpc /\ ctail' = ctail
      /\ rnode' = rnode /\ got' = got /\ want' = want
  BY <1>1 DEF nodeVars, consumerVars
<1>3. wnode[p] = Turn /\ Turn # Null /\ Turn \in Nodes
      /\ \A q \in Producers : ppc[q] \in Locked => q = p
  BY <1>0, <1>1, ClaimFacts DEF LockerOk, Locked
<1>4. RingLinked' /\ ClaimsApart' /\ ConsumerOk' /\ Turn' = Turn
  BY <1>1, NodesStay
<1>5. ClaimsOwned' /\ ReadyHolds' /\ ppc' \in [Producers -> PPCs]
  BY <1>1, <1>2, OwnedStays DEF PPCs, Filling
<1>6. TypeOK'
  BY <1>0, <1>1, <1>2, <1>3, <1>5 DEF TypeOK
<1>7. ClaimsFollowTail'
  <2>1. \A i \in DOMAIN claims : claims[i].node = next[NodeAt(i - 1)]
    BY <1>0 DEF ClaimsFollowTail
  <2> QED BY <1>1, <1>2, <1>3, <1>4, <2>1 DEF ClaimsFollowTail, NodeAt
<1>8. ppc'[p] = "load_next" /\ \A q \in Producers \ {p} : ppc'[q] = ppc[q]
  BY <1>0, <1>1 DEF TypeOK
<1>9. LockerOk'
  BY <1>0, <1>1, <1>3, <1>8 DEF LockerOk, Locked, Looking
<1> QED BY <1>4, <1>5, <1>6, <1>7, <1>9 DEF QueueInv

\* The new nodes go between the node whose turn it is and the one after it.
LEMMA InsertBlockInv ==
    ASSUME QueueAssumption, QueueInv, NEW p \in Producers, InsertBlock(p)
    PROVE  QueueInv'
<1>0. /\ TypeOK /\ RingLinked /\ ClaimsFollowTail /\ ClaimsApart /\ LockerOk /\ ConsumerOk
  BY DEF QueueInv
<1>1. /\ ppc[p] = "insert_block" /\ blocks < MaxBlocks /\ blocks' = blocks + 1
      /\ ppc' = [ppc EXCEPT ![p] = "unlock_head"]
      /\ UNCHANGED <<ready, data, head, tail, pushes, wnode, wnext, consumerVars, claims>>
  BY DEF InsertBlock, PGoto
<1>2. /\ cpc' = cpc /\ ctail' = ctail /\ rnode' = rnode /\ got' = got /\ want' = want
  BY <1>1 DEF consumerVars
<1>3. wnode[p] = Turn /\ head = Null /\ \A q \in Producers : ppc[q] \in Locked => q = p
  BY <1>0, <1>1 DEF LockerOk, Locked
<1>4. /\ Turn \in Used /\ Turn \in Nodes /\ next[Turn] \in Used /\ next[Turn] # Turn
      /\ tail \in Used /\ tail # Turn
  BY ClaimFacts
<1>5. PICK f \in Nat, S \in Nat :
        /\ f = blocks * BlockSize /\ S = BlockSize /\ S > 1
        /\ Used = 1 .. f /\ Used' = 1 .. f + S /\ 1 .. f + S \subseteq Nodes
  <2>1. BlockSize \in Nat /\ BlockSize > 1 /\ blocks * BlockSize \in Nat
    BY <1>0, UsedNodes DEF QueueAssumption
  <2>2. /\ blocks * BlockSize + BlockSize = (blocks + 1) * BlockSize
        /\ 1 .. (blocks + 1) * BlockSize \subseteq Nodes
    BY <1>0, <1>1, UsedNodes
  <2>3. Used = 1 .. blocks * BlockSize /\ Used' = 1 .. (blocks + 1) * BlockSize
    BY <1>1 DEF Used
  <2> QED BY <2>1, <2>2, <2>3
<1>6. next' = [n \in Nodes |-> CASE n = Turn -> f + 1
                                 [] n \in f + 1 .. f + S - 1 -> n + 1
                                 [] n = f + S -> next[Turn]
                                 [] OTHER -> next[n]]
  <2>1. \A n \in Nat : f + 1 + n - 2 = f + n - 1
    BY <1>5
  <2> QED BY <1>3, <1>5 DEF InsertBlock
<1>7. /\ next'[Turn] = f + 1
      /\ \A n \in f + 1 .. f + S - 1 : next'[n] = n + 1
      /\ next'[f + S] = next[Turn]
      /\ \A n \in Used \ {Turn} : next'[n] = next[n]
      /\ \A n \in Nodes \ (1 .. f + S) : next'[n] = next[n]
  <2>1. Turn \in 1 .. f
    BY <1>4, <1>5
  <2> QED BY <1>4, <1>5, <1>6, <2>1
<1>8. ClaimsOwned' /\ ReadyHolds' /\ ppc' \in [Producers -> PPCs]
  BY <1>1, OwnedStays DEF PPCs, Filling
<1>9. RingLinked'
  <2>1. \A n \in Used \ {Turn} : n \in 1 .. f /\ next[n] \in 1 .. f
    BY <1>0, <1>5 DEF RingLinked
  <2>2. ASSUME NEW n \in 1 .. f + S PROVE next'[n] \in 1 .. f + S
    <3>1. CASE n \in Used \ {Turn}
      <4>1. next'[n] = next[n] /\ next[n] \in 1 .. f
        BY <1>7, <2>1, <3>1
      <4> QED BY <4>1
    <3>2. CASE n = Turn
      <4>1. next'[n] = f + 1
        BY <1>7, <3>2
      <4> QED BY <1>5, <4>1
    <3>3. CASE n = f + S
      <4>1. next'[n] = next[Turn] /\ next[Turn] \in 1 .. f
        BY <1>4, <1>5, <1>7, <3>3
      <4> QED BY <4>1
    <3>4. CASE n \in f + 1 .. f + S - 1
      <4>1. next'[n] = n + 1
        BY <1>7, <3>4
      <4> QED BY <3>4, <4>1
    <3> QED BY <1>5, <3>1, <3>2, <3>3, <3>4
  <2>3. \A m, n \in Used : next[m] = next[n] => m = n
    BY <1>0 DEF RingLinked
  <2>4. ASSUME NEW m \in 1 .. f + S, NEW n \in 1 .. f + S, next'[m] = next'[n]
        PROVE  m = n
    <3>1. CASE m \in Used \ {Turn}
      <4>1. next'[m] = next[m] /\ next[m] \in 1 .. f /\ next[m] # next[Turn]
        BY <1>4, <1>7, <2>1, <2>3, <3>1
      <4>2. n \in Used \ {Turn}
        <5>1. n # Turn
          <6>1. next'[Turn] = f + 1 /\ ~(f + 1 \in 1 .. f)
            BY <1>5, <1>7
          <6> QED BY <2>4, <4>1, <6>1
        <5>2. n # f + S
          BY <1>7, <2>4, <4>1
        <5>3. n \notin f + 1 .. f + S - 1
          <6>1. n \in f + 1 .. f + S - 1 => next'[n] = n + 1
            BY <1>7
          <6> QED BY <2>4, <4>1, <6>1
        <5> QED BY <1>5, <2>4, <5>1, <5>2, <5>3
      <4> QED BY <1>7, <2>3, <2>4, <3>1, <4>1, <4>2
    <3>2. CASE n \in Used \ {Turn}
      <4>1. next'[n] = next[n] /\ next[n] \in 1 .. f /\ next[n] # next[Turn]
        BY <1>4, <1>7, <2>1, <2>3, <3>2
      <4>2. m \in Used \ {Turn}
        <5>1. m # Turn
          <6>1. next'[Turn] = f + 1 /\ ~(f + 1 \in 1 .. f)
            BY <1>5, <1>7
          <6> QED BY <2>4, <4>1, <6>1
        <5>2. m # f + S
          BY <1>7, <2>4, <4>1
        <5>3. m \notin f + 1 .. f + S - 1
          <6>1. m \in f + 1 .. f + S - 1 => next'[m] = m + 1
            BY <1>7
          <6> QED BY <2>4, <4>1, <6>1
        <5> QED BY <1>5, <2>4, <5>1, <5>2, <5>3
      <4> QED BY <1>7, <2>3, <2>4, <3>2, <4>1, <4>2
    <3>3. CASE m \notin Used \ {Turn} /\ n \notin Used \ {Turn}
      <4>1. m \in {Turn, f + S} \cup (f + 1 .. f + S - 1)
            /\ n \in {Turn, f + S} \cup (f + 1 .. f + S - 1)
        BY <1>5, <3>3
      <4>2. next[Turn] \in 1 .. f
        BY <1>4, <1>5
      <4> QED BY <1>5, <1>7, <2>4, <4>1, <4>2
    <3> QED BY <3>1, <3>2, <3>3
  <2> QED BY <1>5, <2>2, <2>4 DEF RingLinked
<1>10. TypeOK'
  <2>1. next' \in [Nodes -> Nodes \cup {Null}]
    <3>1. \A n \in 1 .. f + S : next'[n] \in Nodes
      BY <1>5, <1>9 DEF RingLinked
    <3>2. \A n \in Nodes \ (1 .. f + S) : next'[n] \in Nodes \cup {Null}
      BY <1>0, <1>7 DEF TypeOK
    <3> QED BY <1>6, <3>1, <3>2
  <2>2. \A n \in Used' : next'[n] # Null
    BY <1>5, <1>9 DEF RingLinked, Null
  <2>3. blocks' \in InitBlocks .. MaxBlocks
    BY <1>0, <1>1 DEF TypeOK, QueueAssumption
  <2> QED BY <1>0, <1>1, <1>2, <1>8, <2>1, <2>2, <2>3 DEF TypeOK, Used
<1>11. /\ \A i \in 0 .. Len(claims) : NodeAt(i)' = NodeAt(i) /\ next'[NodeAt(i)] = next[NodeAt(i)]
       /\ \A i \in 0 .. Len(claims) : NodeAt(i) \in Used /\ NodeAt(i) # Turn
       /\ Turn' = Turn /\ Len(claims) \in Nat
  <2>1. \A i \in 0 .. Len(claims) : NodeAt(i) \in Used /\ NodeAt(i) # Turn
    BY <1>0 DEF ClaimsApart
  <2>2. \A i : NodeAt(i)' = NodeAt(i)
    BY <1>1 DEF NodeAt
  <2>3. Len(claims) \in 0 .. Len(claims) /\ Len(claims)' = Len(claims) /\ Len(claims) \in Nat
    BY <1>1, ClaimFacts
  <2>4. \A i \in 0 .. Len(claims) : next'[NodeAt(i)] = next[NodeAt(i)]
    BY <1>7, <2>1
  <2>5. Turn' = next'[NodeAt(Len(claims))]
    BY <1>1 DEF Turn, NodeAt
  <2>6. Turn = next[NodeAt(Len(claims))]
    BY DEF Turn
  <2> QED BY <2>1, <2>2, <2>3, <2>4, <2>5, <2>6
<1>12. ClaimsFollowTail'
  <2>1. ASSUME NEW i \in DOMAIN claims PROVE claims[i].node = next'[NodeAt(i - 1)]
    <3>1. i - 1 \in 0 .. Len(claims)
      BY ClaimFacts
    <3>2. claims[i].node = next[NodeAt(i - 1)]
      BY <1>0 DEF ClaimsFollowTail
    <3> QED BY <1>11, <3>1, <3>2
  <2> QED BY <1>1, <1>3, <2>1 DEF ClaimsFollowTail, NodeAt
<1>13. ClaimsApart'
  <2>1. Used \subseteq Used'
    BY <1>5
  <2>2. \A i, j \in 0 .. Len(claims) : NodeAt(i) = NodeAt(j) => i = j
    BY <1>0 DEF ClaimsApart
  <2> QED BY <1>1, <1>11, <2>1, <2>2 DEF ClaimsApart
<1>14. LockerOk'
  <2>1. ppc'[p] = "unlock_head" /\ \A q \in Producers \ {p} : ppc'[q] = ppc[q]
    BY <1>0, <1>1 DEF TypeOK
  <2>2. next'[Turn] # tail
    BY <1>4, <1>5, <1>7
  <2> QED BY <1>0, <1>1, <1>3, <1>11, <2>1, <2>2 DEF LockerOk, Locked, Looking
<1>15. ConsumerOk'
  <2>1. next'[tail] = next[tail]
    BY <1>4, <1>7
  <2> QED BY <1>0, <1>1, <1>2, <2>1 DEF ConsumerOk
<1> QED
  BY <1>8, <1>9, <1>10, <1>12, <1>13, <1>14, <1>15 DEF QueueInv

LEMMA FunctionIsSeq ==
    ASSUME NEW S, NEW n \in Nat, NEW s \in [1 .. n -> S]
    PROVE  s \in Seq(S) /\ DOMAIN s = 1 .. n
  BY SeqDef

\* The claim of a push that fills its slot.
LEMMA OwnClaim ==
    ASSUME QueueAssumption, QueueInv, NEW p \in Producers, ppc[p] \in Filling
    PROVE  \E i \in DOMAIN claims :
              /\ claims[i].val = Pushing(p) /\ Pushing(p) \in Values
              /\ claims[i].node = wnode[p] /\ wnode[p] \in Nodes /\ wnode[p] # tail
              /\ ~claims[i].ready
              /\ \A j \in DOMAIN claims : j # i =>
                    claims[j].val # Pushing(p) /\ claims[j].node # wnode[p]
<1>1. PICK i \in DOMAIN claims : /\ claims[i].val = Pushing(p)
                                 /\ claims[i].node = wnode[p] /\ ~claims[i].ready
  BY DEF QueueInv, ClaimsOwned
<1>2. /\ claims[i].val \in Values /\ claims[i].node \in Used /\ claims[i].node # tail
      /\ \A j \in DOMAIN claims : claims[j].node = claims[i].node => j = i
  BY ClaimFacts
<1>3. \A j \in DOMAIN claims : claims[j].val = claims[i].val => j = i
  BY DEF QueueInv, ClaimsOwned
<1>4. claims[i].node \in Nodes
  BY <1>2, UsedNodes DEF QueueInv
<1> QED BY <1>1, <1>2, <1>3, <1>4

LEMMA WriteDataInv ==
    ASSUME QueueAssumption, QueueInv, NEW p \in Producers, WriteData(p)
    PROVE  QueueInv'
<1>0. /\ TypeOK /\ RingLinked /\ ClaimsFollowTail /\ ClaimsApart /\ LockerOk /\ ClaimsOwned
      /\ ReadyHolds /\ ConsumerOk
  BY DEF QueueInv
<1>1. /\ ppc[p] = "write" /\ data' = [data EXCEPT ![wnode[p]] = Pushing(p)]
      /\ ppc' = [ppc EXCEPT ![p] = "set_ready"]
      /\ UNCHANGED <<next, ready, head, tail, blocks, pushes, wnode, wnext, consumerVars, claims>>
  BY DEF WriteData, PGoto
<1>2. /\ cpc' = cpc /\ ctail' = ctail /\ rnode' = rnode /\ got' = got /\ want' = want
  BY <1>1 DEF consumerVars
<1>3. PICK i \in DOMAIN claims :
        /\ claims[i].val = Pushing(p) /\ Pushing(p) \in Values
        /\ claims[i].node = wnode[p] /\ wnode[p] \in Nodes /\ wnode[p] # tail
        /\ ~claims[i].ready
        /\ \A j \in DOMAIN claims : j # i =>
              claims[j].val # Pushing(p) /\ claims[j].node # wnode[p]
  BY <1>1, OwnClaim DEF Filling
<1>4. ppc'[p] = "set_ready" /\ \A q \in Producers \ {p} : ppc'[q] = ppc[q]
  BY <1>0, <1>1 DEF TypeOK
<1>5. data'[wnode[p]] = Pushing(p) /\ \A n \in Nodes \ {wnode[p]} : data'[n] = data[n]
  BY <1>0, <1>1, <1>3 DEF TypeOK
<1>6. TypeOK'
  <2>1. data' \in [Nodes -> Values \cup {NoValue}] /\ ppc' \in [Producers -> PPCs]
    BY <1>0, <1>1, <1>3 DEF TypeOK, PPCs
  <2> QED BY <1>0, <1>1, <1>2, <2>1 DEF TypeOK
<1>7. RingLinked' /\ ClaimsFollowTail' /\ ClaimsApart'
  BY <1>0, <1>1 DEF RingLinked, ClaimsFollowTail, ClaimsApart, Used, Turn, NodeAt
<1>8. LockerOk'
  BY <1>0, <1>1, <1>4 DEF LockerOk, Locked, Looking, Turn, NodeAt
<1>9. ClaimsOwned'
  <2>1. \A q \in Producers : /\ ppc'[q] # "idle" => ppc[q] # "idle"
                             /\ ppc'[q] \notin {"idle"} \cup Filling =>
                                    ppc[q] \notin {"idle"} \cup Filling
                             /\ ppc'[q] \in Filling => ppc[q] \in Filling
    BY <1>1, <1>4 DEF Filling
  <2>2. ASSUME NEW q \in Producers, ppc'[q] \in Filling
        PROVE  \E j \in DOMAIN claims' :
                  /\ claims'[j].val = <<q, pushes'[q]>>
                  /\ claims'[j].node = wnode'[q] /\ ~claims'[j].ready
    BY <1>1, <2>1, <2>2, OwnClaim DEF Pushing
  <2>3. ASSUME NEW q \in Producers, ppc'[q] \notin {"idle"} \cup Filling,
               NEW j \in DOMAIN claims'
        PROVE  claims'[j].val # <<q, pushes'[q]>>
    BY <1>0, <1>1, <2>1, <2>3 DEF ClaimsOwned, Pushing
  <2>4. \A q \in Producers : ppc'[q] # "idle" => pushes'[q] > 0
    BY <1>0, <1>1, <2>1 DEF ClaimsOwned
  <2>5. \A j, k \in DOMAIN claims' : claims'[j].val = claims'[k].val => j = k
    BY <1>0, <1>1 DEF ClaimsOwned
  <2>6. \A j \in DOMAIN claims', q \in Producers, k \in 1 .. MaxPush :
            claims'[j].val = <<q, k>> => k <= pushes'[q]
    BY <1>0, <1>1 DEF ClaimsOwned
  <2> QED BY <2>2, <2>3, <2>4, <2>5, <2>6 DEF ClaimsOwned, Pushing
<1>10. ReadyHolds'
  <2>1. ASSUME NEW j \in DOMAIN claims, claims[j].ready
        PROVE  ready[claims[j].node] = 1 /\ data'[claims[j].node] = claims[j].val
    <3>1. claims[j].node # wnode[p] /\ claims[j].node \in Nodes
      BY <1>0, <1>3, <2>1, ClaimFacts, UsedNodes
    <3> QED BY <1>0, <1>5, <2>1, <3>1 DEF ReadyHolds
  <2>2. ASSUME NEW q \in Producers, ppc'[q] = "set_ready"
        PROVE  data'[wnode[q]] = <<q, pushes[q]>>
    <3>1. CASE q = p
      BY <1>5, <3>1 DEF Pushing
    <3>2. CASE q # p
      <4>1. ppc[q] = "set_ready" /\ Pushing(q) # Pushing(p)
        BY <1>4, <2>2, <3>2 DEF Pushing
      <4>2. wnode[q] \in Nodes /\ wnode[q] # wnode[p]
        BY <1>3, <4>1, OwnClaim DEF Filling
      <4> QED BY <1>0, <1>5, <4>1, <4>2 DEF ReadyHolds, Pushing
    <3> QED BY <3>1, <3>2
  <2> QED BY <1>0, <1>1, <1>2, <2>1, <2>2 DEF ReadyHolds, Pushing
<1>11. ConsumerOk'
  <2>1. data'[tail] = data[tail]
    BY <1>0, <1>3, <1>5 DEF TypeOK
  <2> QED BY <1>0, <1>1, <1>2, <2>1 DEF ConsumerOk
<1> QED
  BY <1>6, <1>7, <1>8, <1>9, <1>10, <1>11 DEF QueueInv

LEMMA SetReadyInv ==
    ASSUME QueueAssumption, QueueInv, NEW p \in Producers, SetReady(p)
    PROVE  QueueInv'
<1>0. /\ TypeOK /\ RingLinked /\ ClaimsFollowTail /\ ClaimsApart /\ LockerOk /\ ClaimsOwned
      /\ ReadyHolds /\ ConsumerOk
  BY DEF QueueInv
<1>1. /\ ppc[p] = "set_ready" /\ ready' = [ready EXCEPT ![wnode[p]] = 1]
      /\ wnode' = [wnode EXCEPT ![p] = Null] /\ ppc' = [ppc EXCEPT ![p] = "idle"]
      /\ claims' = [i \in DOMAIN claims |->
                      IF claims[i].val = Pushing(p)
                      THEN [claims[i] EXCEPT !.ready = TRUE] ELSE claims[i]]
      /\ UNCHANGED <<next, data, head, tail, blocks, pushes, wnext, consumerVars>>
  BY DEF SetReady, PGoto
<1>2. /\ cpc' = cpc /\ ctail' = ctail /\ rnode' = rnode /\ got' = got /\ want' = want
  BY <1>1 DEF consumerVars
<1>3. PICK i \in DOMAIN claims :
        /\ claims[i].val = Pushing(p) /\ Pushing(p) \in Values
        /\ claims[i].node = wnode[p] /\ wnode[p] \in Nodes /\ wnode[p] # tail
        /\ ~claims[i].ready
        /\ \A j \in DOMAIN claims : j # i =>
              claims[j].val # Pushing(p) /\ claims[j].node # wnode[p]
  BY <1>1, OwnClaim DEF Filling
<1>4. PICK L \in Nat : L = Len(claims) /\ DOMAIN claims = 1 .. L
  BY ClaimFacts
<1>5. /\ DOMAIN claims' = 1 .. L /\ Len(claims') = L
      /\ claims' \in Seq([val : Values, node : Nodes, ready : BOOLEAN])
      /\ claims'[i] = [val |-> Pushing(p), node |-> wnode[p], ready |-> TRUE]
      /\ \A j \in DOMAIN claims : j # i => claims'[j] = claims[j]
  <2>1. \A j \in DOMAIN claims : j # i => claims'[j] = claims[j]
    BY <1>1, <1>3
  <2>2. claims[i] = [val |-> claims[i].val, node |-> claims[i].node, ready |-> claims[i].ready]
    BY ClaimFacts
  <2>3. claims'[i] = [claims[i] EXCEPT !.ready = TRUE]
    BY <1>1, <1>3
  <2>4. claims'[i] = [val |-> Pushing(p), node |-> wnode[p], ready |-> TRUE]
    BY <1>3, <2>2, <2>3
  <2>5. \A j \in DOMAIN claims : claims[j] \in [val : Values, node : Nodes, ready : BOOLEAN]
    BY <1>0, <1>4, ElementOfSeq DEF TypeOK
  <2>6. \A j \in 1 .. L : claims'[j] \in [val : Values, node : Nodes, ready : BOOLEAN]
    <3>1. claims'[i] \in [val : Values, node : Nodes, ready : BOOLEAN]
      BY <1>3, <2>4
    <3> QED BY <1>4, <2>1, <2>5, <3>1
  <2>7. claims' = [j \in 1 .. L |-> claims'[j]]
    BY <1>1, <1>4
  <2>8. claims' \in [1 .. L -> [val : Values, node : Nodes, ready : BOOLEAN]]
    BY <2>6, <2>7
  <2>9. /\ claims' \in Seq([val : Values, node : Nodes, ready : BOOLEAN])
        /\ DOMAIN claims' = 1 .. L
    BY <2>8, FunctionIsSeq
  <2>10. Len(claims') = L
    BY <1>4, <2>9, LenProperties
  <2> QED BY <2>1, <2>4, <2>9, <2>10
<1>6. \A j \in 1 .. L : /\ claims'[j].val = claims[j].val /\ claims'[j].node = claims[j].node
                        /\ j # i => claims'[j].ready = claims[j].ready
                        /\ j = i => claims'[j].ready
  BY <1>3, <1>4, <1>5
<1>7. /\ \A j \in 0 .. L : NodeAt(j)' = NodeAt(j)
      /\ Turn' = Turn /\ Used' = Used
  <2>1. \A j \in 0 .. L : j = 0 \/ j \in 1 .. L
    OBVIOUS
  <2>2. \A j \in 0 .. L : NodeAt(j)' = NodeAt(j)
    BY <1>1, <1>6, <2>1 DEF NodeAt
  <2>3. Turn' = next'[NodeAt(L)'] /\ Turn = next[NodeAt(L)] /\ L \in 0 .. L
    BY <1>4, <1>5 DEF Turn, NodeAt
  <2> QED BY <1>1, <2>2, <2>3 DEF Used
<1>8. ppc'[p] = "idle" /\ \A q \in Producers \ {p} : ppc'[q] = ppc[q] /\ wnode'[q] = wnode[q]
  BY <1>0, <1>1 DEF TypeOK
<1>9. ready'[wnode[p]] = 1 /\ \A n \in Nodes \ {wnode[p]} : ready'[n] = ready[n]
  BY <1>0, <1>1, <1>3 DEF TypeOK
<1>10. TypeOK'
  <2>1. /\ ready' \in [Nodes -> {0, 1}] /\ ppc' \in [Producers -> PPCs]
        /\ wnode' \in [Producers -> Nodes \cup {Null}]
    BY <1>0, <1>1, <1>3 DEF TypeOK, PPCs
  <2> QED BY <1>0, <1>1, <1>2, <1>5, <2>1 DEF TypeOK
<1>11. RingLinked'
  BY <1>0, <1>1, <1>7 DEF RingLinked
<1>12. ClaimsFollowTail'
  <2>1. ASSUME NEW j \in 1 .. L PROVE claims'[j].node = next'[NodeAt(j - 1)']
    <3>1. j - 1 \in 0 .. L /\ claims[j].node = next[NodeAt(j - 1)]
      BY <1>0, <1>4 DEF ClaimsFollowTail
    <3> QED BY <1>1, <1>6, <1>7, <3>1
  <2> QED BY <1>0, <1>1, <1>5, <1>7, <2>1 DEF ClaimsFollowTail
<1>13. ClaimsApart'
  BY <1>0, <1>4, <1>5, <1>7 DEF ClaimsApart
<1>14. LockerOk'
  BY <1>0, <1>1, <1>7, <1>8 DEF LockerOk, Locked, Looking
<1>15. ClaimsOwned'
  <2>1. ASSUME NEW q \in Producers, ppc'[q] \in Filling
        PROVE  \E j \in DOMAIN claims' :
                  /\ claims'[j].val = <<q, pushes'[q]>>
                  /\ claims'[j].node = wnode'[q] /\ ~claims'[j].ready
    <3>1. q # p /\ ppc[q] \in Filling /\ Pushing(q) # Pushing(p)
      BY <1>8, <2>1 DEF Filling, Pushing
    <3>2. PICK j \in DOMAIN claims : /\ claims[j].val = Pushing(q)
                                     /\ claims[j].node = wnode[q] /\ ~claims[j].ready
      BY <3>1, OwnClaim
    <3>3. j # i
      BY <1>3, <3>1, <3>2
    <3> QED BY <1>1, <1>4, <1>5, <1>8, <3>1, <3>2, <3>3 DEF Pushing
  <2>2. ASSUME NEW q \in Producers, ppc'[q] \notin {"idle"} \cup Filling,
               NEW j \in DOMAIN claims'
        PROVE  claims'[j].val # <<q, pushes'[q]>>
    <3>1. ppc[q] \notin {"idle"} \cup Filling
      BY <1>8, <2>2
    <3>2. j \in DOMAIN claims /\ claims'[j].val = claims[j].val
      BY <1>4, <1>5, <1>6
    <3> QED BY <1>0, <1>1, <3>1, <3>2 DEF ClaimsOwned, Pushing
  <2>3. \A q \in Producers : ppc'[q] # "idle" => pushes'[q] > 0
    BY <1>0, <1>1, <1>8 DEF ClaimsOwned
  <2>4. \A j, k \in DOMAIN claims' : claims'[j].val = claims'[k].val => j = k
    BY <1>0, <1>4, <1>5, <1>6 DEF ClaimsOwned
  <2>5. \A j \in DOMAIN claims', q \in Producers, k \in 1 .. MaxPush :
            claims'[j].val = <<q, k>> => k <= pushes'[q]
    BY <1>0, <1>1, <1>4, <1>5, <1>6 DEF ClaimsOwned
  <2> QED BY <2>1, <2>2, <2>3, <2>4, <2>5 DEF ClaimsOwned, Pushing
<1>16. ReadyHolds'
  <2>1. ASSUME NEW n \in Nodes, ready'[n] = 1
        PROVE  \/ n = tail /\ \E c \in Consumers : cpc[c] \in {"read", "unready"}
               \/ \E j \in DOMAIN claims' : claims'[j].node = n /\ claims'[j].ready
    <3>1. CASE n = wnode[p]
      BY <1>3, <1>4, <1>5, <1>6, <3>1
    <3>2. CASE n # wnode[p]
      <4>1. ready[n] = 1
        BY <1>9, <2>1, <3>2
      <4>2. CASE \E j \in DOMAIN claims : claims[j].node = n /\ claims[j].ready
        BY <1>4, <1>5, <1>6, <4>2
      <4> QED BY <1>0, <4>1, <4>2 DEF ReadyHolds
    <3> QED BY <3>1, <3>2
  <2>2. ASSUME NEW j \in DOMAIN claims', claims'[j].ready
        PROVE  ready'[claims'[j].node] = 1 /\ data[claims'[j].node] = claims'[j].val
    <3>1. CASE j = i
      BY <1>0, <1>1, <1>3, <1>5, <1>9, <3>1 DEF ReadyHolds
    <3>2. CASE j # i
      <4>1. j \in DOMAIN claims /\ claims[j].ready /\ claims'[j] = claims[j]
            /\ claims[j].node # wnode[p] /\ claims[j].node \in Nodes
        BY <1>0, <1>3, <1>4, <1>5, <2>2, <3>2, ClaimFacts, UsedNodes
      <4> QED BY <1>0, <1>9, <4>1 DEF ReadyHolds
    <3> QED BY <3>1, <3>2
  <2>3. \A q \in Producers : ppc'[q] = "set_ready" => data[wnode'[q]] = <<q, pushes[q]>>
    BY <1>0, <1>8 DEF ReadyHolds, Pushing
  <2> QED BY <1>1, <1>2, <2>1, <2>2, <2>3 DEF ReadyHolds, Pushing
<1>17. ConsumerOk'
  <2>1. ASSUME NEW c \in Consumers, cpc[c] = "cas_tail" PROVE ready'[rnode[c]] = 1
    <3>1. ready[rnode[c]] = 1 /\ rnode[c] = next[tail] /\ tail \in Used
      BY <1>0, <2>1, ClaimFacts DEF ConsumerOk
    <3>2. rnode[c] \in Nodes
      BY <1>0, <3>1, UsedNodes DEF RingLinked
    <3> QED BY <1>9, <3>1, <3>2
  <2> QED BY <1>0, <1>1, <1>2, <2>1 DEF ConsumerOk
<1> QED
  BY <1>10, <1>11, <1>12, <1>13, <1>14, <1>15, <1>16, <1>17 DEF QueueInv

-----------------------------------------------------------------------------
(* pop                                                                     *)

\* A step that changes only what the consumer knows.
LEMMA PopStays ==
    ASSUME QueueInv, TypeOK', ConsumerOk',
           UNCHANGED <<nodeVars, head, tail, blocks, producerVars, claims>>,
           \A c \in Consumers : cpc[c] \in {"read", "unready"} => cpc'[c] \in {"read", "unready"}
    PROVE  QueueInv'
<1>1. /\ next' = next /\ ready' = ready /\ data' = data /\ head' = head /\ tail' = tail
      /\ blocks' = blocks /\ ppc' = ppc /\ pushes' = pushes /\ wnode' = wnode
      /\ wnext' = wnext /\ claims' = claims
  BY DEF nodeVars, producerVars
<1>2. /\ RingLinked /\ ClaimsFollowTail /\ ClaimsApart /\ LockerOk /\ ClaimsOwned /\ ReadyHolds
  BY DEF QueueInv
<1>3. RingLinked' /\ ClaimsFollowTail' /\ ClaimsApart'
  BY <1>1, <1>2 DEF RingLinked, ClaimsFollowTail, ClaimsApart, Used, Turn, NodeAt
<1>4. LockerOk'
  BY <1>1, <1>2 DEF LockerOk, Turn, NodeAt
<1>5. ClaimsOwned'
  BY <1>1, <1>2 DEF ClaimsOwned, Pushing
<1>6. ReadyHolds'
  BY <1>1, <1>2 DEF ReadyHolds, Pushing
<1> QED BY <1>3, <1>4, <1>5, <1>6 DEF QueueInv

LEMMA PopLooksInv ==
    ASSUME QueueAssumption, QueueInv, OneConsumer, NEW c \in Consumers,
           LoadTail(c) \/ LoadReadNode(c) \/ TestReady(c) \/ ReadData(c)
    PROVE  QueueInv'
<1>0. TypeOK /\ ConsumerOk /\ \A d \in Consumers : d = c
  BY DEF QueueInv, OneConsumer
<1>1. UNCHANGED <<nodeVars, head, tail, blocks, producerVars, claims>>
  BY DEF LoadTail, LoadReadNode, TestReady, ReadData
<1>2. /\ next' = next /\ ready' = ready /\ data' = data /\ head' = head /\ tail' = tail
      /\ blocks' = blocks /\ ppc' = ppc /\ pushes' = pushes /\ wnode' = wnode
      /\ wnext' = wnext /\ claims' = claims
  BY <1>1 DEF nodeVars, producerVars
<1>3. CASE LoadTail(c)
  <2>1. TypeOK'
    BY <1>0, <1>2, <1>3 DEF LoadTail, CGoto, TypeOK, CPCs
  <2>2. cpc'[c] = "load_read_node" /\ ctail'[c] = tail
    BY <1>0, <1>3 DEF LoadTail, CGoto, TypeOK
  <2>3. ConsumerOk'
    BY <1>0, <1>2, <2>2 DEF ConsumerOk
  <2> QED BY <1>0, <1>1, <1>3, <2>1, <2>3, PopStays DEF LoadTail
<1>4. CASE LoadReadNode(c)
  <2>1. ctail[c] = tail
    BY <1>0, <1>4 DEF LoadReadNode, ConsumerOk
  <2>2. TypeOK'
    <3>1. rnode' \in [Consumers -> Nodes \cup {Null}] /\ cpc' \in [Consumers -> CPCs]
      BY <1>0, <1>4, <2>1 DEF LoadReadNode, CGoto, TypeOK, CPCs
    <3>2. ctail' = ctail /\ got' = got /\ want' = want
      BY <1>4 DEF LoadReadNode
    <3> QED BY <1>0, <1>2, <3>1, <3>2 DEF TypeOK
  <2>3. cpc'[c] = "test_ready" /\ ctail'[c] = tail /\ rnode'[c] = next[tail]
    BY <1>0, <1>4, <2>1 DEF LoadReadNode, CGoto, TypeOK
  <2>4. ConsumerOk'
    BY <1>0, <1>2, <2>3 DEF ConsumerOk
  <2> QED BY <1>0, <1>1, <1>4, <2>2, <2>4, PopStays DEF LoadReadNode
<1>5. CASE TestReady(c)
  <2>1. ctail[c] = tail /\ rnode[c] = next[tail]
    BY <1>0, <1>5 DEF TestReady, ConsumerOk
  <2>2. TypeOK'
    <3>1. /\ rnode' \in [Consumers -> Nodes \cup {Null}] /\ cpc' \in [Consumers -> CPCs]
          /\ ctail' \in [Consumers -> Nodes \cup {Null}]
      BY <1>0, <1>5 DEF TestReady, CGoto, TypeOK, CPCs
    <3>2. got' = got /\ want' = want
      BY <1>5 DEF TestReady
    <3> QED BY <1>0, <1>2, <3>1, <3>2 DEF TypeOK
  <2>3. \/ cpc'[c] = "idle"
        \/ /\ cpc'[c] = "cas_tail" /\ ctail'[c] = tail /\ rnode'[c] = next[tail]
           /\ ready[rnode[c]] = 1 /\ rnode'[c] = rnode[c]
    BY <1>0, <1>5, <2>1 DEF TestReady, CGoto, TypeOK
  <2>4. ConsumerOk'
    BY <1>0, <1>2, <2>3 DEF ConsumerOk
  <2> QED BY <1>0, <1>1, <1>5, <2>2, <2>4, PopStays DEF TestReady
<1>6. CASE ReadData(c)
  <2>1. rnode[c] = tail /\ data[tail] = want[c]
    BY <1>0, <1>6 DEF ReadData, ConsumerOk
  <2>2. TypeOK'
    <3>1. got' \in [Consumers -> Values \cup {NoValue}] /\ cpc' \in [Consumers -> CPCs]
      BY <1>0, <1>6, <2>1 DEF ReadData, CGoto, TypeOK, CPCs
    <3>2. rnode' = rnode /\ ctail' = ctail /\ want' = want
      BY <1>6 DEF ReadData
    <3> QED BY <1>0, <1>2, <3>1, <3>2 DEF TypeOK
  <2>3. cpc'[c] = "unready" /\ rnode'[c] = tail /\ want'[c] = want[c] /\ got'[c] = want[c]
    BY <1>0, <1>6, <2>1 DEF ReadData, CGoto, TypeOK
  <2>4. ConsumerOk'
    BY <1>0, <1>2, <2>1, <2>3 DEF ConsumerOk
  <2> QED BY <1>0, <1>1, <1>6, <2>2, <2>3, <2>4, PopStays
<1> QED BY <1>3, <1>4, <1>5, <1>6

\* What a pop finds ready behind tail_ is the slot that was claimed first.
LEMMA FirstIsReady ==
    ASSUME QueueAssumption, QueueInv, OneConsumer, NEW c \in Consumers, cpc[c] = "cas_tail"
    PROVE  /\ claims # <<>> /\ 1 \in DOMAIN claims /\ claims[1].ready
           /\ claims[1].node = next[tail] /\ rnode[c] = next[tail] /\ ctail[c] = tail
<1>0. ConsumerOk /\ ReadyHolds /\ ClaimsFollowTail /\ TypeOK /\ \A d \in Consumers : d = c
  BY DEF QueueInv, OneConsumer
<1>1. ctail[c] = tail /\ rnode[c] = next[tail] /\ ready[next[tail]] = 1
  BY <1>0 DEF ConsumerOk
<1>2. next[tail] \in Nodes
  BY ClaimFacts, UsedNodes DEF QueueInv, RingLinked
<1>3. PICK i \in DOMAIN claims : claims[i].node = next[tail] /\ claims[i].ready
  BY <1>0, <1>1, <1>2 DEF ReadyHolds
<1>4. 1 \in DOMAIN claims /\ claims # <<>>
  BY <1>3, ClaimFacts
<1>5. claims[1].node = next[tail]
  <2>1. claims[1].node = next[NodeAt(1 - 1)]
    BY <1>0, <1>4 DEF ClaimsFollowTail
  <2>2. NodeAt(1 - 1) = tail
    BY DEF NodeAt
  <2> QED BY <2>1, <2>2
<1>6. i = 1
  BY <1>3, <1>4, <1>5, ClaimFacts
<1> QED BY <1>1, <1>3, <1>4, <1>5, <1>6

LEMMA CasTailInv ==
    ASSUME QueueAssumption, QueueInv, OneConsumer, NEW c \in Consumers, CasTail(c)
    PROVE  QueueInv'
<1>0. /\ TypeOK /\ RingLinked /\ ClaimsFollowTail /\ ClaimsApart /\ LockerOk /\ ClaimsOwned
      /\ ReadyHolds /\ ConsumerOk /\ \A d \in Consumers : d = c
  BY DEF QueueInv, OneConsumer
<1>1. /\ cpc[c] = "cas_tail"
      /\ claims # <<>> /\ 1 \in DOMAIN claims /\ claims[1].ready
      /\ claims[1].node = next[tail] /\ rnode[c] = next[tail] /\ ctail[c] = tail
  BY FirstIsReady DEF CasTail
<1>2. /\ tail' = next[tail] /\ cpc' = [cpc EXCEPT ![c] = "read"] /\ claims' = Tail(claims)
      /\ want' = [want EXCEPT ![c] = Head(claims).val] /\ ctail' = [ctail EXCEPT ![c] = Null]
      /\ next' = next /\ ready' = ready /\ data' = data /\ head' = head /\ blocks' = blocks
      /\ ppc' = ppc /\ pushes' = pushes /\ wnode' = wnode /\ wnext' = wnext
      /\ rnode' = rnode /\ got' = got
  BY <1>1 DEF CasTail, CGoto, nodeVars, producerVars
<1>3. PICK L \in Nat : L + 1 = Len(claims) /\ DOMAIN claims = 1 .. L + 1
  <2>1. Len(claims) \in Nat /\ DOMAIN claims = 1 .. Len(claims) /\ Len(claims) > 0
    BY <1>1, ClaimFacts
  <2>2. Len(claims) - 1 \in Nat /\ (Len(claims) - 1) + 1 = Len(claims)
    BY <2>1
  <2> QED BY <2>1, <2>2
<1>4. /\ claims' \in Seq([val : Values, node : Nodes, ready : BOOLEAN])
      /\ Len(claims') = L /\ DOMAIN claims' = 1 .. L /\ Head(claims) = claims[1]
      /\ \A i \in 1 .. L : claims'[i] = claims[i + 1] /\ i + 1 \in DOMAIN claims
  <2>1. /\ Tail(claims) \in Seq([val : Values, node : Nodes, ready : BOOLEAN])
        /\ Len(Tail(claims)) = Len(claims) - 1
        /\ \A i \in 1 .. Len(Tail(claims)) : Tail(claims)[i] = claims[i + 1]
        /\ Head(claims) = claims[1]
    BY <1>0, <1>1, HeadTailProperties DEF TypeOK
  <2>2. Len(Tail(claims)) = L
    BY <1>3, <2>1
  <2>3. DOMAIN Tail(claims) = 1 .. L
    BY <2>1, <2>2, LenProperties
  <2>4. \A i \in 1 .. L : i + 1 \in DOMAIN claims
    BY <1>3
  <2> QED BY <1>2, <2>1, <2>2, <2>3, <2>4
<1>5. /\ \A i \in 0 .. L : NodeAt(i)' = NodeAt(i + 1) /\ i + 1 \in 0 .. L + 1 /\ i + 1 # 0
      /\ Turn' = Turn /\ Used' = Used
  <2>1. \A i \in 0 .. L : (i = 0 \/ i \in 1 .. L) /\ i + 1 \in 0 .. L + 1 /\ i + 1 # 0
    OBVIOUS
  <2>2. ASSUME NEW i \in 0 .. L PROVE NodeAt(i)' = NodeAt(i + 1)
    <3>1. NodeAt(i + 1) = claims[i + 1].node
      BY <2>1 DEF NodeAt
    <3>2. CASE i = 0
      BY <1>1, <1>2, <3>1, <3>2 DEF NodeAt
    <3>3. CASE i \in 1 .. L
      BY <1>4, <3>1, <3>3 DEF NodeAt
    <3> QED BY <2>1, <3>2, <3>3
  <2>3. Turn' = next'[NodeAt(L)'] /\ Turn = next[NodeAt(L + 1)] /\ L \in 0 .. L
    BY <1>3, <1>4 DEF Turn, NodeAt
  <2>4. Turn' = Turn
    BY <1>2, <2>2, <2>3
  <2> QED BY <1>2, <2>1, <2>2, <2>4 DEF Used
<1>6. /\ claims[1].val \in Values /\ tail' \in Nodes /\ tail' # tail
      /\ \A i \in 1 .. L : claims'[i].node # tail'
  <2>1. claims[1].val \in Values /\ claims[1].node \in Used /\ claims[1].node # tail
    BY <1>1, ClaimFacts
  <2>2. \A i \in 1 .. L : i + 1 # 1
    OBVIOUS
  <2>3. \A i \in 1 .. L : claims[i + 1].node # claims[1].node
    BY <1>1, <1>4, <2>2, ClaimFacts
  <2> QED BY <1>0, <1>1, <1>2, <1>4, <2>1, <2>3, UsedNodes
<1>7. TypeOK'
  <2>1. /\ want' \in [Consumers -> Values \cup {NoValue}] /\ cpc' \in [Consumers -> CPCs]
        /\ ctail' \in [Consumers -> Nodes \cup {Null}]
    BY <1>0, <1>2, <1>4, <1>6 DEF TypeOK, CPCs
  <2> QED BY <1>0, <1>2, <1>4, <1>6, <2>1 DEF TypeOK
<1>8. RingLinked'
  BY <1>0, <1>2, <1>5 DEF RingLinked
<1>9. ClaimsFollowTail'
  <2>1. ASSUME NEW i \in 1 .. L PROVE claims'[i].node = next'[NodeAt(i - 1)']
    <3>0. i - 1 \in 0 .. L /\ i - 1 + 1 = i /\ i + 1 - 1 = i
      OBVIOUS
    <3>1. i + 1 \in DOMAIN claims
      BY <1>4
    <3>2. claims[i + 1].node = next[NodeAt(i)]
      BY <1>0, <3>0, <3>1 DEF ClaimsFollowTail
    <3>3. NodeAt(i - 1)' = NodeAt(i)
      BY <1>5, <3>0
    <3> QED BY <1>2, <1>4, <3>2, <3>3
  <2> QED BY <1>0, <1>2, <1>4, <1>5, <2>1 DEF ClaimsFollowTail
<1>10. ClaimsApart'
  <2>1. \A i \in 0 .. L + 1 : NodeAt(i) \in Used /\ NodeAt(i) # Turn
    BY <1>0, <1>3 DEF ClaimsApart
  <2>2. \A i, j \in 0 .. L + 1 : NodeAt(i) = NodeAt(j) => i = j
    BY <1>0, <1>3 DEF ClaimsApart
  <2>3. ASSUME NEW i \in 0 .. L, NEW j \in 0 .. L, NodeAt(i)' = NodeAt(j)'
        PROVE  i = j
    <3>1. i + 1 = j + 1
      BY <1>5, <2>2, <2>3
    <3> QED BY <3>1
  <2> QED BY <1>4, <1>5, <2>1, <2>3 DEF ClaimsApart
<1>11. LockerOk'
  <2>1. ASSUME NEW p \in Producers, ppc[p] = "unlock_head" PROVE next[Turn] # next[tail]
    BY <1>0, ClaimFacts DEF RingLinked
  <2> QED BY <1>0, <1>2, <1>5, <2>1 DEF LockerOk
<1>12. ClaimsOwned'
  <2>1. ASSUME NEW q \in Producers, ppc[q] \in Filling
        PROVE  \E j \in DOMAIN claims' :
                  /\ claims'[j].val = Pushing(q)
                  /\ claims'[j].node = wnode[q] /\ ~claims'[j].ready
    <3>1. PICK i \in DOMAIN claims : /\ claims[i].val = Pushing(q)
                                     /\ claims[i].node = wnode[q] /\ ~claims[i].ready
      BY <2>1, OwnClaim
    <3>2. i # 1 /\ i \in 1 .. L + 1
      BY <1>1, <1>3, <3>1
    <3>3. i - 1 \in 1 .. L /\ (i - 1) + 1 = i
      BY <3>2
    <3> QED BY <1>4, <3>1, <3>3
  <2>2. ASSUME NEW q \in Producers, ppc[q] \notin {"idle"} \cup Filling, NEW j \in DOMAIN claims'
        PROVE  claims'[j].val # Pushing(q)
    BY <1>0, <1>4, <2>2 DEF ClaimsOwned
  <2>3. ASSUME NEW j \in DOMAIN claims', NEW k \in DOMAIN claims',
               claims'[j].val = claims'[k].val
        PROVE  j = k
    <3>1. j + 1 = k + 1 /\ j \in 1 .. L /\ k \in 1 .. L
      BY <1>0, <1>4, <2>3 DEF ClaimsOwned
    <3> QED BY <3>1
  <2>4. \A j \in DOMAIN claims', q \in Producers, k \in 1 .. MaxPush :
            claims'[j].val = <<q, k>> => k <= pushes[q]
    BY <1>0, <1>4 DEF ClaimsOwned
  <2>5. \A q \in Producers : ppc[q] # "idle" => pushes[q] > 0
    BY <1>0 DEF ClaimsOwned
  <2> QED BY <1>2, <2>1, <2>2, <2>3, <2>4, <2>5 DEF ClaimsOwned, Pushing
<1>13. cpc'[c] = "read" /\ want'[c] = claims[1].val /\ rnode[c] = tail'
  BY <1>0, <1>1, <1>2, <1>4 DEF TypeOK
<1>14. ReadyHolds'
  <2>1. ASSUME NEW n \in Nodes, ready[n] = 1
        PROVE  \/ n = tail' /\ \E d \in Consumers : cpc'[d] \in {"read", "unready"}
               \/ \E j \in DOMAIN claims' : claims'[j].node = n /\ claims'[j].ready
    <3>1. PICK i \in DOMAIN claims : claims[i].node = n /\ claims[i].ready
      BY <1>0, <1>1, <2>1 DEF ReadyHolds
    <3>2. CASE i = 1
      BY <1>1, <1>2, <1>13, <3>1, <3>2
    <3>3. CASE i # 1
      <4>1. i - 1 \in 1 .. L /\ (i - 1) + 1 = i
        BY <1>3, <3>3
      <4> QED BY <1>4, <3>1, <4>1
    <3> QED BY <3>2, <3>3
  <2>2. \A j \in DOMAIN claims' : claims'[j].ready =>
            ready[claims'[j].node] = 1 /\ data[claims'[j].node] = claims'[j].val
    BY <1>0, <1>4 DEF ReadyHolds
  <2> QED BY <1>0, <1>2, <2>1, <2>2 DEF ReadyHolds, Pushing
<1>15. ConsumerOk'
  <2>1. data[tail'] = claims[1].val
    BY <1>0, <1>1, <1>2 DEF ReadyHolds
  <2> QED BY <1>0, <1>2, <1>13, <2>1 DEF ConsumerOk
<1> QED
  BY <1>7, <1>8, <1>9, <1>10, <1>11, <1>12, <1>14, <1>15 DEF QueueInv

LEMMA SetUnreadyInv ==
    ASSUME QueueAssumption, QueueInv, OneConsumer, NEW c \in Consumers, SetUnready(c)
    PROVE  QueueInv'
<1>0. /\ TypeOK /\ RingLinked /\ ClaimsFollowTail /\ ClaimsApart /\ LockerOk /\ ClaimsOwned
      /\ ReadyHolds /\ ConsumerOk /\ \A d \in Consumers : d = c
  BY DEF QueueInv, OneConsumer
<1>1. /\ cpc[c] = "unready" /\ rnode[c] = tail
  BY <1>0 DEF SetUnready, ConsumerOk
<1>2. /\ ready' = [ready EXCEPT ![tail] = 0] /\ rnode' = [rnode EXCEPT ![c] = Null]
      /\ got' = [got EXCEPT ![c] = NoValue] /\ want' = [want EXCEPT ![c] = NoValue]
      /\ cpc' = [cpc EXCEPT ![c] = "idle"]
      /\ next' = next /\ data' = data /\ head' = head /\ tail' = tail /\ blocks' = blocks
      /\ ppc' = ppc /\ pushes' = pushes /\ wnode' = wnode /\ wnext' = wnext
      /\ ctail' = ctail /\ claims' = claims
  BY <1>1 DEF SetUnready, CGoto, producerVars
<1>3. ready'[tail] = 0 /\ \A n \in Nodes \ {tail} : ready'[n] = ready[n]
  BY <1>0, <1>2 DEF TypeOK
<1>4. TypeOK'
  <2>1. /\ ready' \in [Nodes -> {0, 1}] /\ rnode' \in [Consumers -> Nodes \cup {Null}]
        /\ got' \in [Consumers -> Values \cup {NoValue}]
        /\ want' \in [Consumers -> Values \cup {NoValue}] /\ cpc' \in [Consumers -> CPCs]
    BY <1>0, <1>2 DEF TypeOK, CPCs
  <2> QED BY <1>0, <1>2, <2>1 DEF TypeOK
<1>5. RingLinked' /\ ClaimsFollowTail' /\ ClaimsApart'
  BY <1>0, <1>2 DEF RingLinked, ClaimsFollowTail, ClaimsApart, Used, Turn, NodeAt
<1>6. LockerOk'
  BY <1>0, <1>2 DEF LockerOk, Turn, NodeAt
<1>7. ClaimsOwned'
  BY <1>0, <1>2 DEF ClaimsOwned, Pushing
<1>8. ReadyHolds'
  <2>1. ASSUME NEW n \in Nodes, ready'[n] = 1
        PROVE  \E j \in DOMAIN claims : claims[j].node = n /\ claims[j].ready
    <3>1. n # tail /\ ready[n] = 1
      BY <1>3, <2>1
    <3> QED BY <1>0, <3>1 DEF ReadyHolds
  <2>2. ASSUME NEW j \in DOMAIN claims, claims[j].ready
        PROVE  ready'[claims[j].node] = 1
    <3>1. claims[j].node \in Nodes /\ claims[j].node # tail
      BY <1>0, ClaimFacts, UsedNodes
    <3> QED BY <1>0, <1>3, <2>2, <3>1 DEF ReadyHolds
  <2> QED BY <1>0, <1>2, <2>1, <2>2 DEF ReadyHolds, Pushing
<1>9. ConsumerOk'
  <2>1. cpc'[c] = "idle"
    BY <1>0, <1>2 DEF TypeOK
  <2> QED BY <1>0, <2>1 DEF ConsumerOk
<1> QED
  BY <1>4, <1>5, <1>6, <1>7, <1>8, <1>9 DEF QueueInv
-----------------------------------------------------------------------------
LEMMA NextQueueInv ==
    ASSUME QueueAssumption, QueueInv, HeadsFresh, OneConsumer, [Next]_vars
    PROVE  QueueInv'
<1>1. CASE UNCHANGED vars
  <2>1. /\ UNCHANGED <<nodeVars, head, tail, blocks, producerVars, claims>>
        /\ cpc' = cpc /\ ctail' = ctail /\ rnode' = rnode /\ got' = got /\ want' = want
    BY <1>1 DEF vars, nodeVars, producerVars
  <2>2. TypeOK'
    BY <2>1 DEF QueueInv, TypeOK, nodeVars, producerVars
  <2>3. ConsumerOk'
    BY <2>1 DEF QueueInv, ConsumerOk, nodeVars
  <2> QED BY <2>1, <2>2, <2>3, PopStays
<1>2. ASSUME NEW p \in Producers, Push(p) \/ PushStep(p)
      PROVE  QueueInv'
  <2>1. CASE Push(p) \/ LoadHead(p) \/ LoadNext(p) \/ TestFull(p) \/ WaitUnready(p)
    BY <2>1, PushLooksInv
  <2>2. CASE CasHead(p) \/ LockHead(p)
    BY <2>2, CasHeadInv, LockHeadInv
  <2>3. CASE InsertBlock(p) \/ AllocFails(p) \/ UnlockHead(p)
    BY <2>3, InsertBlockInv, AllocFailsInv, UnlockHeadInv
  <2>4. CASE WriteData(p) \/ SetReady(p)
    BY <2>4, WriteDataInv, SetReadyInv
  <2> QED BY <1>2, <2>1, <2>2, <2>3, <2>4 DEF PushStep
<1>3. ASSUME NEW c \in Consumers, LoadTail(c) \/ PopStep(c)
      PROVE  QueueInv'
  <2>1. CASE LoadTail(c) \/ LoadReadNode(c) \/ TestReady(c) \/ ReadData(c)
    BY <2>1, PopLooksInv
  <2>2. CASE CasTail(c) \/ SetUnready(c)
    BY <2>2, CasTailInv, SetUnreadyInv
  <2> QED BY <1>3, <2>1, <2>2 DEF PopStep
<1> QED BY <1>1, <1>2, <1>3 DEF Next

LEMMA QueueKeepsOrder ==
    ASSUME QueueInv
    PROVE  TypeOK /\ ClaimsFollowTail /\ DeliversClaimed
  BY DEF QueueInv, ConsumerOk, DeliversClaimed

LEMMA FilledSlot ==
    ASSUME NEW slot \in [val : Values, ready : BOOLEAN]
    PROVE  [slot EXCEPT !.ready = TRUE] = [val |-> slot.val, ready |-> TRUE]
<1> DEFINE new == [slot EXCEPT !.ready = TRUE]
           full == [val |-> slot.val, ready |-> TRUE]
<1>1. new \in [val : Values, ready : BOOLEAN] /\ new.val = slot.val /\ new.ready = TRUE
  OBVIOUS
<1>2. full \in [val : Values, ready : BOOLEAN] /\ full.val = slot.val /\ full.ready = TRUE
  OBVIOUS
<1>3. \A a, b \in [val : Values, ready : BOOLEAN] : a.val = b.val /\ a.ready = b.ready => a = b
  OBVIOUS
<1> HIDE DEF new, full
<1>4. new = full
  BY <1>1, <1>2, <1>3
<1> QED BY <1>4 DEF new, full

\* Each step of the ring is a step of the queue of slots, or none.
LEMMA QueueStepIsSlotStep ==
    ASSUME QueueAssumption, QueueInv, HeadsFresh, OneConsumer, [Next]_vars
    PROVE  [Slots!Next]_slots
<1> USE DEF slots
<1>0. /\ claims \in Seq([val : Values, node : Nodes, ready : BOOLEAN]) /\ Len(claims) \in Nat
      /\ DOMAIN claims = 1 .. Len(claims) /\ TypeOK
  BY ClaimFacts DEF QueueInv
<1>1. PICK L \in Nat : L = Len(claims) /\ DOMAIN claims = 1 .. L
  BY <1>0
<1>2. slots = [i \in 1 .. L |-> SlotOf(claims[i])] /\ DOMAIN slots = 1 .. L
  BY <1>1
<1>3. slots \in Seq([val : Values, ready : BOOLEAN]) /\ Len(slots) = L
  <2>1. \A i \in 1 .. L : SlotOf(claims[i]) \in [val : Values, ready : BOOLEAN]
    BY <1>0, <1>1, ClaimFacts DEF SlotOf
  <2>2. slots \in [1 .. L -> [val : Values, ready : BOOLEAN]]
    BY <1>2, <2>1
  <2>3. slots \in Seq([val : Values, ready : BOOLEAN])
    BY <2>2, FunctionIsSeq
  <2> HIDE DEF slots
  <2>4. Len(slots) = L
    BY <1>2, <2>3, LenProperties
  <2> QED BY <2>3, <2>4
<1>4. ASSUME NEW p \in Producers, Claimed(p, wnode[p]), Pushing(p) \in Values
      PROVE  Slots!Claim(Pushing(p))
  <2> DEFINE new == [val |-> Pushing(p), node |-> wnode[p], ready |-> FALSE]
             slot == [val |-> Pushing(p), ready |-> FALSE]
  <2>1. claims' = Append(claims, new)
    BY <1>4 DEF Claimed
  <2>2. /\ DOMAIN claims' = 1 .. L + 1 /\ claims'[L + 1] = new
        /\ \A i \in 1 .. L : claims'[i] = claims[i]
    BY <1>0, <1>1, <2>1
  <2>3. slots' = [i \in 1 .. L + 1 |-> SlotOf(claims'[i])]
    BY <2>2 DEF SlotOf
  <2>4. SlotOf(new) = slot
    BY DEF SlotOf
  <2>5. Append(slots, slot) = [i \in 1 .. L + 1 |-> IF i = L + 1 THEN slot ELSE slots[i]]
    BY <1>3 DEF Append
  <2>6. \A i \in 1 .. L + 1 : SlotOf(claims'[i]) = IF i = L + 1 THEN slot ELSE slots[i]
    <3>1. ASSUME NEW i \in 1 .. L PROVE slots[i] = SlotOf(claims[i])
      BY <1>2
    <3>2. \A i \in 1 .. L + 1 : i = L + 1 \/ i \in 1 .. L
      OBVIOUS
    <3> HIDE DEF slots, slot, new
    <3> QED BY <2>2, <2>4, <3>1, <3>2
  <2>7. slots' = Append(slots, slot)
    BY <2>3, <2>5, <2>6
  <2> QED BY <2>7 DEF Slots!Claim
<1>5. ASSUME claims' = claims
      PROVE  UNCHANGED slots
  BY <1>5 DEF SlotOf
<1>6. ASSUME NEW p \in Producers, ppc[p] # "idle"
      PROVE  Pushing(p) \in Values
  <2>1. pushes[p] \in 0 .. MaxPush /\ pushes[p] > 0 /\ MaxPush \in Nat
    BY <1>0, <1>6 DEF TypeOK, QueueInv, ClaimsOwned, QueueAssumption
  <2> QED BY <2>1 DEF Pushing, Values
<1>7. ASSUME NEW p \in Producers, Push(p) \/ PushStep(p)
      PROVE  [Slots!Next]_slots
  <2>1. CASE CasHead(p) \/ LockHead(p) \/ UnlockHead(p)
    <3>1. ppc[p] # "idle" /\ (claims' = claims \/ Claimed(p, wnode[p]))
      BY <2>1 DEF CasHead, LockHead, UnlockHead, CasFails
    <3>2. CASE Claimed(p, wnode[p])
      <4>1. Slots!Claim(Pushing(p)) /\ Pushing(p) \in Values
        BY <1>4, <1>6, <3>1, <3>2
      <4> HIDE DEF slots
      <4> QED BY <4>1 DEF Slots!Next
    <3> QED BY <1>5, <3>1, <3>2
  <2>2. CASE SetReady(p)
    <3>1. PICK i \in DOMAIN claims :
            /\ claims[i].val = Pushing(p) /\ ~claims[i].ready
            /\ \A j \in DOMAIN claims : j # i => claims[j].val # Pushing(p)
      BY <2>2, OwnClaim DEF SetReady, Filling
    <3>2. claims' = [j \in DOMAIN claims |-> IF claims[j].val = Pushing(p)
                              THEN [claims[j] EXCEPT !.ready = TRUE] ELSE claims[j]]
      BY <2>2 DEF SetReady
    <3>3. claims[i] = [val |-> claims[i].val, node |-> claims[i].node, ready |-> claims[i].ready]
      BY ClaimFacts
    <3>4. claims'[i] = [val |-> claims[i].val, node |-> claims[i].node, ready |-> TRUE]
      BY <3>1, <3>2, <3>3
    <3>5. SlotOf(claims'[i]) = [val |-> claims[i].val, ready |-> TRUE]
      BY <3>4 DEF SlotOf
    <3>6. \A j \in DOMAIN claims : j # i => claims'[j] = claims[j]
      BY <3>1, <3>2
    <3>7. slots' = [j \in DOMAIN claims |-> SlotOf(claims'[j])]
      BY <3>2 DEF SlotOf
    <3>8. slots[i] = [val |-> claims[i].val, ready |-> claims[i].ready]
      BY DEF SlotOf
    <3>9. [slots[i] EXCEPT !.ready = TRUE] = SlotOf(claims'[i])
      <4>1. claims[i].val \in Values /\ claims[i].ready \in BOOLEAN
        BY ClaimFacts
      <4> HIDE DEF slots
      <4>2. slots[i] \in [val : Values, ready : BOOLEAN] /\ slots[i].val = claims[i].val
        BY <3>8, <4>1
      <4> QED BY <3>5, <4>2, FilledSlot
    <3>10. \A j \in DOMAIN claims : slots[j] = SlotOf(claims[j])
      OBVIOUS
    <3>11. DOMAIN slots = DOMAIN claims
      OBVIOUS
    <3>12. [slots EXCEPT ![i].ready = TRUE]
              = [j \in DOMAIN claims |-> IF j = i THEN SlotOf(claims'[i]) ELSE slots[j]]
      <4> HIDE DEF slots
      <4> QED BY <3>9, <3>11
    <3>13. slots' = [slots EXCEPT ![i].ready = TRUE]
      <4>1. \A j \in DOMAIN claims :
                SlotOf(claims'[j]) = IF j = i THEN SlotOf(claims'[i]) ELSE slots[j]
        BY <3>6, <3>10
      <4> QED BY <3>7, <3>12, <4>1
    <3>14. ~slots[i].ready
      BY <3>1, <3>8
    <3> HIDE DEF slots
    <3>15. Slots!Fill(i)
      BY <3>13, <3>14 DEF Slots!Fill
    <3> QED BY <3>11, <3>15 DEF Slots!Next
  <2>3. CASE Push(p) \/ LoadHead(p) \/ LoadNext(p) \/ TestFull(p) \/ InsertBlock(p)
             \/ AllocFails(p) \/ WaitUnready(p) \/ WriteData(p)
    BY <1>5, <2>3
       DEF Push, LoadHead, LoadNext, TestFull, InsertBlock, AllocFails, WaitUnready, WriteData
  <2> QED BY <1>7, <2>1, <2>2, <2>3 DEF PushStep
<1>8. ASSUME NEW c \in Consumers, LoadTail(c) \/ PopStep(c)
      PROVE  [Slots!Next]_slots
  <2>1. CASE claims' = claims
    BY <1>5, <2>1
  <2>2. CASE CasTail(c) /\ claims' # claims
    <3>1. claims # <<>> /\ 1 \in DOMAIN claims /\ claims[1].ready /\ claims' = Tail(claims)
      BY <2>2, FirstIsReady DEF CasTail
    <3>2. DOMAIN Tail(claims) = 1 .. L - 1 /\ \A i \in 1 .. L - 1 : Tail(claims)[i] = claims[i + 1]
      BY <1>0, <1>1, <3>1
    <3>3. slots' = [i \in 1 .. L - 1 |-> SlotOf(claims[i + 1])]
      BY <3>1, <3>2 DEF SlotOf
    <3>4. slots[1] = SlotOf(claims[1]) /\ \A i \in 1 .. L - 1 : slots[i + 1] = SlotOf(claims[i + 1])
      BY <1>1, <3>1
    <3>5. 1 \in 1 .. L /\ L > 0
      BY <1>1, <3>1
    <3> HIDE DEF slots
    <3>6. slots # <<>> /\ Tail(slots) = [i \in 1 .. L - 1 |-> slots[i + 1]] /\ Head(slots) = slots[1]
      <4>1. slots # <<>>
        BY <1>3, <3>5, EmptySeq
      <4>2. /\ Tail(slots) \in Seq([val : Values, ready : BOOLEAN])
            /\ Len(Tail(slots)) = L - 1 /\ Head(slots) = slots[1]
            /\ \A i \in 1 .. Len(Tail(slots)) : Tail(slots)[i] = slots[i + 1]
        BY <1>3, <4>1, HeadTailProperties
      <4>3. Tail(slots) = [i \in 1 .. L - 1 |-> Tail(slots)[i]]
        BY <4>2, LenProperties
      <4> QED BY <4>1, <4>2, <4>3
    <3>7. Tail(slots) = slots'
      BY <3>3, <3>4, <3>6
    <3>8. Head(slots).ready
      BY <3>1, <3>4, <3>6 DEF SlotOf
    <3>9. Slots!Pop
      BY <3>6, <3>7, <3>8 DEF Slots!Pop, Slots!CanPop
    <3> QED BY <3>9 DEF Slots!Next
  <2>3. CASE LoadTail(c) \/ LoadReadNode(c) \/ TestReady(c) \/ ReadData(c) \/ SetUnready(c)
    BY <2>1, <2>3 DEF LoadTail, LoadReadNode, TestReady, ReadData, SetUnready
  <2> QED BY <1>8, <2>1, <2>2, <2>3 DEF PopStep
<1>9. CASE UNCHANGED vars
  BY <1>5, <1>9 DEF vars
<1> HIDE DEF slots
<1> QED BY <1>7, <1>8, <1>9 DEF Next

-----------------------------------------------------------------------------
(* One producer.                                                           *)

\* What the only producer has read of the ring stays as it read it: nobody else
\* moves head_ or inserts nodes, and tail_ does not pass the node it writes.
LEMMA OneProducerOk ==
    ASSUME QueueAssumption, QueueInv, ProducerOk, OneProducer, OneConsumer, [Next]_vars
    PROVE  ProducerOk'
<1>0. TypeOK /\ RingLinked /\ ClaimsFollowTail /\ LockerOk
  BY DEF QueueInv
<1>1. CASE UNCHANGED vars
  BY <1>1 DEF vars, ProducerOk
<1>2. ASSUME NEW c \in Consumers, CasTail(c) PROVE ProducerOk'
  <2>1. /\ next' = next /\ head' = head /\ ppc' = ppc /\ wnode' = wnode /\ wnext' = wnext
        /\ tail' = next[tail]
    BY <1>2, FirstIsReady DEF CasTail, nodeVars, producerVars
  <2>2. ASSUME NEW p \in Producers, ppc[p] = "cas_head" PROVE next[head] # next[tail]
    <3>1. wnode[p] = head /\ head # Null
      BY <1>0, <2>2 DEF ProducerOk, LockerOk, Looking
    <3>2. head = Turn
      BY <1>0, <3>1 DEF ClaimsFollowTail
    <3> QED BY <1>0, <3>2, ClaimFacts DEF RingLinked
  <2> QED BY <2>1, <2>2 DEF ProducerOk
<1>3. ASSUME NEW c \in Consumers,
             LoadTail(c) \/ LoadReadNode(c) \/ TestReady(c) \/ ReadData(c) \/ SetUnready(c)
      PROVE  ProducerOk'
  <2>1. UNCHANGED <<next, head, tail, ppc, wnode, wnext>>
    BY <1>3 DEF LoadTail, LoadReadNode, TestReady, ReadData, SetUnready, nodeVars, producerVars
  <2> QED BY <2>1 DEF ProducerOk
<1>4. ASSUME NEW p \in Producers, Push(p) \/ PushStep(p)
      PROVE  ProducerOk'
  <2>0. \A q \in Producers : q = p
    BY DEF OneProducer
  <2>1. CASE Push(p) \/ CasHead(p) \/ InsertBlock(p) \/ UnlockHead(p)
             \/ WaitUnready(p) \/ WriteData(p) \/ SetReady(p)
    <3>1. CASE ppc'[p] \notin Looking
      BY <2>0, <3>1 DEF ProducerOk, Looking
    <3>2. CASE CasFails(p) /\ ppc[p] = "cas_head"
      BY <3>2 DEF CasFails, ProducerOk, Looking
    <3>3. CASE ~(CasHead(p) /\ CasFails(p))
      <4>1. ppc'[p] \notin Looking
        BY <1>0, <2>1, <3>3
           DEF Push, CasHead, InsertBlock, UnlockHead, WaitUnready, WriteData, SetReady,
               PGoto, Looking, TypeOK
      <4> QED BY <3>1, <4>1
    <3> QED BY <2>1, <3>2, <3>3 DEF CasHead
  <2>2. CASE LoadHead(p)
    <3>1. ppc'[p] = "load_next" /\ wnode'[p] = head /\ head' = head
      BY <1>0, <2>2 DEF LoadHead, PGoto, TypeOK
    <3> QED BY <2>0, <3>1 DEF ProducerOk
  <2>3. CASE LoadNext(p)
    <3>1. /\ ppc'[p] = "test_full" /\ wnext'[p] = next[wnode[p]] /\ wnode' = wnode
          /\ head' = head /\ next' = next /\ wnode[p] = head
      BY <1>0, <2>3 DEF LoadNext, PGoto, TypeOK, ProducerOk, Looking, nodeVars
    <3> QED BY <2>0, <3>1 DEF ProducerOk
  <2>4. CASE TestFull(p)
    <3>1. /\ ppc'[p] = IF wnext[p] # tail THEN "cas_head" ELSE "lock_head"
          /\ UNCHANGED <<next, head, tail, wnode, wnext>>
          /\ wnode[p] = head /\ wnext[p] = next[head]
      BY <1>0, <2>4 DEF TestFull, PGoto, TypeOK, ProducerOk, Looking, nodeVars
    <3> QED BY <2>0, <3>1 DEF ProducerOk
  <2>5. CASE LockHead(p)
    <3>1. wnode[p] = head
      BY <2>5 DEF LockHead, ProducerOk, Looking
    <3>2. ppc'[p] = "insert_block"
      BY <1>0, <2>5, <3>1 DEF LockHead, CasFails, PGoto, TypeOK
    <3> QED BY <2>0, <3>2 DEF ProducerOk, Looking
  <2>6. CASE AllocFails(p)
    <3>1. ppc'[p] = "load_next" /\ head' = wnode[p] /\ wnode' = wnode
      BY <1>0, <2>6 DEF AllocFails, PGoto, TypeOK
    <3> QED BY <2>0, <3>1 DEF ProducerOk
  <2> QED BY <1>4, <2>1, <2>2, <2>3, <2>4, <2>5, <2>6 DEF PushStep
<1> QED BY <1>1, <1>2, <1>3, <1>4 DEF Next, PopStep

LEMMA InitProducerOk ==
    ASSUME QueueAssumption, Init
    PROVE  QueueInv /\ ProducerOk
  BY InitQueueInv DEF Init, ProducerOk, Looking

LEMMA ProducerIsFresh ==
    ASSUME ProducerOk
    PROVE  HeadsFresh
  BY DEF ProducerOk, HeadsFresh, Looking

LEMMA NextProducerOk ==
    ASSUME QueueAssumption, QueueInv, ProducerOk, OneProducer, OneConsumer, [Next]_vars
    PROVE  QueueInv' /\ ProducerOk'
  BY ProducerIsFresh, NextQueueInv, OneProducerOk

-----------------------------------------------------------------------------
(* The theorems.                                                           *)

\* As long as what a push has read of the ring holds at its compare-and-swap, the
\* claims and the ring fit together, whichever pushes extend it
\* (freelock_m2m_queue.h: push, __extend_list, pop).
THEOREM QueueInvariance ==
    ASSUME QueueAssumption, OneConsumer
    PROVE  Spec /\ []HeadsFresh => []QueueInv
<1>1. Init => QueueInv
  BY InitQueueInv
<1>2. QueueInv /\ HeadsFresh /\ [Next]_vars => QueueInv'
  BY NextQueueInv
<1> QED BY <1>1, <1>2, PTL DEF Spec

\* pop returns the element of the slot whose turn it was, and the ring is a queue
\* of slots claimed, filled and popped in order (freelock_m2m_queue.h: push, pop).
THEOREM QueueOrder ==
    ASSUME QueueAssumption, OneConsumer
    PROVE  Spec /\ []HeadsFresh =>
                [](TypeOK /\ ClaimsFollowTail /\ DeliversClaimed) /\ ImplementsSlotQueue
<1>1. QueueInv => TypeOK /\ ClaimsFollowTail /\ DeliversClaimed
  BY QueueKeepsOrder
<1>2. Init => Slots!Init
  BY DEF Init, Slots!Init, slots
<1>3. QueueInv /\ HeadsFresh /\ [Next]_vars => [Slots!Next]_slots
  BY QueueStepIsSlotStep
<1>4. Spec /\ []HeadsFresh => []QueueInv
  BY QueueInvariance
<1> QED BY <1>1, <1>2, <1>3, <1>4, PTL DEF Spec, ImplementsSlotQueue, Slots!Spec

\* With one producer nothing that a push has read changes before its
\* compare-and-swap (freelock_m2m_queue.h: push).
THEOREM OneProducerIsFresh ==
    ASSUME QueueAssumption, OneConsumer, OneProducer
    PROVE  Spec => []HeadsFresh
<1>1. Init => QueueInv /\ ProducerOk
  BY InitProducerOk
<1>2. ProducerOk => HeadsFresh
  BY ProducerIsFresh
<1>3. QueueInv /\ ProducerOk /\ [Next]_vars => QueueInv' /\ ProducerOk'
  BY NextProducerOk
<1> QED BY <1>1, <1>2, <1>3, PTL DEF Spec
=============================================================================
