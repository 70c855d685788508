------------------------------ MODULE M2MQueue ------------------------------
(***************************************************************************)
(* pump/toolkit/freelock_m2m_queue.h: a ring of element nodes linked by    *)
(* next.  head is the next node to write, tail the last node read; head is *)
(* null while a producer inserts a block of new nodes.  Every step is one  *)
(* access to shared memory; the accesses take effect in program order.     *)
(*                                                                         *)
(* The plain field next is read without synchronisation: a producer may    *)
(* use the value it read for the full test, or read it again, as the new   *)
(* value of its compare-and-swap.                                          *)
(***************************************************************************)
EXTENDS Integers, Sequences, FiniteSets

CONSTANTS Producers, Consumers,
          BlockSize,   \* PerBlockElementCount
          InitBlocks,  \* blocks __init_list makes for the requested size
          MaxBlocks,   \* bound: blocks that memory has room for
          MaxPush,     \* bound: pushes of one producer
          NoValue

\* Assumed of the constants.
QueueAssumption ==
    /\ BlockSize \in Nat \ {0, 1}
    /\ InitBlocks \in Nat \ {0}
    /\ MaxBlocks \in Nat /\ MaxBlocks >= InitBlocks
    /\ MaxPush \in Nat

Null == 0
Nodes == 1 .. BlockSize * MaxBlocks
Values == Producers \X (1 .. MaxPush)

VARIABLES next, ready, data, \* fields of the element nodes
          head, tail,        \* head_ and tail_
          blocks,            \* blocks allocated (capacity_ / BlockSize)
          ppc,               \* control state of each producer
          pushes,            \* pushes each producer has begun
          wnode,             \* next_write_node
          wnext,             \* next_write_node->next as read for the full test
          cpc,               \* control state of each consumer
          ctail,             \* current_tail
          rnode,             \* next_read_node
          got,               \* the element read from it
          claims,            \* history: slots claimed and not yet taken
          want               \* history: the value of the slot a consumer took

nodeVars == <<next, ready, data>>
producerVars == <<ppc, pushes, wnode, wnext>>
consumerVars == <<cpc, ctail, rnode, got, want>>
vars == <<next, ready, data, head, tail, blocks, ppc, pushes, wnode, wnext,
          cpc, ctail, rnode, got, claims, want>>

\* __init_list: the first InitBlocks blocks form the ring.
Init ==
    LET last == BlockSize * InitBlocks
    IN  /\ next = [n \in Nodes |-> IF n = last THEN 1
                                   ELSE IF n < last THEN n + 1 ELSE Null]
        /\ head = 1
        /\ tail = last
        /\ blocks = InitBlocks
        /\ ready = [n \in Nodes |-> 0]
        /\ data = [n \in Nodes |-> NoValue]
        /\ ppc = [p \in Producers |-> "idle"]
        /\ pushes = [p \in Producers |-> 0]
        /\ wnode = [p \in Producers |-> Null]
        /\ wnext = [p \in Producers |-> Null]
        /\ cpc = [c \in Consumers |-> "idle"]
        /\ ctail = [c \in Consumers |-> Null]
        /\ rnode = [c \in Consumers |-> Null]
        /\ got = [c \in Consumers |-> NoValue]
        /\ want = [c \in Consumers |-> NoValue]
        /\ claims = <<>>

-----------------------------------------------------------------------------
(* push.                                                                   *)

PGoto(p, l) == ppc' = [ppc EXCEPT ![p] = l]

\* The value of the push in progress.
Pushing(p) == <<p, pushes[p]>>

\* The slot n is p's: the point at which the push takes its place.
Claimed(p, n) ==
    claims' = Append(claims, [val |-> Pushing(p), node |-> n, ready |-> FALSE])

Push(p) ==
    /\ ppc[p] = "idle" /\ pushes[p] < MaxPush
    /\ pushes' = [pushes EXCEPT ![p] = @ + 1]
    /\ PGoto(p, "load_head")
    /\ UNCHANGED <<nodeVars, head, tail, blocks, wnode, wnext, consumerVars, claims>>

\* A null head means the list is being extended: load again.
LoadHead(p) ==
    /\ ppc[p] = "load_head"
    /\ head # Null
    /\ wnode' = [wnode EXCEPT ![p] = head]
    /\ PGoto(p, "load_next")
    /\ UNCHANGED <<nodeVars, head, tail, blocks, pushes, wnext, consumerVars, claims>>

LoadNext(p) ==
    /\ ppc[p] = "load_next"
    /\ wnext' = [wnext EXCEPT ![p] = next[wnode[p]]]
    /\ PGoto(p, "test_full")
    /\ UNCHANGED <<nodeVars, head, tail, blocks, pushes, wnode, consumerVars, claims>>

\* Mutant: the test for the tail node is left out.
TestFullNever(p) ==
    /\ ppc[p] = "test_full"
    /\ PGoto(p, "cas_head")
    /\ UNCHANGED <<nodeVars, head, tail, blocks, pushes, wnode, wnext, consumerVars, claims>>

TestFull(p) ==
    /\ ppc[p] = "test_full"
    /\ PGoto(p, IF wnext[p] # tail THEN "cas_head" ELSE "lock_head")
    /\ UNCHANGED <<nodeVars, head, tail, blocks, pushes, wnode, wnext, consumerVars, claims>>

\* A failed compare_exchange leaves the current head in next_write_node.
CasFails(p) ==
    /\ head # wnode[p]
    /\ wnode' = [wnode EXCEPT ![p] = head]
    /\ PGoto(p, IF head = Null THEN "load_head" ELSE "load_next")
    /\ UNCHANGED <<head, claims>>

CasHead(p) ==
    /\ ppc[p] = "cas_head"
    /\ \/ /\ head = wnode[p]
          /\ \E n \in {wnext[p], next[wnode[p]]} : head' = n
          /\ Claimed(p, wnode[p])
          /\ PGoto(p, "wait_unready")
          /\ UNCHANGED wnode
       \/ CasFails(p)
    /\ wnext' = [wnext EXCEPT ![p] = Null]
    /\ UNCHANGED <<nodeVars, tail, blocks, pushes, consumerVars>>

-----------------------------------------------------------------------------
(* __extend_list, called by a push that found the ring full.               *)

LockHead(p) ==
    /\ ppc[p] = "lock_head"
    /\ \/ /\ head = wnode[p]
          /\ head' = Null
          /\ PGoto(p, "insert_block")
          /\ UNCHANGED <<wnode, claims>>
       \/ CasFails(p)
    /\ wnext' = [wnext EXCEPT ![p] = Null]
    /\ UNCHANGED <<nodeVars, tail, blocks, pushes, consumerVars>>

\* Mutant: the new block is not linked to the rest of the ring.
InsertBlockUnlinked(p) ==
    LET first == blocks * BlockSize + 1
    IN  /\ ppc[p] = "insert_block"
        /\ blocks < MaxBlocks
        /\ blocks' = blocks + 1
        /\ next' = [n \in Nodes |->
                        CASE n = wnode[p] -> first
                          [] n \in first .. first + BlockSize - 2 -> n + 1
                          [] OTHER -> next[n]]
        /\ PGoto(p, "unlock_head")
        /\ UNCHANGED <<ready, data, head, tail, pushes, wnode, wnext, consumerVars, claims>>

\* The new block goes between the node being written and its successor.
InsertBlock(p) ==
    LET first == blocks * BlockSize + 1
        last == blocks * BlockSize + BlockSize
    IN  /\ ppc[p] = "insert_block"
        /\ blocks < MaxBlocks
        /\ blocks' = blocks + 1
        /\ next' = [n \in Nodes |->
                        CASE n = wnode[p] -> first
                          [] n \in first .. last - 1 -> n + 1
                          [] n = last -> next[wnode[p]]
                          [] OTHER -> next[n]]
        /\ PGoto(p, "unlock_head")
        /\ UNCHANGED <<ready, data, head, tail, pushes, wnode, wnext, consumerVars, claims>>

\* Mutant: the lock stays.
AllocFailsLocked(p) ==
    /\ ppc[p] = "insert_block"
    /\ blocks = MaxBlocks
    /\ PGoto(p, "load_next")
    /\ UNCHANGED <<nodeVars, head, tail, blocks, pushes, wnode, wnext, consumerVars, claims>>

\* The allocation fails: the lock is undone and the push starts again.
AllocFails(p) ==
    /\ ppc[p] = "insert_block"
    /\ blocks = MaxBlocks
    /\ head' = wnode[p]
    /\ PGoto(p, "load_next")
    /\ UNCHANGED <<nodeVars, tail, blocks, pushes, wnode, wnext, consumerVars, claims>>

\* Mutant: the head goes behind the new block.
UnlockHeadSkips(p) ==
    /\ ppc[p] = "unlock_head"
    /\ head' = next[blocks * BlockSize]
    /\ Claimed(p, wnode[p])
    /\ PGoto(p, "wait_unready")
    /\ UNCHANGED <<nodeVars, tail, blocks, pushes, wnode, wnext, consumerVars>>

UnlockHead(p) ==
    /\ ppc[p] = "unlock_head"
    /\ head' = next[wnode[p]]
    /\ Claimed(p, wnode[p])
    /\ PGoto(p, "wait_unready")
    /\ UNCHANGED <<nodeVars, tail, blocks, pushes, wnode, wnext, consumerVars>>

-----------------------------------------------------------------------------
(* The rest of push: fill the slot.                                        *)

WaitUnready(p) ==
    /\ ppc[p] = "wait_unready"
    /\ ready[wnode[p]] = 0
    /\ PGoto(p, "write")
    /\ UNCHANGED <<nodeVars, head, tail, blocks, pushes, wnode, wnext, consumerVars, claims>>

WriteData(p) ==
    /\ ppc[p] = "write"
    /\ data' = [data EXCEPT ![wnode[p]] = Pushing(p)]
    /\ PGoto(p, "set_ready")
    /\ UNCHANGED <<next, ready, head, tail, blocks, pushes, wnode, wnext, consumerVars, claims>>

SetReady(p) ==
    /\ ppc[p] = "set_ready"
    /\ ready' = [ready EXCEPT ![wnode[p]] = 1]
    /\ claims' = [i \in DOMAIN claims |->
                    IF claims[i].val = Pushing(p)
                    THEN [claims[i] EXCEPT !.ready = TRUE] ELSE claims[i]]
    /\ wnode' = [wnode EXCEPT ![p] = Null]
    /\ PGoto(p, "idle")
    /\ UNCHANGED <<next, data, head, tail, blocks, pushes, wnext, consumerVars>>

-----------------------------------------------------------------------------
(* pop.                                                                    *)

CGoto(c, l) == cpc' = [cpc EXCEPT ![c] = l]

LoadTail(c) ==
    /\ cpc[c] = "idle"
    /\ ctail' = [ctail EXCEPT ![c] = tail]
    /\ CGoto(c, "load_read_node")
    /\ UNCHANGED <<nodeVars, head, tail, blocks, producerVars, rnode, got, want, claims>>

LoadReadNode(c) ==
    /\ cpc[c] = "load_read_node"
    /\ rnode' = [rnode EXCEPT ![c] = next[ctail[c]]]
    /\ CGoto(c, "test_ready")
    /\ UNCHANGED <<nodeVars, head, tail, blocks, producerVars, ctail, got, want, claims>>

\* Mutant: the element is taken whether it is there or not.
TestReadyAny(c) ==
    /\ cpc[c] = "test_ready"
    /\ CGoto(c, "cas_tail")
    /\ UNCHANGED <<nodeVars, head, tail, blocks, producerVars, rnode, ctail, got,
                   want, claims>>

\* pop returns false if the node is not ready.
TestReady(c) ==
    /\ cpc[c] = "test_ready"
    /\ \/ /\ ready[rnode[c]] = 0
          /\ CGoto(c, "idle")
          /\ rnode' = [rnode EXCEPT ![c] = Null]
          /\ ctail' = [ctail EXCEPT ![c] = Null]
       \/ /\ ready[rnode[c]] = 1
          /\ CGoto(c, "cas_tail")
          /\ UNCHANGED <<rnode, ctail>>
    /\ UNCHANGED <<nodeVars, head, tail, blocks, producerVars, got, want, claims>>

\* Moving tail takes the slot that was claimed first.
CasTail(c) ==
    /\ cpc[c] = "cas_tail"
    /\ \/ /\ tail = ctail[c]
          /\ tail' = rnode[c]
          /\ CGoto(c, "read")
          /\ IF claims = <<>> THEN UNCHANGED <<claims, want>>
             ELSE /\ claims' = Tail(claims)
                  /\ want' = [want EXCEPT ![c] = Head(claims).val]
          /\ ctail' = [ctail EXCEPT ![c] = Null]
       \/ /\ tail # ctail[c]
          /\ ctail' = [ctail EXCEPT ![c] = tail]
          /\ CGoto(c, "load_read_node")
          /\ UNCHANGED <<tail, claims, want>>
    /\ UNCHANGED <<nodeVars, head, blocks, producerVars, rnode, got>>

ReadData(c) ==
    /\ cpc[c] = "read"
    /\ got' = [got EXCEPT ![c] = data[rnode[c]]]
    /\ CGoto(c, "unready")
    /\ UNCHANGED <<nodeVars, head, tail, blocks, producerVars, ctail, rnode, want, claims>>

SetUnready(c) ==
    /\ cpc[c] = "unready"
    /\ ready' = [ready EXCEPT ![rnode[c]] = 0]
    /\ rnode' = [rnode EXCEPT ![c] = Null]
    /\ got' = [got EXCEPT ![c] = NoValue]
    /\ want' = [want EXCEPT ![c] = NoValue]
    /\ CGoto(c, "idle")
    /\ UNCHANGED <<next, data, head, tail, blocks, producerVars, ctail, claims>>

-----------------------------------------------------------------------------
PushStep(p) ==
    \/ LoadHead(p) \/ LoadNext(p) \/ TestFull(p) \/ CasHead(p)
    \/ LockHead(p) \/ InsertBlock(p) \/ AllocFails(p) \/ UnlockHead(p)
    \/ WaitUnready(p) \/ WriteData(p) \/ SetReady(p)

PopStep(c) ==
    \/ LoadReadNode(c) \/ TestReady(c) \/ CasTail(c)
    \/ ReadData(c) \/ SetUnready(c)

Next ==
    \/ \E p \in Producers : Push(p) \/ PushStep(p)
    \/ \E c \in Consumers : LoadTail(c) \/ PopStep(c)

Spec == Init /\ [][Next]_vars

\* A producer inside push keeps running, and a consumer keeps popping.
Fairness ==
    /\ \A p \in Producers : WF_vars(PushStep(p))
    /\ \A c \in Consumers : WF_vars(LoadTail(c) \/ PopStep(c))

FairSpec == Spec /\ Fairness

-----------------------------------------------------------------------------
(* Properties.                                                             *)

PPCs == {"idle", "load_head", "load_next", "test_full", "cas_head", "lock_head",
         "insert_block", "unlock_head", "wait_unready", "write", "set_ready"}
CPCs == {"idle", "load_read_node", "test_ready", "cas_tail", "read", "unready"}

\* Every variable has the shape the code gives it: only an extension in
\* progress leaves head_ null, and every node of the allocated blocks is linked.
TypeOK ==
    /\ next \in [Nodes -> Nodes \cup {Null}]
    /\ \A n \in 1 .. blocks * BlockSize : next[n] # Null
    /\ ready \in [Nodes -> {0, 1}]
    /\ data \in [Nodes -> Values \cup {NoValue}]
    /\ head \in Nodes \cup {Null}
    /\ tail \in Nodes
    /\ blocks \in InitBlocks .. MaxBlocks
    /\ ppc \in [Producers -> PPCs]
    /\ pushes \in [Producers -> 0 .. MaxPush]
    /\ wnode \in [Producers -> Nodes \cup {Null}]
    /\ wnext \in [Producers -> Nodes \cup {Null}]
    /\ cpc \in [Consumers -> CPCs]
    /\ ctail \in [Consumers -> Nodes \cup {Null}]
    /\ rnode \in [Consumers -> Nodes \cup {Null}]
    /\ got \in [Consumers -> Values \cup {NoValue}]
    /\ want \in [Consumers -> Values \cup {NoValue}]
    /\ claims \in Seq([val : Values, node : Nodes, ready : BOOLEAN])

\* The node of the claim i, tail_ in front of the first, and the node whose turn
\* it is to be claimed.
NodeAt(i) == IF i = 0 THEN tail ELSE claims[i].node
Turn == next[NodeAt(Len(claims))]

\* The claimed slots lie behind tail_ in the order of their claims, whatever
\* extensions were made meanwhile, and head_ is the node after the last one.
\* A claim that skips or repeats a node strands every later element.
ClaimsFollowTail ==
    /\ \A i \in DOMAIN claims : claims[i].node = next[NodeAt(i - 1)]
    /\ head # Null => head = Turn

\* What a pop returns is the element of the slot whose turn it was: not the
\* one of an earlier lap and not one written over.
DeliversClaimed ==
    \A c \in Consumers : cpc[c] = "unready" => got[c] = want[c]

\* What a push has read of the ring still holds when its compare-and-swap finds
\* head_ as it was: head_ did not go all round the ring meanwhile.
HeadsFresh ==
    \A p \in Producers : ppc[p] = "cas_head" /\ head = wnode[p] =>
        wnext[p] = next[head] /\ wnext[p] # tail

Used == 1 .. blocks * BlockSize
Locked == {"insert_block", "unlock_head"}
Looking == {"load_next", "test_full", "cas_head", "lock_head"}
Filling == {"wait_unready", "write", "set_ready"}

\* The nodes of the blocks form a ring.
RingLinked ==
    /\ \A n \in Used : next[n] \in Used
    /\ \A m, n \in Used : next[m] = next[n] => m = n

\* Tail, claimed nodes and the node whose turn it is are different nodes.
ClaimsApart ==
    /\ \A i \in 0 .. Len(claims) : NodeAt(i) \in Used /\ NodeAt(i) # Turn
    /\ \A i, j \in 0 .. Len(claims) : NodeAt(i) = NodeAt(j) => i = j

\* One push at a time extends the ring, behind the node whose turn it is.
LockerOk ==
    /\ \A p \in Producers : ppc[p] \in Locked =>
        head = Null /\ wnode[p] = Turn /\ (ppc[p] = "unlock_head" => next[Turn] # tail)
    /\ \A p, q \in Producers : ppc[p] \in Locked /\ ppc[q] \in Locked => p = q
    /\ \A p \in Producers : ppc[p] \in Looking => wnode[p] # Null

\* A push has one claim, on its node, from the compare-and-swap to the store of
\* ready.
ClaimsOwned ==
    /\ \A i \in DOMAIN claims, p \in Producers, k \in 1 .. MaxPush :
        claims[i].val = <<p, k>> => k <= pushes[p]
    /\ \A i, j \in DOMAIN claims : claims[i].val = claims[j].val => i = j
    /\ \A p \in Producers : ppc[p] # "idle" => pushes[p] > 0
    /\ \A p \in Producers : ppc[p] \notin {"idle"} \cup Filling =>
        \A i \in DOMAIN claims : claims[i].val # Pushing(p)
    /\ \A p \in Producers : ppc[p] \in Filling =>
        \E i \in DOMAIN claims : /\ claims[i].val = Pushing(p)
                                 /\ claims[i].node = wnode[p] /\ ~claims[i].ready

\* A node is ready while it holds an element: of a slot that is filled, or the
\* one that pop is reading.
ReadyHolds ==
    /\ \A n \in Nodes : ready[n] = 1 =>
        \/ n = tail /\ \E c \in Consumers : cpc[c] \in {"read", "unready"}
        \/ \E i \in DOMAIN claims : claims[i].node = n /\ claims[i].ready
    /\ \A i \in DOMAIN claims : claims[i].ready =>
        ready[claims[i].node] = 1 /\ data[claims[i].node] = claims[i].val
    /\ \A p \in Producers : ppc[p] = "set_ready" => data[wnode[p]] = Pushing(p)

\* What the one consumer knows.
ConsumerOk ==
    \A c \in Consumers :
        /\ cpc[c] \in {"load_read_node", "test_ready", "cas_tail"} => ctail[c] = tail
        /\ cpc[c] \in {"test_ready", "cas_tail"} => rnode[c] = next[tail]
        /\ cpc[c] = "cas_tail" => ready[rnode[c]] = 1
        /\ cpc[c] \in {"read", "unready"} => rnode[c] = tail /\ data[tail] = want[c]
        /\ cpc[c] = "unready" => got[c] = want[c]

QueueInv ==
    /\ TypeOK /\ RingLinked /\ ClaimsFollowTail /\ ClaimsApart /\ LockerOk
    /\ ClaimsOwned /\ ReadyHolds /\ ConsumerOk

\* What the one producer knows.
ProducerOk ==
    \A p \in Producers :
        /\ ppc[p] \in Looking => wnode[p] = head
        /\ ppc[p] \in {"test_full", "cas_head"} => wnext[p] = next[head]
        /\ ppc[p] = "cas_head" => wnext[p] # tail

SlotOf(claim) == [val |-> claim.val, ready |-> claim.ready]
slots == [i \in DOMAIN claims |-> SlotOf(claims[i])]
Slots == INSTANCE SlotQueue

\* The ring is a queue of slots claimed and popped in order; a pop never
\* takes a slot that is not filled.
ImplementsSlotQueue == Slots!Spec

\* Every claimed element is popped (freelock_m2m_queue.h: push, pop).
EveryElementPopped == []<>(claims = <<>>)

\* Every push comes back, also one that cannot extend the ring: it waits for
\* the consumer to make room (freelock_m2m_queue.h: push, __extend_list).
PushReturns == []<>(\A p \in Producers : ppc[p] = "idle")
=============================================================================
