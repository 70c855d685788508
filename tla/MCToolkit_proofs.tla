----------------------- MODULE MCToolkit_proofs -----------------------
(***************************************************************************)
(* Proofs about LightSemaphore: its type invariant, the accounting of      *)
(* sleepers and permits, the absence of lost wakeups and the refinement of *)
(* CountingSemaphore, for any number of threads and any bound; then about  *)
(* FreelockQueue and IoBuffer.  The theorems at the end carry the results, *)
(* and those of the modules about the two rings, over to the specification *)
(* in which one class moves.                                               *)
(***************************************************************************)
EXTENDS MCToolkit, FiniteSetTheorems, SequenceTheorems, TLAPS

\* Both sets that are counted are finite.
LEMMA FiniteCounts ==
    ASSUME TypeOK
    PROVE  /\ IsFiniteSet(Sleepers) /\ Cardinality(Sleepers) \in Nat
           /\ IsFiniteSet(Posts) /\ Cardinality(Posts) \in Nat
<1>1. IsFiniteSet(Signalers \X (1 .. MaxBatch))
  <2>1. IsFiniteSet(Signalers) /\ IsFiniteSet(1 .. MaxBatch)
    BY SemaphoreAssumption, FS_Interval DEF SemaphoreAssumption
  <2> QED BY <2>1, FS_Product
<1>2. IsFiniteSet(Sleepers)
  <2>1. Sleepers \in SUBSET Waiters
    BY DEF Sleepers
  <2> QED BY <2>1, SemaphoreAssumption, FS_Subset DEF SemaphoreAssumption
<1>3. IsFiniteSet(Posts)
  <2>1. Posts \in SUBSET (Signalers \X (1 .. MaxBatch))
    BY DEF Posts
  <2> QED BY <1>1, <2>1, FS_Subset
<1> QED BY <1>2, <1>3, FS_CardinalityType

\* A waiter that enters the kernel wait is one sleeper more.
LEMMA SleeperJoins ==
    ASSUME TypeOK, NEW w \in Waiters, pc[w] \notin Asleep,
           NEW l \in Asleep, pc' = [pc EXCEPT ![w] = l]
    PROVE  Cardinality(Sleepers') = Cardinality(Sleepers) + 1
<1>1. Sleepers' = Sleepers \cup {w}
  BY DEF Sleepers, TypeOK
<1>2. w \notin Sleepers
  BY DEF Sleepers
<1> QED BY <1>1, <1>2, FiniteCounts, FS_AddElement

\* A waiter that returns from it is one sleeper less.
LEMMA SleeperLeaves ==
    ASSUME TypeOK, NEW w \in Waiters, pc[w] \in Asleep,
           NEW l, l \notin Asleep, pc' = [pc EXCEPT ![w] = l]
    PROVE  Cardinality(Sleepers') = Cardinality(Sleepers) - 1
<1>1. Sleepers' = Sleepers \ {w}
  BY DEF Sleepers, TypeOK
<1>2. w \in Sleepers
  BY DEF Sleepers
<1> QED BY <1>1, <1>2, FiniteCounts, FS_RemoveElement

\* Any other move leaves the sleepers alone.
LEMMA SleeperStays ==
    ASSUME TypeOK, NEW w \in Waiters, NEW l, pc' = [pc EXCEPT ![w] = l],
           pc[w] \in Asleep <=> l \in Asleep
    PROVE  Sleepers' = Sleepers
BY DEF Sleepers, TypeOK

\* signal(n) owes as many posts as ToRelease says.
LEMMA SignalOwes ==
    ASSUME TypeOK, NEW s \in Signalers, torel[s] = 0, NEW r \in 0 .. MaxBatch,
           torel' = [torel EXCEPT ![s] = r]
    PROVE  Cardinality(Posts') = Cardinality(Posts) + r
<1> DEFINE Owed == {s} \X (1 .. r)
<1>1. IsFiniteSet(Owed) /\ Cardinality(Owed) = r
  <2>1. IsFiniteSet({s}) /\ Cardinality({s}) = 1
    BY FS_Singleton
  <2>2. IsFiniteSet(1 .. r) /\ Cardinality(1 .. r) = r
    BY FS_Interval
  <2>3. /\ IsFiniteSet({s} \X (1 .. r))
        /\ Cardinality({s} \X (1 .. r)) = Cardinality({s}) * Cardinality(1 .. r)
    <3> HIDE DEF Owed
    <3> QED BY <2>1, <2>2, FS_Product, Zenon
  <2>4. Cardinality({s} \X (1 .. r)) = 1 * r
    BY <2>1, <2>2, <2>3, Zenon
  <2> QED BY <2>3, <2>4
<1>2. Posts' = Posts \cup Owed
  BY SemaphoreAssumption DEF SemaphoreAssumption, Posts, TypeOK
<1>3. Posts \cap Owed = {}
  BY SemaphoreAssumption DEF SemaphoreAssumption, Posts, TypeOK
<1> HIDE DEF Owed
<1>4. IsFiniteSet(Posts) /\ Cardinality(Posts) \in Nat
  BY FiniteCounts
<1>5. Cardinality(Posts \cup Owed)
        = Cardinality(Posts) + Cardinality(Owed) - Cardinality(Posts \cap Owed)
  BY <1>1, <1>4, FS_Union
<1>6. Cardinality(Posts \cap Owed) = 0
  BY <1>3, FS_EmptySet, Zenon
<1> QED BY <1>1, <1>2, <1>4, <1>5, <1>6

\* One sem_post pays one of them.
LEMMA PostPays ==
    ASSUME TypeOK, NEW s \in Signalers, torel[s] > 0,
           torel' = [torel EXCEPT ![s] = @ - 1]
    PROVE  Cardinality(Posts') = Cardinality(Posts) - 1
<1> DEFINE paid == <<s, torel[s]>>
<1>1. Posts' = Posts \ {paid}
  BY SemaphoreAssumption DEF SemaphoreAssumption, Posts, TypeOK
<1>2. paid \in Posts
  BY SemaphoreAssumption DEF SemaphoreAssumption, Posts, TypeOK
<1> HIDE DEF paid
<1> QED BY <1>1, <1>2, FiniteCounts, FS_RemoveElement

-----------------------------------------------------------------------------
(* The inductive invariant.                                                *)

\* What SleepersAccounted and PermitsConserved say, with the two
\* cardinalities as numbers.
Balanced(c, k, w, p, free) ==
    /\ w = k + p + (IF c < 0 THEN -c ELSE 0)
    /\ free = (IF c > 0 THEN c ELSE 0) + k + p

LEMMA InitIInv == Init => IInv
<1> SUFFICES ASSUME Init PROVE IInv
  OBVIOUS
<1>1. TypeOK /\ LocalsInv
  BY SemaphoreAssumption
  DEF SemaphoreAssumption, Init, TypeOK, LocalsInv, PCs, Modes, Asleep
<1>2. Sleepers = {} /\ Posts = {}
  BY DEF Init, Sleepers, Posts, Asleep
<1>3. Cardinality(Sleepers) = 0 /\ Cardinality(Posts) = 0
  BY <1>2, FS_EmptySet, Zenon
<1>4. Balanced(count, sema, 0, 0, InitCount + signalled - acquired)
  BY SemaphoreAssumption DEF SemaphoreAssumption, Init, Balanced
<1> QED BY <1>1, <1>3, <1>4
        DEF IInv, SleepersAccounted, PermitsConserved, Permits, Balanced

\* The steps of a waiter, one by one.
LEMMA WaiterIInv ==
    ASSUME IInv, NEW w \in Waiters,
           (\E m \in Modes : Wait(w, m)) \/ WaiterStep(w)
    PROVE  IInv'
<1> DEFINE nS == Cardinality(Sleepers)
           nP == Cardinality(Posts)
           free == InitCount + signalled - acquired
<1>1. TypeOK /\ LocalsInv /\ nS \in Nat /\ nP \in Nat
      /\ Balanced(count, sema, nS, nP, free) /\ InitCount \in Nat
  BY SemaphoreAssumption, FiniteCounts
  DEF SemaphoreAssumption, IInv, SleepersAccounted, PermitsConserved, Permits, Balanced
<1>0. count \in Int /\ sema \in Nat /\ acquired \in Nat /\ signalled \in Nat
  BY <1>1 DEF TypeOK
<1>2. torel' = torel /\ signalled' = signalled
  BY DEF WaiterStep, Wait, TryLoad, TryCas, SpinLoad, SpinCas, FetchSub,
         SemWait, TimedWaitOk, TimedWaitFails, ReadjustLoad, Readjust
<1>3. nP' = nP
  BY <1>2 DEF Posts
<1> SUFFICES TypeOK' /\ LocalsInv'
             /\ Balanced(count', sema', nS', nP, (free)')
  BY <1>3 DEF IInv, SleepersAccounted, PermitsConserved, Permits, Balanced
<1> USE <1>0, <1>1, <1>2, SemaphoreAssumption
<1> HIDE DEF nP
<1>4. ASSUME NEW m \in Modes, Wait(w, m)
      PROVE  TypeOK' /\ LocalsInv' /\ Balanced(count', sema', nS', nP, (free)')
  <2>1. nS' = nS
    BY <1>4, SleeperStays DEF Wait, Goto, Asleep
  <2> HIDE DEF nS
  <2> QED BY <1>4, <2>1 DEF Wait, Goto, TypeOK, LocalsInv, PCs, Asleep
<1> USE DEF Goto, Return, ReturnTrue, ReturnFalse
<1>5. ASSUME TryLoad(w)
      PROVE  TypeOK' /\ LocalsInv' /\ Balanced(count', sema', nS', nP, (free)')
  <2>1. nS' = nS
    BY <1>5, SleeperStays DEF TryLoad, TryFails, Asleep
  <2> HIDE DEF nS
  <2> QED BY <1>5, <2>1 DEF TryLoad, TryFails, TypeOK, LocalsInv, PCs, Asleep, Modes
<1>6. ASSUME TryCas(w)
      PROVE  TypeOK' /\ LocalsInv' /\ Balanced(count', sema', nS', nP, (free)')
  <2>1. nS' = nS
    BY <1>6, SleeperStays DEF TryCas, TryFails, Asleep, Sleepers
  <2>2. TypeOK' /\ LocalsInv'
    BY <1>6 DEF TryCas, TryFails, TypeOK, LocalsInv, PCs, Asleep, Modes
  <2>3. pc[w] = "try_cas" /\ old[w] > 0
    BY <1>6 DEF TryCas, LocalsInv
  <2> HIDE DEF nS
  <2> QED BY <1>6, <2>1, <2>2, <2>3
          DEF TryCas, TryFails, Balanced
<1>7. ASSUME SpinLoad(w)
      PROVE  TypeOK' /\ LocalsInv' /\ Balanced(count', sema', nS', nP, (free)')
  <2>1. nS' = nS
    BY <1>7, SleeperStays DEF SpinLoad, SpinAgain, Asleep
  <2> HIDE DEF nS
  <2> QED BY <1>7, <2>1
          DEF SpinLoad, SpinAgain, TypeOK, LocalsInv, PCs, Asleep, Modes
<1>8. ASSUME SpinCas(w)
      PROVE  TypeOK' /\ LocalsInv' /\ Balanced(count', sema', nS', nP, (free)')
  <2>1. nS' = nS
    BY <1>8, SleeperStays DEF SpinCas, SpinAgain, Asleep
  <2>2. TypeOK' /\ LocalsInv'
    BY <1>8 DEF SpinCas, SpinAgain, TypeOK, LocalsInv, PCs, Asleep, Modes
  <2>3. pc[w] = "spin_cas" /\ old[w] > 0
    BY <1>8 DEF SpinCas, LocalsInv
  <2> HIDE DEF nS
  <2> QED BY <1>8, <2>1, <2>2, <2>3
          DEF SpinCas, SpinAgain, Balanced
<1>9. ASSUME FetchSub(w)
      PROVE  TypeOK' /\ LocalsInv' /\ Balanced(count', sema', nS', nP, (free)')
  <2>1. TypeOK' /\ LocalsInv'
    BY <1>9 DEF FetchSub, TypeOK, LocalsInv, PCs, Asleep, Modes
  <2>2. CASE count > 0
    <3>1. nS' = nS
      BY <1>9, <2>2, SleeperStays DEF FetchSub, Asleep, TypeOK
    <3> HIDE DEF nS
    <3> QED BY <1>9, <2>1, <2>2, <3>1 DEF FetchSub, Balanced
  <2>3. CASE count <= 0
    <3>1. nS' = nS + 1
      BY <1>9, <2>3, SleeperJoins DEF FetchSub, Asleep, TypeOK
    <3> HIDE DEF nS
    <3> QED BY <1>9, <2>1, <2>3, <3>1 DEF FetchSub, Balanced
  <2> QED BY <2>2, <2>3 DEF TypeOK
<1>10. ASSUME SemWait(w) \/ TimedWaitOk(w)
       PROVE  TypeOK' /\ LocalsInv' /\ Balanced(count', sema', nS', nP, (free)')
  <2>1. nS' = nS - 1
    BY <1>10, SleeperLeaves DEF SemWait, TimedWaitOk, Asleep
  <2>2. TypeOK' /\ LocalsInv'
    BY <1>10 DEF SemWait, TimedWaitOk, TypeOK, LocalsInv, PCs, Modes
  <2> HIDE DEF nS
  <2> QED BY <1>10, <2>1, <2>2 DEF SemWait, TimedWaitOk, Balanced
<1>11. ASSUME TimedWaitFails(w) \/ ReadjustLoad(w)
       PROVE  TypeOK' /\ LocalsInv' /\ Balanced(count', sema', nS', nP, (free)')
  <2>1. nS' = nS
    BY <1>11, SleeperStays DEF TimedWaitFails, ReadjustLoad, Asleep
  <2> HIDE DEF nS
  <2> QED BY <1>11, <2>1
          DEF TimedWaitFails, ReadjustLoad, TypeOK, LocalsInv, PCs, Asleep
<1>12. ASSUME Readjust(w)
       PROVE  TypeOK' /\ LocalsInv' /\ Balanced(count', sema', nS', nP, (free)')
  <2> USE <1>12 DEF Readjust
  <2>1. TypeOK' /\ LocalsInv'
    BY DEF TakePost, GiveBack, ReadjustAgain, TypeOK, LocalsInv, PCs, Asleep, Modes
  <2>2. CASE TakePost(w)
    <3>1. nS' = nS - 1
      BY <2>2, SleeperLeaves DEF TakePost, Asleep
    <3> HIDE DEF nS
    <3> QED BY <2>1, <2>2, <3>1 DEF TakePost, Balanced
  <2>3. CASE GiveBack(w)
    <3>1. nS' = nS - 1
      BY <2>3, SleeperLeaves DEF GiveBack, Asleep
    <3> HIDE DEF nS
    <3> QED BY <2>1, <2>3, <3>1 DEF GiveBack, Balanced
  <2>4. CASE ReadjustAgain(w)
    <3>1. nS' = nS
      BY <2>4, SleeperStays DEF ReadjustAgain, Asleep
    <3> HIDE DEF nS
    <3> QED BY <2>1, <2>4, <3>1 DEF ReadjustAgain
  <2> QED BY <2>2, <2>3, <2>4
<1> QED BY <1>4, <1>5, <1>6, <1>7, <1>8, <1>9, <1>10, <1>11, <1>12 DEF WaiterStep

\* The steps of a signaller.
LEMMA SignalerIInv ==
    ASSUME IInv, NEW s \in Signalers,
           (\E n \in 1 .. MaxBatch : Signal(s, n)) \/ Post(s)
    PROVE  IInv'
<1> DEFINE nS == Cardinality(Sleepers)
           nP == Cardinality(Posts)
           free == InitCount + signalled - acquired
<1>1. TypeOK /\ LocalsInv /\ nS \in Nat /\ nP \in Nat
      /\ Balanced(count, sema, nS, nP, free) /\ InitCount \in Nat
      /\ MaxBatch \in Nat
  BY SemaphoreAssumption, FiniteCounts
  DEF SemaphoreAssumption, IInv, SleepersAccounted, PermitsConserved, Permits, Balanced
<1>2. UNCHANGED <<waiterVars, acquired>>
  BY DEF Signal, Post
<1>3. Sleepers' = Sleepers /\ LocalsInv'
  BY <1>1, <1>2 DEF Sleepers, LocalsInv, waiterVars
<1> SUFFICES TypeOK' /\ Balanced(count', sema', nS, nP', (free)')
  BY <1>3 DEF IInv, SleepersAccounted, PermitsConserved, Permits, Balanced
<1> USE <1>1, <1>2 DEF waiterVars
<1> HIDE DEF nS
<1>4. ASSUME NEW n \in 1 .. MaxBatch, Signal(s, n)
      PROVE  TypeOK' /\ Balanced(count', sema', nS, nP', (free)')
  <2> DEFINE r == ToRelease(count, n)
  <2>1. r \in 0 .. MaxBatch
    BY DEF ToRelease, TypeOK
  <2>2. nP' = nP + r
    BY <1>4, <2>1, SignalOwes DEF Signal
  <2>3. TypeOK'
    BY <1>4, <2>1 DEF Signal, TypeOK
  <2> HIDE DEF nP
  <2> QED BY <1>4, <2>2, <2>3 DEF Signal, TypeOK, Balanced, ToRelease
<1>5. ASSUME Post(s)
      PROVE  TypeOK' /\ Balanced(count', sema', nS, nP', (free)')
  <2>1. nP' = nP - 1
    BY <1>5, PostPays DEF Post
  <2>2. TypeOK'
    BY <1>5 DEF Post, TypeOK
  <2> HIDE DEF nP
  <2> QED BY <1>5, <2>1, <2>2 DEF Post, TypeOK, Balanced
<1> QED BY <1>4, <1>5

-----------------------------------------------------------------------------
(* The theorems.                                                           *)

LEMMA NextIInv == IInv /\ [Next]_vars => IInv'
<1> SUFFICES ASSUME IInv, [Next]_vars PROVE IInv'
  OBVIOUS
<1>1. CASE UNCHANGED vars
  BY <1>1 DEF vars, IInv, TypeOK, LocalsInv, SleepersAccounted,
              PermitsConserved, Permits, Sleepers, Posts
<1>2. CASE Next
  BY <1>2, WaiterIInv, SignalerIInv DEF Next
<1> QED BY <1>1, <1>2

\* Whatever the threads do with the semaphore, its state keeps its type and
\* the accounting of sleepers, posts and permits holds (wait, the
\* readjustment after a timeout, and signal).
THEOREM Invariance == Spec => []IInv
BY InitIInv, NextIInv, PTL DEF Spec

\* The variables keep their types.
THEOREM TypeCorrect == Spec => []TypeOK
BY Invariance, PTL DEF IInv

\* A negative count_ is exactly the sleepers no post is made or owed for.
THEOREM SleepersAlwaysAccounted == Spec => []SleepersAccounted
BY Invariance, PTL DEF IInv

\* Permits are neither created nor lost by spinning, sleeping, timing out
\* and readjusting.
THEOREM PermitsAlwaysConserved == Spec => []PermitsConserved
BY Invariance, PTL DEF IInv

\* No thread sleeps in the kernel with a permit left and no post coming:
\* signal never misses a sleeper.
THEOREM NoWakeupLost == Spec => []NoLostWakeup
<1>1. IInv => NoLostWakeup
  <2> SUFFICES ASSUME IInv, Sleepers # {}, sema = 0, Posts = {}
               PROVE  Permits = 0
    BY DEF NoLostWakeup
  <2>1. TypeOK /\ SleepersAccounted /\ PermitsConserved
    BY DEF IInv
  <2>2. Cardinality(Sleepers) \in Nat /\ Cardinality(Sleepers) # 0
    BY <2>1, FiniteCounts, FS_EmptySet
  <2>3. Cardinality(Posts) = 0
    BY FS_EmptySet, Zenon
  <2>4. count < 0
    BY <2>1, <2>2, <2>3 DEF SleepersAccounted, TypeOK
  <2> QED BY <2>1, <2>3, <2>4 DEF PermitsConserved, TypeOK
<1> QED BY <1>1, Invariance, PTL

\* The permits of the abstract semaphore never run below zero.
LEMMA PermitsNat == IInv => Permits >= 0
<1> SUFFICES ASSUME IInv PROVE Permits >= 0
  OBVIOUS
<1>1. TypeOK /\ PermitsConserved
  BY DEF IInv
<1>2. Cardinality(Posts) \in Nat
  BY <1>1, FiniteCounts
<1> QED BY <1>1, <1>2 DEF PermitsConserved, TypeOK

\* A step of the semaphore is a step of the counting semaphore on Permits, or
\* leaves them alone.
LEMMA StepRefines ==
    ASSUME IInv, IInv', [Next]_vars, Permits' >= 0
    PROVE  [Counting!Next]_Permits
<1>0. /\ InitCount \in Nat /\ MaxBatch \in Nat
      /\ signalled \in Nat /\ acquired \in Nat
      /\ signalled' \in Nat /\ acquired' \in Nat
  BY SemaphoreAssumption DEF SemaphoreAssumption, IInv, TypeOK
<1>2. CASE UNCHANGED vars
  BY <1>2 DEF vars, Permits
<1>3. CASE \E w \in Waiters : (\E m \in Modes : Wait(w, m)) \/ WaiterStep(w)
  <2>1. signalled' = signalled /\ acquired' \in {acquired, acquired + 1}
    BY <1>3 DEF WaiterStep, Wait, TryLoad, TryCas, TryFails, SpinLoad, SpinCas,
        FetchSub, SemWait, TimedWaitOk, TimedWaitFails, ReadjustLoad, Readjust,
        TakePost, GiveBack, ReadjustAgain, ReturnTrue, ReturnFalse
  <2>2. CASE acquired' = acquired
    BY <2>1, <2>2 DEF Permits
  <2>3. CASE acquired' = acquired + 1
    <3>1. Permits' = Permits - 1 /\ Permits > 0
      BY <1>0, <2>1, <2>3 DEF Permits
    <3> QED BY <3>1 DEF Counting!Next, Counting!Acquire
  <2> QED BY <2>1, <2>2, <2>3
<1>4. CASE \E s \in Signalers : (\E n \in 1 .. MaxBatch : Signal(s, n)) \/ Post(s)
  <2>1. PICK s \in Signalers : (\E n \in 1 .. MaxBatch : Signal(s, n)) \/ Post(s)
    BY <1>4
  <2>2. CASE Post(s)
    BY <2>2 DEF Post, Permits
  <2>3. ASSUME NEW n \in 1 .. MaxBatch, Signal(s, n)
        PROVE  Counting!Next
    <3>1. Permits' = Permits + n
      BY <1>0, <2>3 DEF Signal, Permits
    <3> QED BY <3>1 DEF Counting!Next, Counting!Release
  <2> QED BY <2>1, <2>2, <2>3
<1> QED BY <1>2, <1>3, <1>4 DEF Next

\* The two-level semaphore implements the counting semaphore its callers see:
\* wait returns true once per permit and signal(n) adds n.
THEOREM RefinesCounting == Spec => ImplementsCounting
<1>1. Init => Counting!Init
  BY SemaphoreAssumption
  DEF SemaphoreAssumption, Init, Counting!Init, Permits
<1>2. IInv /\ IInv' /\ (Permits >= 0)' /\ [Next]_vars
        => [Counting!Next]_Permits
  BY StepRefines
<1> QED BY <1>1, <1>2, PermitsNat, Invariance, PTL
        DEF Spec, ImplementsCounting, Counting!Spec
-----------------------------------------------------------------------------
(* FreelockQueue, for any number of producers and elements: permits and    *)
(* elements agree, and a dequeue with a permit finds a slot.               *)

Slot == [val : F!Items, ready : BOOLEAN]

\* What the module counts with is the Cardinality of the proofs.
LEMMA SameCardinality ==
    ASSUME NEW S
    PROVE  /\ F!IsFiniteSet(S) <=> IsFiniteSet(S)
           /\ F!Cardinality(S) = Cardinality(S)
  BY DEF F!IsFiniteSet, IsFiniteSet, F!Cardinality, Cardinality

\* The producers in an enqueue can be counted.
LEMMA BusyFinite ==
    ASSUME F!FreelockAssumption
    PROVE  IsFiniteSet(F!Busy) /\ Cardinality(F!Busy) \in Nat
<1>1. F!Busy \in SUBSET Producers
  BY DEF F!Busy
<1>2. IsFiniteSet(F!Busy)
  BY <1>1, FS_Subset, SameCardinality DEF F!FreelockAssumption
<1> QED BY <1>2, FS_CardinalityType

\* A producer that begins to enqueue is one more that has not signalled.
LEMMA BusyGrows ==
    ASSUME F!FreelockAssumption, F!TypeOK, NEW p \in Producers, ppc[p] = "idle",
           ppc' = [ppc EXCEPT ![p] = "fill"]
    PROVE  Cardinality(F!Busy') = Cardinality(F!Busy) + 1
<1>1. F!Busy' = F!Busy \cup {p}
  BY DEF F!Busy, F!TypeOK
<1>2. p \notin F!Busy
  BY DEF F!Busy
<1> QED BY <1>1, <1>2, BusyFinite, FS_AddElement

\* A producer that signals is one less.
LEMMA BusyShrinks ==
    ASSUME F!FreelockAssumption, F!TypeOK, NEW p \in Producers, ppc[p] = "signal",
           ppc' = [ppc EXCEPT ![p] = "idle"]
    PROVE  Cardinality(F!Busy') = Cardinality(F!Busy) - 1
<1>1. F!Busy' = F!Busy \ {p}
  BY DEF F!Busy, F!TypeOK
<1>2. p \in F!Busy
  BY DEF F!Busy
<1> QED BY <1>1, <1>2, BusyFinite, FS_RemoveElement

LEMMA InitFreelock ==
    ASSUME F!FreelockAssumption, F!Init
    PROVE  F!FreelockInv
<1>1. F!TypeOK
  BY DEF F!FreelockAssumption, F!Init, F!TypeOK, F!Queue!Init, F!Semaphore!Init
<1>2. Cardinality(F!Busy) = 0
  <2>1. F!Busy = {}
    BY DEF F!Init, F!Busy
  <2> QED BY <2>1, FS_EmptySet, Zenon
<1>3. F!PermitPerElement
  BY <1>2, SameCardinality DEF F!Init, F!PermitPerElement, F!Queue!Init, F!Semaphore!Init
<1> QED BY <1>1, <1>3 DEF F!FreelockInv

-----------------------------------------------------------------------------
LEMMA ProducerFreelock ==
    ASSUME F!FreelockAssumption, F!FreelockInv, NEW p \in Producers, F!Enqueue(p) \/ F!Fill(p) \/ F!Signal(p)
    PROVE  F!FreelockInv'
<1>0. F!TypeOK /\ F!PermitPerElement
  BY DEF F!FreelockInv
<1>1. CASE F!Enqueue(p)
  <2>1. <<p, fcount[p] + 1>> \in F!Items /\ fcount[p] + 1 \in 0 .. MaxItems
    BY <1>0, <1>1 DEF F!FreelockAssumption, F!Enqueue, F!TypeOK, F!Items
  <2>2. Len(slots') = Len(slots) + 1
    BY <1>0, <1>1 DEF F!Enqueue, F!TypeOK, F!Queue!Claim
  <2>3. F!TypeOK'
    BY <1>0, <1>1, <2>1 DEF F!Enqueue, F!TypeOK, F!Queue!Claim
  <2>4. Cardinality(F!Busy') = Cardinality(F!Busy) + 1
    BY <1>0, <1>1, BusyGrows DEF F!Enqueue
  <2>5. F!PermitPerElement'
    BY <1>0, <1>1, <2>2, <2>4, BusyFinite, SameCardinality DEF F!Enqueue, F!PermitPerElement, F!TypeOK
  <2> QED BY <2>3, <2>5 DEF F!FreelockInv
<1>2. CASE F!Fill(p)
  <2>1. PICK i \in DOMAIN slots : slots' = [slots EXCEPT ![i].ready = TRUE]
    BY <1>2 DEF F!Fill, F!Queue!Fill
  <2>2. slots' \in Seq([val : F!Items, ready : BOOLEAN]) /\ Len(slots') = Len(slots)
    <3>1. slots \in Seq(Slot) /\ i \in 1 .. Len(slots)
      BY <1>0, <2>1 DEF F!TypeOK, Slot
    <3>2. slots[i] \in Slot
      BY <3>1
    <3>3. [slots[i] EXCEPT !.ready = TRUE] \in Slot
      BY <3>2 DEF Slot
    <3>4. slots' = [slots EXCEPT ![i] = [slots[i] EXCEPT !.ready = TRUE]]
      BY <2>1
    <3> QED BY <3>1, <3>3, <3>4, ExceptSeq DEF Slot
  <2>3. F!TypeOK'
    BY <1>0, <1>2, <2>2 DEF F!Fill, F!TypeOK
  <2>4. F!Busy' = F!Busy
    BY <1>0, <1>2 DEF F!Fill, F!Busy, F!TypeOK
  <2>5. F!PermitPerElement'
    BY <1>0, <1>2, <2>2, <2>4, SameCardinality DEF F!Fill, F!PermitPerElement
  <2> QED BY <2>3, <2>5 DEF F!FreelockInv
<1>3. CASE F!Signal(p)
  <2>1. permits' = permits + 1 /\ UNCHANGED <<slots, cpc>>
    BY <1>3 DEF F!Signal, F!Semaphore!Release
  <2>2. F!TypeOK'
    BY <1>0, <1>3, <2>1 DEF F!Signal, F!TypeOK
  <2>3. Cardinality(F!Busy') = Cardinality(F!Busy) - 1
    BY <1>0, <1>3, BusyShrinks DEF F!Signal
  <2>4. F!PermitPerElement'
    BY <1>0, <2>1, <2>3, BusyFinite, SameCardinality DEF F!PermitPerElement, F!TypeOK
  <2> QED BY <2>2, <2>4 DEF F!FreelockInv
<1> QED BY <1>1, <1>2, <1>3

LEMMA ConsumerFreelock ==
    ASSUME F!FreelockAssumption, F!FreelockInv, F!Wait \/ F!Pop
    PROVE  F!FreelockInv'
<1>0. F!TypeOK /\ F!PermitPerElement
  BY DEF F!FreelockInv
<1>1. CASE F!Wait
  <2>1. /\ permits > 0 /\ permits' = permits - 1
        /\ cpc = "idle" /\ cpc' = "pop"
        /\ UNCHANGED <<slots, ppc, fcount, dequeued>>
    BY <1>1 DEF F!Wait, F!Semaphore!Acquire
  <2>2. F!Busy' = F!Busy
    BY <2>1 DEF F!Busy
  <2> QED BY <1>0, <2>1, <2>2, BusyFinite, SameCardinality DEF F!FreelockInv, F!TypeOK, F!PermitPerElement
<1>2. CASE F!Pop
  <2>1. /\ slots # <<>> /\ slots' = Tail(slots)
        /\ dequeued' = Append(dequeued, Head(slots).val)
        /\ cpc = "pop" /\ cpc' = "idle"
        /\ UNCHANGED <<permits, ppc, fcount>>
    BY <1>2 DEF F!Pop, F!Queue!Pop, F!Queue!CanPop
  <2>2. /\ slots' \in Seq([val : F!Items, ready : BOOLEAN])
        /\ Len(slots') = Len(slots) - 1
        /\ Head(slots).val \in F!Items
    <3>1. slots \in Seq(Slot)
      BY <1>0 DEF F!TypeOK, Slot
    <3>2. /\ Head(slots) \in Slot /\ Tail(slots) \in Seq(Slot)
          /\ Len(Tail(slots)) = Len(slots) - 1
      BY <2>1, <3>1, HeadTailProperties
    <3> QED BY <2>1, <3>2 DEF Slot
  <2>3. F!TypeOK'
    BY <1>0, <2>1, <2>2 DEF F!TypeOK
  <2>4. F!Busy' = F!Busy
    BY <2>1 DEF F!Busy
  <2>5. F!PermitPerElement'
    BY <1>0, <2>1, <2>2, <2>4, BusyFinite, SameCardinality DEF F!PermitPerElement, F!TypeOK
  <2> QED BY <2>3, <2>5 DEF F!FreelockInv
<1> QED BY <1>1, <1>2

LEMMA NextFreelock ==
    ASSUME F!FreelockAssumption, F!FreelockInv, [F!Next]_F!vars
    PROVE  F!FreelockInv'
<1>1. CASE UNCHANGED F!vars
  BY <1>1, SameCardinality DEF F!vars, F!FreelockInv, F!TypeOK, F!PermitPerElement, F!Busy
<1>2. CASE F!Next
  BY <1>2, ProducerFreelock, ConsumerFreelock DEF F!Next
<1> QED BY <1>1, <1>2

-----------------------------------------------------------------------------
\* Types, and one permit for every element that is not being handled, in
\* every reachable state (enqueue, dequeue).
THEOREM FreelockInvariance ==
    ASSUME F!FreelockAssumption
    PROVE  F!Spec => []F!FreelockInv
<1>1. F!Init => F!FreelockInv
  BY InitFreelock
<1>2. F!FreelockInv /\ [F!Next]_F!vars => F!FreelockInv'
  BY NextFreelock
<1>3. QED BY <1>1, <1>2, PTL DEF F!Spec

\* The variables keep their types.
THEOREM FreelockTypeCorrect ==
    ASSUME F!FreelockAssumption
    PROVE  F!Spec => []F!TypeOK
<1>1. F!FreelockInv => F!TypeOK
  BY DEF F!FreelockInv
<1>2. F!Spec => []F!FreelockInv
  BY FreelockInvariance
<1>3. QED BY <1>1, <1>2, PTL

\* enqueue signals once per element, dequeue takes one permit per element.
THEOREM PermitsMatch ==
    ASSUME F!FreelockAssumption
    PROVE  F!Spec => []F!PermitPerElement
<1>1. F!FreelockInv => F!PermitPerElement
  BY DEF F!FreelockInv
<1>2. F!Spec => []F!FreelockInv
  BY FreelockInvariance
<1>3. QED BY <1>1, <1>2, PTL

\* A dequeue's permit stands for an element.
LEMMA InvFindsSlot ==
    ASSUME F!FreelockAssumption, F!FreelockInv
    PROVE  F!PopFindsSlot
BY BusyFinite, SameCardinality DEF F!FreelockInv, F!TypeOK, F!PermitPerElement, F!PopFindsSlot

\* The loop of dequeue pops a queue that is not empty: it only ever waits for
\* a producer that is filling its slot.
THEOREM DequeueFindsSlot ==
    ASSUME F!FreelockAssumption
    PROVE  F!Spec => []F!PopFindsSlot
<1>1. F!FreelockInv => F!PopFindsSlot
  BY InvFindsSlot
<1>2. F!Spec => []F!FreelockInv
  BY FreelockInvariance
<1>3. QED BY <1>1, <1>2, PTL

-----------------------------------------------------------------------------
(* IoBuffer: its data stays inside the memory, sizes do not wrap, data()   *)
(* is what was written, and count_ is the number of references, for        *)
(* buffers of any size and any number of handles.                          *)

\* What lies in front of the data was taken since the buffer was made.
Kept == rpos <= taken

BInv == B!BufferContent /\ Kept

\* The new size has room for the data behind what was read: it is at least one
\* and a half times the old size and the bytes to write, rounded.
LEMMA Growth ==
    ASSUME NEW m \in Nat, m >= 2
    PROVE  (m \div 2) * 3 >= m /\ (m \div 2) * 3 <= m + m
BY SMT

\* Where Room puts n more bytes: inside a memory that is at most three times the
\* limit, with the data, or what is left of it, in front of them.
LEMMA RoomFits ==
    ASSUME B!BufferAssumption, rawSize \in Nat, NEW p \in Nat, NEW s \in Nat, NEW n \in 1 .. Limit,
           p + s <= rawSize, s + n <= Limit, rawSize <= 3 * Limit
    PROVE  LET r == B!Room(p, s, n)
           IN  /\ r.memory \in Nat /\ r.pos \in Nat
               /\ r.len = s
               /\ r.pos + s + n <= r.memory
               /\ r.memory <= 3 * Limit
               /\ \/ r.from = 0 /\ r.keep = rawSize /\ (r.pos = p \/ (r.pos = 0 /\ s = 0))
                  \/ r.from = p /\ r.keep = s /\ r.pos = 0
<1> DEFINE cap == IF rawSize = 0 THEN n ELSE rawSize
           pos == IF p = cap THEN 0 ELSE p
           len == IF p = cap THEN 0 ELSE s
<1>1. /\ cap \in Nat /\ cap >= 1 /\ cap <= 3 * Limit
      /\ n \in Nat /\ n >= 1 /\ Limit \in Nat /\ Modulus \in Nat /\ 3 * Limit < Modulus
  BY DEF B!BufferAssumption
<1>2. /\ pos \in Nat /\ len = s /\ pos + s <= cap
      /\ pos = p \/ (pos = 0 /\ s = 0)
  BY <1>1
<1> HIDE DEF cap, pos, len
<1>3. CASE n <= cap - pos - len
  <2>1. B!Room(p, s, n) = [memory |-> cap, from |-> 0, keep |-> rawSize, pos |-> pos, len |-> len]
    BY <1>3 DEF B!Room, cap, pos, len
  <2> QED BY <2>1, <1>1, <1>2, <1>3
<1>4. CASE ~(n <= cap - pos - len) /\ B!Wrap(n + len) < cap
  <2>1. B!Room(p, s, n) = [memory |-> cap, from |-> pos, keep |-> len, pos |-> 0, len |-> len]
    BY <1>4 DEF B!Room, cap, pos, len
  <2>2. s + n <= cap
    BY <1>1, <1>2, <1>4 DEF B!Wrap
  <2>3. pos = p
    BY <1>1, <1>2, <1>4, <2>2
  <2> QED BY <2>1, <2>2, <2>3, <1>1, <1>2
<1>5. CASE ~(n <= cap - pos - len) /\ ~(B!Wrap(n + len) < cap)
  <2>1. B!Room(p, s, n) = [memory |-> B!NewSize(n), from |-> 0, keep |-> rawSize, pos |-> pos, len |-> len]
    BY <1>5 DEF B!Room, cap, pos, len
  <2>2. cap <= n + s /\ cap <= Limit
    BY <1>1, <1>2, <1>5 DEF B!Wrap
  <2>3. rawSize = cap
    BY <1>1, <1>2, <1>5 DEF cap
  <2>4. cap + n \in Nat /\ cap + n >= 2 /\ cap + n <= Limit + Limit
    BY <1>1, <2>2
  <2>5. /\ ((cap + n) \div 2) * 3 >= cap + n
        /\ ((cap + n) \div 2) * 3 <= 3 * Limit
        /\ ((cap + n) \div 2) * 3 \in Nat
    BY <2>4, <1>1, Growth
  <2>6. B!NewSize(n) = ((cap + n) \div 2) * 3
    BY <1>1, <2>3, <2>4, <2>5 DEF B!NewSize, B!Wrap
  <2> QED BY <2>1, <2>5, <2>6, <1>1, <1>2
<1> QED BY <1>3, <1>4, <1>5

\* The memory of m bytes that PutAt makes.
Put(m, from, keep, pos, s, n) ==
    [i \in 0 .. m - 1 |->
        IF pos + s <= i /\ i < pos + s + n
        THEN written + (i - pos - s)
        ELSE IF i < keep THEN raw[from + i] ELSE B!Junk]

\* n bytes behind s bytes of data that were kept, or moved to the front.
LEMMA Copied ==
    ASSUME B!TypeOK, Limit \in Nat, NEW p \in Nat, NEW s \in Nat, NEW n \in 1 .. Limit, NEW t \in Nat,
           NEW m \in Nat, NEW from \in Nat, NEW keep \in Nat, NEW pos \in Nat,
           p + s <= rawSize, written = t + s, p <= t,
           \A i \in 0 .. p + s - 1 : raw[i] = t - p + i,
           pos + s + n <= m, m <= 3 * Limit,
           \/ from = 0 /\ keep = rawSize /\ (pos = p \/ (pos = 0 /\ s = 0))
           \/ from = p /\ keep = s /\ pos = 0,
           rawSize' = m, rpos' = pos, size' = s + n, written' = written + n, taken' = t,
           raw' = Put(m, from, keep, pos, s, n)
    PROVE  raw' \in [0 .. rawSize' - 1 -> Int] /\ B!InBounds' /\ B!ContentInOrder' /\ Kept'
<1>1. /\ raw \in [0 .. rawSize - 1 -> Int] /\ rawSize \in Nat /\ written \in Nat
      /\ n \in Nat /\ n >= 1
  BY DEF B!TypeOK
<1>2. raw' \in [0 .. rawSize' - 1 -> Int]
  <2> SUFFICES ASSUME NEW i \in 0 .. m - 1
               PROVE  /\ written + (i - pos - s) \in Int
                      /\ i < keep => raw[from + i] \in Int
                      /\ B!Junk \in Int
    BY DEF Put
  <2>1. written + (i - pos - s) \in Int /\ B!Junk \in Int
    BY <1>1 DEF B!Junk
  <2>2. ASSUME i < keep PROVE from + i \in 0 .. rawSize - 1
    BY <1>1, <2>2
  <2> QED BY <2>1, <2>2, <1>1
<1>3. B!InBounds' /\ Kept'
  BY <1>1 DEF B!InBounds, Kept
<1>4. B!ContentInOrder'
  <2>1. written' = taken' + size'
    BY <1>1
  <2>2. ASSUME NEW i \in 0 .. pos + s + n - 1
        PROVE  raw'[i] = t - pos + i
    <3>1. i \in 0 .. m - 1 /\ i \in Nat /\ i < pos + s + n
      BY <1>1
    <3>2. CASE pos + s <= i
      <4>1. raw'[i] = written + (i - pos - s)
        BY <3>1, <3>2 DEF Put
      <4> QED BY <4>1, <1>1, <3>1
    <3>3. CASE i < pos + s
      <4>1. i < keep
        BY <1>1, <3>1, <3>3
      <4>2. raw'[i] = raw[from + i]
        BY <3>1, <3>3, <4>1 DEF Put
      <4>3. from + i \in 0 .. p + s - 1 /\ t - p + (from + i) = t - pos + i
        BY <1>1, <3>1, <3>3
      <4> QED BY <4>2, <4>3
    <3> QED BY <3>2, <3>3, <3>1
  <2>3. rpos' + size' - 1 = pos + s + n - 1
    BY <1>1
  <2> QED BY <2>1, <2>2, <2>3 DEF B!ContentInOrder
<1> QED BY <1>2, <1>3, <1>4

\* PutAt keeps data() and appends n bytes to it.
LEMMA PutKeepsContent ==
    ASSUME B!BufferAssumption, B!TypeOK, B!InBounds, NEW p \in Nat, NEW s \in Nat, NEW n \in 1 .. Limit,
           NEW t \in Nat,
           p + s <= rawSize, s + n <= Limit, written = t + s, p <= t,
           \A i \in 0 .. p + s - 1 : raw[i] = t - p + i,
           B!PutAt(B!Room(p, s, n), n), taken' = t
    PROVE  /\ rawSize' \in Nat /\ raw' \in [0 .. rawSize' - 1 -> Int]
           /\ rpos' \in Nat /\ size' \in Nat /\ written' \in Nat
           /\ B!InBounds' /\ B!ContentInOrder' /\ Kept'
<1> DEFINE r == B!Room(p, s, n)
<1>1. /\ r.memory \in Nat /\ r.pos \in Nat
      /\ r.len = s
      /\ r.pos + s + n <= r.memory
      /\ r.memory <= 3 * Limit
      /\ \/ r.from = 0 /\ r.keep = rawSize /\ (r.pos = p \/ (r.pos = 0 /\ s = 0))
         \/ r.from = p /\ r.keep = s /\ r.pos = 0
  BY RoomFits DEF B!TypeOK, B!InBounds
<1>2. /\ rawSize' = r.memory
      /\ raw' = Put(r.memory, r.from, r.keep, r.pos, s, n)
      /\ rpos' = r.pos /\ size' = s + n
      /\ written' = written + n
  BY <1>1 DEF B!PutAt, Put
<1> HIDE DEF r
<1>3. /\ Limit \in Nat /\ n \in Nat /\ written \in Nat /\ rawSize \in Nat
  BY DEF B!TypeOK, B!BufferAssumption
<1>4. r.from \in Nat /\ r.keep \in Nat
  BY <1>1, <1>3
<1>5. rawSize' \in Nat /\ rpos' \in Nat /\ size' \in Nat /\ written' \in Nat
  BY <1>1, <1>2, <1>3
<1>6. PICK m \in Nat, from \in Nat, keep \in Nat, pos \in Nat :
         m = r.memory /\ from = r.from /\ keep = r.keep /\ pos = r.pos
  BY <1>1, <1>4, Zenon
<1>7. /\ pos + s + n <= m /\ m <= 3 * Limit
      /\ \/ from = 0 /\ keep = rawSize /\ (pos = p \/ (pos = 0 /\ s = 0))
         \/ from = p /\ keep = s /\ pos = 0
  BY <1>1, <1>6, Zenon
<1>8. /\ rawSize' = m /\ rpos' = pos /\ size' = s + n /\ written' = written + n
      /\ raw' = Put(m, from, keep, pos, s, n)
  BY <1>2, <1>6
<1>9. raw' \in [0 .. rawSize' - 1 -> Int] /\ B!InBounds' /\ B!ContentInOrder' /\ Kept'
  BY <1>3, <1>7, <1>8, Copied
<1> QED BY <1>5, <1>9

-----------------------------------------------------------------------------
\* The operations on the content.
LEMMA ContentBInv ==
    ASSUME B!BufferAssumption, BInv,
           \/ \E n \in 1 .. Limit :
                B!Write(n) \/ B!WriteRepeated(n) \/ B!Read(n) \/ B!ResetByCopy(n) \/ B!ResetByReference(n)
           \/ \E k \in -Limit .. Limit : B!Shift(k)
           \/ B!Clear
    PROVE  BInv'
<1>0. B!TypeOK /\ B!InBounds /\ B!ContentInOrder /\ Kept /\ Limit \in Nat
  BY DEF BInv, B!BufferContent, B!BufferAssumption
<1>1. ASSUME NEW n \in 1 .. Limit, B!Write(n) PROVE BInv'
  <2>1. /\ B!PutAt(B!Room(rpos, size, n), n) /\ size + n <= Limit
        /\ taken' = taken /\ UNCHANGED <<alloced, references, freed, owners, handles>>
    BY <1>1 DEF B!Write, B!references
  <2>2. /\ rawSize' \in Nat /\ raw' \in [0 .. rawSize' - 1 -> Int]
        /\ rpos' \in Nat /\ size' \in Nat /\ written' \in Nat
        /\ B!InBounds' /\ B!ContentInOrder' /\ Kept'
    BY <1>0, <2>1, PutKeepsContent DEF B!TypeOK, B!InBounds, B!ContentInOrder, Kept
  <2> QED BY <1>0, <2>1, <2>2 DEF B!TypeOK, BInv, B!BufferContent
<1>2. ASSUME NEW n \in 1 .. Limit, B!Read(n) PROVE BInv'
  BY <1>0, <1>2 DEF B!Read, B!TypeOK, B!InBounds, B!ContentInOrder, Kept, BInv, B!BufferContent, B!memory, B!references
<1>3. ASSUME NEW k \in -Limit .. Limit, B!Shift(k) PROVE BInv'
  <2>1. /\ rpos' = rpos + k /\ size' = size - k /\ taken' = taken + k
        /\ UNCHANGED <<alloced, raw, rawSize, written, references, freed, owners, handles>>
        /\ k \in Int /\ (k > 0 => k <= size) /\ (k <= 0 => -k <= rpos)
    BY <1>0, <1>3 DEF B!Shift, B!memory, B!references
  <2>2. rpos' \in Nat /\ size' \in Nat /\ rpos' + size' = rpos + size /\ taken' - rpos' = taken - rpos
    BY <1>0, <2>1 DEF B!TypeOK
  <2>3. rpos' <= taken' /\ written' = taken' + size' /\ taken' \in Nat
    <3>1. taken' = written - size'
      BY <1>0, <2>1 DEF B!TypeOK, B!ContentInOrder
    <3>2. taken' >= 0
      BY <1>0, <2>1 DEF B!TypeOK, Kept
    <3>3. taken' \in Int /\ size' \in Nat /\ written' \in Nat
      BY <1>0, <2>1, <2>2 DEF B!TypeOK
    <3>4. rpos' <= taken'
      BY <1>0, <2>1 DEF B!TypeOK, Kept
    <3> QED BY <2>1, <3>1, <3>2, <3>3, <3>4
  <2>4. B!TypeOK' /\ B!InBounds'
    BY <1>0, <2>1, <2>2, <2>3 DEF B!TypeOK, B!InBounds
  <2>5. B!ContentInOrder'
    BY <1>0, <2>1, <2>2, <2>3 DEF B!ContentInOrder, B!TypeOK
  <2> QED BY <2>3, <2>4, <2>5 DEF Kept, BInv, B!BufferContent
<1>4. ASSUME B!Clear PROVE BInv'
  BY <1>0, <1>4 DEF B!Clear, B!TypeOK, B!InBounds, B!ContentInOrder, Kept, BInv, B!BufferContent, B!memory, B!references
<1>5. ASSUME NEW n \in 1 .. Limit, B!ResetByCopy(n) PROVE BInv'
  <2>1. /\ B!PutAt(B!Room(0, 0, n), n) /\ taken' = written
        /\ UNCHANGED <<alloced, references, freed, owners, handles>>
    BY <1>5 DEF B!ResetByCopy, B!references
  <2>2. n <= Limit /\ n \in Nat /\ written \in Nat /\ rawSize \in Nat
    BY <1>0 DEF B!TypeOK
  <2>3. /\ rawSize' \in Nat /\ raw' \in [0 .. rawSize' - 1 -> Int]
        /\ rpos' \in Nat /\ size' \in Nat /\ written' \in Nat
        /\ B!InBounds' /\ B!ContentInOrder' /\ Kept'
    BY <1>0, <2>1, <2>2, PutKeepsContent
  <2> QED BY <1>0, <2>1, <2>2, <2>3 DEF B!TypeOK, BInv, B!BufferContent
<1>6. ASSUME NEW n \in 1 .. Limit, B!ResetByReference(n) PROVE BInv'
  BY <1>0, <1>6 DEF B!ResetByReference, B!TypeOK, B!InBounds, B!ContentInOrder, Kept, BInv, B!BufferContent, B!references
<1> QED BY <1>1, <1>2, <1>3, <1>4, <1>5, <1>6 DEF B!WriteRepeated

\* The operations on references leave the content alone.
ReferenceStep ==
    \/ B!Refer \/ B!Unrefer
    \/ \E h \in Handles :
        B!HandleTakes(h) \/ B!HandleCopied(h) \/ B!HandleAssigned(h) \/ B!HandleDropped(h)

ContentStep ==
    \/ \E n \in 1 .. Limit :
        B!Write(n) \/ B!WriteRepeated(n) \/ B!Read(n) \/ B!ResetByCopy(n) \/ B!ResetByReference(n)
    \/ \E k \in -Limit .. Limit : B!Shift(k)
    \/ B!Clear

\* The instance counts a set as FiniteSets does.
LEMMA SameBufferCount ==
    ASSUME NEW S
    PROVE  /\ B!IsFiniteSet(S) <=> IsFiniteSet(S)
           /\ B!Cardinality(S) = Cardinality(S)
  BY DEF B!IsFiniteSet, IsFiniteSet, B!Cardinality, Cardinality

\* References and handles: their types, the count, and the content untouched.
LEMMA ReferencesKept ==
    ASSUME B!BufferAssumption, B!TypeOK, B!BufferReferences, ReferenceStep
    PROVE  /\ UNCHANGED B!content
           /\ references' \in Nat /\ owners' \in Nat /\ freed' \in BOOLEAN /\ handles' \subseteq Handles
           /\ B!BufferReferences'
<1>0. /\ IsFiniteSet(handles) /\ Cardinality(handles) \in Nat
      /\ references \in Nat /\ owners \in Nat /\ freed \in BOOLEAN /\ handles \subseteq Handles
      /\ references = owners + Cardinality(handles) /\ (freed <=> references = 0)
  BY FS_Subset, FS_CardinalityType, SameBufferCount DEF B!BufferAssumption, B!TypeOK, B!BufferReferences
<1>a. ASSUME NEW h \in Handles, h \notin handles
      PROVE  Cardinality(handles \cup {h}) = Cardinality(handles) + 1
  BY <1>0, <1>a, FS_AddElement
<1>b. ASSUME NEW h \in handles
      PROVE  /\ Cardinality(handles \ {h}) = Cardinality(handles) - 1
             /\ Cardinality(handles) >= 1
  <2>1. Cardinality(handles \ {h}) = Cardinality(handles) - 1
    BY <1>0, FS_RemoveElement
  <2>2. Cardinality(handles \ {h}) \in Nat
    BY <1>0, FS_RemoveElement, FS_CardinalityType
  <2> QED BY <1>0, <2>1, <2>2
<1>1. CASE B!Refer
  BY <1>0, <1>1, SameBufferCount DEF B!Refer, B!Usable, B!BufferReferences
<1>2. CASE B!Unrefer
  <2>1. /\ references' = references - 1 /\ owners' = owners - 1 /\ owners > 0 /\ handles' = handles
        /\ UNCHANGED B!content
    BY <1>2 DEF B!Unrefer, B!Dropped
  <2>2. freed' \in BOOLEAN /\ (freed' <=> references = 1)
    BY <1>2, Zenon DEF B!Unrefer, B!Dropped
  <2>3. references' \in Nat /\ owners' \in Nat /\ references' = owners' + Cardinality(handles')
    BY <1>0, <2>1
  <2>4. references = 1 <=> references' = 0
    BY <1>0, <2>1
  <2> QED BY <1>0, <2>1, <2>2, <2>3, <2>4, Zenon, SameBufferCount DEF B!BufferReferences
<1>3. ASSUME NEW h \in Handles, B!HandleTakes(h) PROVE B!BufferReferences' /\ handles' \subseteq Handles
  BY <1>0, <1>a, <1>3, SameBufferCount DEF B!HandleTakes, B!BufferReferences
<1>4. ASSUME NEW h \in Handles, B!HandleCopied(h) \/ B!HandleAssigned(h)
      PROVE  B!BufferReferences' /\ handles' \subseteq Handles
  BY <1>0, <1>a, <1>4, SameBufferCount DEF B!HandleCopied, B!HandleAssigned, B!BufferReferences
<1>5. ASSUME NEW h \in Handles, B!HandleDropped(h)
      PROVE  B!BufferReferences' /\ handles' \subseteq Handles /\ references' \in Nat
  <2>1. /\ references' = references - 1 /\ h \in handles /\ handles' = handles \ {h} /\ owners' = owners
    BY <1>5 DEF B!HandleDropped, B!Dropped, B!content
  <2>3. freed' <=> references = 1
    BY <1>5, Zenon DEF B!HandleDropped, B!Dropped
  <2>2. Cardinality(handles') = Cardinality(handles) - 1 /\ Cardinality(handles) >= 1
    BY <1>b, <2>1
  <2>4. references' \in Nat /\ references' = owners' + Cardinality(handles') /\ handles' \subseteq Handles
    BY <1>0, <2>1, <2>2
  <2>5. references = 1 <=> references' = 0
    BY <1>0, <2>1
  <2> QED BY <2>3, <2>4, <2>5, Zenon, SameBufferCount DEF B!BufferReferences
<1>6. ASSUME NEW h \in Handles, B!HandleTakes(h) \/ B!HandleCopied(h) \/ B!HandleAssigned(h)
      PROVE  UNCHANGED B!content /\ references' \in Nat /\ owners' \in Nat /\ freed' \in BOOLEAN
  BY <1>0, <1>6 DEF B!HandleTakes, B!HandleCopied, B!HandleAssigned
<1>7. ASSUME NEW h \in Handles, B!HandleDropped(h)
      PROVE  UNCHANGED B!content /\ owners' \in Nat /\ freed' \in BOOLEAN
  BY <1>0, <1>7 DEF B!HandleDropped, B!Dropped
<1> QED BY <1>1, <1>2, <1>3, <1>4, <1>5, <1>6, <1>7 DEF ReferenceStep

\* What the buffer holds, its references and that both are well formed.
BufferInv == BInv /\ B!BufferReferences

LEMMA InitBufferInv ==
    ASSUME B!BufferAssumption, B!Init
    PROVE  BufferInv
<1>1. PICK n \in 0 .. Limit : \E m \in {0, n} :
        /\ rawSize = n /\ size = m /\ written = m
        /\ raw = [i \in 0 .. n - 1 |-> IF i < m THEN i ELSE B!Junk]
        /\ alloced \in BOOLEAN
  BY DEF B!Init
<1>2. rpos = 0 /\ taken = 0 /\ references = 1 /\ freed = FALSE /\ owners = 1 /\ handles = {}
  BY DEF B!Init
<1>3. B!TypeOK
  <2>1. n \in Nat /\ size \in Nat /\ written \in Nat
    BY <1>1 DEF B!BufferAssumption
  <2>2. raw \in [0 .. rawSize - 1 -> Int]
    BY <1>1, <2>1 DEF B!Junk
  <2>3. freed \in BOOLEAN /\ alloced \in BOOLEAN
    BY <1>1, <1>2
  <2> QED BY <1>1, <1>2, <2>1, <2>2, <2>3 DEF B!TypeOK
<1>4. B!InBounds /\ B!ContentInOrder /\ Kept
  BY <1>1, <1>2 DEF B!InBounds, B!ContentInOrder, Kept, B!BufferAssumption
<1>5. B!BufferReferences
  BY <1>2, FS_EmptySet, SameBufferCount DEF B!BufferReferences
<1> QED BY <1>3, <1>4, <1>5 DEF BufferInv, BInv, B!BufferContent

LEMMA NextBufferInv ==
    ASSUME B!BufferAssumption, BufferInv, [B!Next]_B!vars
    PROVE  BufferInv'
<1>0. BInv /\ B!BufferReferences /\ B!TypeOK /\ B!InBounds /\ B!ContentInOrder /\ Kept
  BY DEF BufferInv, BInv, B!BufferContent
<1>1. CASE ContentStep
  <2>1. BInv'
    BY <1>0, <1>1, ContentBInv DEF ContentStep
  <2>2. UNCHANGED <<references, freed, owners, handles>>
    BY <1>1 DEF ContentStep, B!Write, B!WriteRepeated, B!Read, B!ResetByCopy, B!ResetByReference,
                B!Shift, B!Clear, B!references
  <2> QED BY <1>0, <2>1, <2>2 DEF BufferInv, B!BufferReferences
<1>2. CASE ReferenceStep
  <2>1. /\ UNCHANGED B!content
        /\ references' \in Nat /\ owners' \in Nat /\ freed' \in BOOLEAN /\ handles' \subseteq Handles
        /\ B!BufferReferences'
    BY <1>0, <1>2, ReferencesKept
  <2> QED BY <1>0, <2>1 DEF BufferInv, BInv, B!BufferContent, B!TypeOK, B!InBounds, B!ContentInOrder, Kept, B!content
<1>3. CASE UNCHANGED B!vars
  BY <1>0, <1>3 DEF B!vars, BufferInv, BInv, B!BufferContent, B!TypeOK, B!InBounds, B!ContentInOrder, Kept,
                    B!BufferReferences
<1> QED BY <1>1, <1>2, <1>3 DEF B!Next, ContentStep, ReferenceStep

-----------------------------------------------------------------------------
\* The inductive invariant holds in every reachable state.
THEOREM BufferInvariance ==
    ASSUME B!BufferAssumption
    PROVE  B!Spec => []BufferInv
<1>1. B!Init => BufferInv
  BY InitBufferInv
<1>2. BufferInv /\ [B!Next]_B!vars => BufferInv'
  BY NextBufferInv
<1>3. QED BY <1>1, <1>2, PTL DEF B!Spec

\* write, read, shift, clear and reset: the data lies inside the memory, no size
\* wraps, and data() is what was written and not taken (buffer.cpp:103-127).
THEOREM ContentIsKept ==
    ASSUME B!BufferAssumption
    PROVE  B!Spec => []B!BufferContent
<1>1. BufferInv => B!BufferContent
  BY DEF BufferInv, BInv
<1>2. B!Spec => []BufferInv
  BY BufferInvariance
<1>3. QED BY <1>1, <1>2, PTL

\* refer, unrefer and the handles: the buffer is destroyed with its last
\* reference and never earlier (buffer.h:239-277, buffer.cpp:260).
THEOREM DestroyedWithLast ==
    ASSUME B!BufferAssumption
    PROVE  B!Spec => []B!BufferReferences
<1>1. BufferInv => B!BufferReferences
  BY DEF BufferInv
<1>2. B!Spec => []BufferInv
  BY BufferInvariance
<1>3. QED BY <1>1, <1>2, PTL

-----------------------------------------------------------------------------
(* The composition: what M2MQueue_proofs and O2OQueue_proofs show of any   *)
(* ring holds of those that move here.                                     *)

MP == INSTANCE M2MQueue_proofs WITH Producers <- M2MProducers, MaxBlocks <- M2MBlocks,
        MaxPush <- M2MPush, ppc <- mppc, cpc <- mcpc
OP == INSTANCE O2OQueue_proofs WITH MaxBlocks <- O2OBlocks, MaxPush <- O2OPush,
        next <- onext, head <- ohead, tail <- otail, data <- odata,
        blocks <- oblocks, ppc <- oppc, cpc <- ocpc, got <- ogot, slots <- oslots

\* The m2m ring of the composition is the one of the proofs.
LEMMA SameM2MRing ==
    /\ M!QueueAssumption <=> MP!QueueAssumption
    /\ (M!Init <=> MP!Init) /\ (M!Next <=> MP!Next)
    /\ M!TypeOK <=> MP!TypeOK
    /\ M!ClaimsFollowTail <=> MP!ClaimsFollowTail
    /\ M!DeliversClaimed <=> MP!DeliversClaimed
    /\ M!HeadsFresh <=> MP!HeadsFresh
    /\ M!slots = MP!slots
<1>1. M!QueueAssumption <=> MP!QueueAssumption
  BY DEF M!QueueAssumption, MP!QueueAssumption
<1>2. (M!Init <=> MP!Init) /\ (M!Next <=> MP!Next)
  BY DEF M!nodeVars, MP!nodeVars, M!producerVars, MP!producerVars,
         M!consumerVars, MP!consumerVars, M!Null, MP!Null, M!Nodes, MP!Nodes,
         M!Init, MP!Init, M!PGoto, MP!PGoto, M!Pushing, MP!Pushing, M!Claimed,
         MP!Claimed, M!Push, MP!Push, M!LoadHead, MP!LoadHead, M!LoadNext,
         MP!LoadNext, M!TestFull, MP!TestFull, M!CasFails, MP!CasFails,
         M!CasHead, MP!CasHead, M!LockHead, MP!LockHead, M!InsertBlock,
         MP!InsertBlock, M!AllocFails, MP!AllocFails, M!UnlockHead,
         MP!UnlockHead, M!WaitUnready, MP!WaitUnready, M!WriteData,
         MP!WriteData, M!SetReady, MP!SetReady, M!CGoto, MP!CGoto, M!LoadTail,
         MP!LoadTail, M!LoadReadNode, MP!LoadReadNode, M!TestReady,
         MP!TestReady, M!CasTail, MP!CasTail, M!ReadData, MP!ReadData,
         M!SetUnready, MP!SetUnready, M!PushStep, MP!PushStep, M!PopStep,
         MP!PopStep, M!Next, MP!Next
<1>3. M!TypeOK <=> MP!TypeOK
  BY DEF M!TypeOK, MP!TypeOK, M!PPCs, MP!PPCs, M!CPCs, MP!CPCs, M!Nodes,
         MP!Nodes, M!Null, MP!Null, M!Values, MP!Values
<1>4. M!ClaimsFollowTail <=> MP!ClaimsFollowTail
  BY DEF M!ClaimsFollowTail, MP!ClaimsFollowTail, M!NodeAt, MP!NodeAt, M!Turn,
         MP!Turn, M!Null, MP!Null
<1>5. M!DeliversClaimed <=> MP!DeliversClaimed
  BY DEF M!DeliversClaimed, MP!DeliversClaimed
<1>6. M!HeadsFresh <=> MP!HeadsFresh
  BY DEF M!HeadsFresh, MP!HeadsFresh
<1>7. M!slots = MP!slots
  BY DEF M!slots, MP!slots, M!SlotOf, MP!SlotOf
<1> QED BY <1>1, <1>2, <1>3, <1>4, <1>5, <1>6, <1>7

\* The o2o ring of the composition is the one of the proofs.
LEMMA SameRing ==
    /\ O!RingAssumption <=> OP!RingAssumption
    /\ (O!Init <=> OP!Init) /\ (O!Next <=> OP!Next) /\ o2o = OP!vars
    /\ O!TypeOK <=> OP!TypeOK
    /\ O!TakesOldest <=> OP!TakesOldest
<1>1. O!RingAssumption <=> OP!RingAssumption
  BY DEF O!RingAssumption, OP!RingAssumption
<1>2. (O!Init <=> OP!Init) /\ (O!Next <=> OP!Next)
  BY DEF O!Blocks, OP!Blocks, O!ring, OP!ring, O!producer, OP!producer,
         O!consumer, OP!consumer, O!vars, OP!vars, O!Up, OP!Up, O!Init,
         OP!Init, O!Push, OP!Push, O!PushNext, OP!PushNext, O!PushFails, OP!PushFails, O!PushNextHead,
         OP!PushNextHead, O!PushPut, OP!PushPut, O!LastReady, OP!LastReady,
         O!PushTail, OP!PushTail, O!PushBlkTail, OP!PushBlkTail, O!Pop,
         OP!Pop, O!PopOther, OP!PopOther, O!PopAgain, OP!PopAgain, O!PopMoved,
         OP!PopMoved, O!PopTake, OP!PopTake, O!PopHead, OP!PopHead,
         O!PushStep, OP!PushStep, O!PopStep, OP!PopStep, O!Next, OP!Next
<1>3. o2o = OP!vars
  BY DEF o2o, OP!vars
<1>4. O!TypeOK <=> OP!TypeOK
  BY DEF O!TypeOK, OP!TypeOK, O!Positions, OP!Positions, O!Unseen, OP!Unseen,
         O!Entering, OP!Entering, O!Blocks, OP!Blocks, O!Values, OP!Values
<1>5. O!TakesOldest <=> OP!TakesOldest
  BY DEF O!TakesOldest, OP!TakesOldest
<1> QED BY <1>1, <1>2, <1>3, <1>4, <1>5

\* A step of the composition is a step of each class, or leaves it alone.
LEMMA PartSteps ==
    ASSUME [MCNext]_<<part, vars, freelock, m2m, o2o, buffer>>
    PROVE  /\ [Next]_vars /\ [F!Next]_F!vars
           /\ [MP!Next]_MP!vars /\ [OP!Next]_OP!vars /\ [B!Next]_B!vars
<1>1. [Next]_vars
  BY DEF MCNext
<1>2. F!Next \/ UNCHANGED freelock
  BY DEF MCNext
<1>3. B!Next \/ UNCHANGED buffer
  BY DEF MCNext
<1>4. [F!Next]_F!vars
  BY <1>2 DEF freelock, F!vars
<1>5. [B!Next]_B!vars
  BY <1>3 DEF buffer, B!vars
<1>6. O!Next \/ UNCHANGED o2o
  BY DEF MCNext
<1>7. [OP!Next]_OP!vars
  <2>1. UNCHANGED o2o => UNCHANGED OP!vars
    BY DEF o2o, OP!vars
  <2> QED BY <1>6, <2>1, SameRing
<1>8. M!Next \/ UNCHANGED m2m
  BY DEF MCNext
<1>9. [MP!Next]_MP!vars
  <2>1. UNCHANGED m2m => UNCHANGED MP!vars
    BY DEF m2m, MP!vars
  <2> QED BY <1>8, <2>1, SameM2MRing
<1> QED BY <1>1, <1>4, <1>5, <1>7, <1>9

\* Beside the other classes too, the semaphore keeps its invariant.
THEOREM SemaphoreStaysRight == MCSpec => []IInv
<1>1. MCInit => Init
  BY DEF MCInit
<1>2. [MCNext]_<<part, vars, freelock, m2m, o2o, buffer>> => [Next]_vars
  BY PartSteps
<1> QED BY <1>1, <1>2, Invariance, PTL DEF MCSpec, Spec

\* enqueue and dequeue: one permit for every element that is not being handled,
\* for any number of producers and elements (freelock_queue.h).
THEOREM FreelockStaysRight == MCSpec => []FreelockInv
<1>1. MCInit => F!FreelockInv
  BY MCAssumption, InitFreelock DEF MCInit, MCAssumption
<1>2. F!FreelockInv /\ [MCNext]_<<part, vars, freelock, m2m, o2o, buffer>> => F!FreelockInv'
  BY PartSteps, MCAssumption, NextFreelock DEF MCAssumption
<1>3. F!FreelockInv => FreelockInv
  BY DEF FreelockInv
<1> QED BY <1>1, <1>2, <1>3, PTL DEF MCSpec

\* A dequeue that holds a permit never spins on an empty queue
\* (freelock_queue.h: dequeue).
THEOREM DequeueHasSlot == MCSpec => []PopFindsSlot
<1>1. MCInit => F!FreelockInv
  BY MCAssumption, InitFreelock DEF MCInit, MCAssumption
<1>2. F!FreelockInv /\ [MCNext]_<<part, vars, freelock, m2m, o2o, buffer>> => F!FreelockInv'
  BY PartSteps, MCAssumption, NextFreelock DEF MCAssumption
<1>3. F!FreelockInv => PopFindsSlot
  BY MCAssumption, InvFindsSlot DEF PopFindsSlot, MCAssumption
<1> QED BY <1>1, <1>2, <1>3, PTL DEF MCSpec

\* With one consumer the m2m ring keeps its order while it grows, for blocks of any
\* size and any number of producers, as long as head_ does not come back to the
\* node that a push has looked at before the push's compare-and-swap
\* (freelock_m2m_queue.h: push, __extend_list, pop).
THEOREM M2MRingKeepsOrder ==
    ASSUME \A c, d \in Consumers : c = d
    PROVE  MCSpec /\ []M!HeadsFresh => M2MKeepsOrder
<1>0. MP!QueueAssumption /\ MP!OneConsumer
  BY MCAssumption, SameM2MRing DEF MCAssumption, MP!OneConsumer
<1>1. MCInit => MP!QueueInv /\ M!Slots!Init
  BY <1>0, SameM2MRing, MP!InitQueueInv DEF MCInit, M!Init, M!Slots!Init, M!slots
<1>2. MP!QueueInv /\ M!HeadsFresh /\ [MCNext]_<<part, vars, freelock, m2m, o2o, buffer>>
        => MP!QueueInv'
  BY <1>0, PartSteps, SameM2MRing, MP!NextQueueInv
<1>3. MP!QueueInv /\ M!HeadsFresh /\ [MCNext]_<<part, vars, freelock, m2m, o2o, buffer>>
        => [M!Slots!Next]_M!slots
  <2>1. MP!QueueInv /\ M!HeadsFresh /\ [MCNext]_<<part, vars, freelock, m2m, o2o, buffer>>
          => [MP!Slots!Next]_MP!slots
    BY <1>0, PartSteps, SameM2MRing, MP!QueueStepIsSlotStep
  <2>2. [MP!Slots!Next]_MP!slots => [M!Slots!Next]_M!slots
    BY DEF M!Slots!Next, MP!Slots!Next, M!Slots!Claim, MP!Slots!Claim, M!Slots!Fill,
           MP!Slots!Fill, M!Slots!Pop, MP!Slots!Pop, M!Slots!CanPop, MP!Slots!CanPop,
           M!Values, MP!Values, M!slots, MP!slots, M!SlotOf, MP!SlotOf
  <2> QED BY <2>1, <2>2
<1>4. MP!QueueInv => M!TypeOK /\ M!ClaimsFollowTail /\ M!DeliversClaimed
  BY SameM2MRing, MP!QueueKeepsOrder
<1> QED
  BY <1>1, <1>2, <1>3, <1>4, PTL
     DEF MCSpec, M2MKeepsOrder, M!ImplementsSlotQueue, M!Slots!Spec

\* With one producer as well nothing else is needed: what the push has looked at
\* stays as it was (freelock_m2m_queue.h: push).
THEOREM M2MOneProducerKeepsOrder ==
    ASSUME \A c, d \in Consumers : c = d, \A p, q \in M2MProducers : p = q
    PROVE  MCSpec => M2MKeepsOrder
<1>0. MP!QueueAssumption /\ MP!OneConsumer /\ MP!OneProducer
  BY MCAssumption, SameM2MRing DEF MCAssumption, MP!OneConsumer, MP!OneProducer
<1>1. MCInit => MP!QueueInv /\ MP!ProducerOk
  BY <1>0, SameM2MRing, MP!InitProducerOk DEF MCInit
<1>2. MP!QueueInv /\ MP!ProducerOk /\ [MCNext]_<<part, vars, freelock, m2m, o2o, buffer>>
        => MP!QueueInv' /\ MP!ProducerOk'
  BY <1>0, PartSteps, SameM2MRing, MP!NextProducerOk
<1>3. MP!ProducerOk => M!HeadsFresh
  BY SameM2MRing, MP!ProducerIsFresh
<1>4. MCSpec => []M!HeadsFresh
  BY <1>1, <1>2, <1>3, PTL DEF MCSpec
<1>5. MCSpec /\ []M!HeadsFresh => M2MKeepsOrder
  BY M2MRingKeepsOrder
<1> QED BY <1>4, <1>5

\* The o2o ring returns the oldest element whatever the copies of the positions
\* say, and is a queue of slots filled and popped in order, for blocks of any
\* size (freelock_o2o_queue.h: push, pop).
THEOREM O2ORingKeepsOrder == MCSpec => O2OKeepsOrder
<1>1. MCInit => OP!RingInv /\ O!Slots!Init
  BY SameRing, MCAssumption, OP!InitRingInv DEF MCInit, MCAssumption, O!Init, O!Slots!Init
<1>2. OP!RingInv /\ [MCNext]_<<part, vars, freelock, m2m, o2o, buffer>> => OP!RingInv'
  BY PartSteps, SameRing, MCAssumption, OP!NextRingInv DEF MCAssumption
<1>3. OP!RingInv /\ [MCNext]_<<part, vars, freelock, m2m, o2o, buffer>>
        => [O!Slots!Next]_oslots
  <2>1. OP!RingInv /\ [MCNext]_<<part, vars, freelock, m2m, o2o, buffer>>
          => [OP!Slots!Next]_oslots
    BY PartSteps, SameRing, MCAssumption, OP!RingStepIsSlotStep DEF MCAssumption
  <2>2. [OP!Slots!Next]_oslots => [O!Slots!Next]_oslots
    BY DEF O!Slots!Next, OP!Slots!Next, O!Slots!Claim, OP!Slots!Claim, O!Slots!Fill,
           OP!Slots!Fill, O!Slots!Pop, OP!Slots!Pop, O!Slots!CanPop, OP!Slots!CanPop,
           O!Values, OP!Values
  <2> QED BY <2>1, <2>2
<1>4. OP!RingInv => O!TypeOK /\ O!TakesOldest
  BY SameRing, MCAssumption, OP!RingTakesOldest DEF MCAssumption
<1> QED
  BY <1>1, <1>2, <1>3, <1>4, PTL
     DEF MCSpec, O2OKeepsOrder, O!ImplementsSlotQueue, O!Slots!Spec

\* A buffer's data lies inside its memory and is what was written and not yet
\* taken, in order, for buffers of any size (buffer.cpp).
THEOREM BufferKeepsContent == MCSpec => []BufferContent
<1>1. MCInit => BufferInv
  BY MCAssumption, InitBufferInv DEF MCInit, MCAssumption
<1>2. BufferInv /\ [MCNext]_<<part, vars, freelock, m2m, o2o, buffer>> => BufferInv'
  BY PartSteps, MCAssumption, NextBufferInv DEF MCAssumption
<1>3. BufferInv => BufferContent
  BY DEF BufferContent, BufferInv, BInv
<1> QED BY <1>1, <1>2, <1>3, PTL DEF MCSpec

\* A buffer is destroyed with its last reference and never earlier, whatever
\* the handles do (buffer.cpp, buffer.h).
THEOREM BufferKeepsReferences == MCSpec => []BufferReferences
<1>1. MCInit => BufferInv
  BY MCAssumption, InitBufferInv DEF MCInit, MCAssumption
<1>2. BufferInv /\ [MCNext]_<<part, vars, freelock, m2m, o2o, buffer>> => BufferInv'
  BY PartSteps, MCAssumption, NextBufferInv DEF MCAssumption
<1>3. BufferInv => BufferReferences
  BY DEF BufferReferences, BufferInv
<1> QED BY <1>1, <1>2, <1>3, PTL DEF MCSpec
=============================================================================
