--------------------------- MODULE LightSemaphore ---------------------------
(***************************************************************************)
(* The light_semaphore of pump/toolkit/semaphore.h: an atomic counter in   *)
(* front of a kernel semaphore.  A positive count_ is permits anyone may   *)
(* take without a system call; a negative count_ is sleepers that signal   *)
(* has not yet released.  A sleeper that times out must give its place     *)
(* back unless a signal has meanwhile been sent for it.                    *)
(*                                                                         *)
(* One step of a thread is one atomic operation of the code: a load, a     *)
(* compare-and-swap, a fetch_add or one call of the kernel semaphore.      *)
(* Atomics are taken as sequentially consistent.                           *)
(***************************************************************************)
EXTENDS Integers, FiniteSets

CONSTANTS Waiters,    \* threads that wait
          Signalers,  \* threads that signal
          InitCount,  \* init_count of the constructor
          MaxSpin,    \* max_spin_
          MaxBatch,   \* largest argument of signal
          MaxSignals, \* bound: total number of permits ever signalled
          NsPerSec    \* nanoseconds in a second, scaled down for TLC

ASSUME SemaphoreAssumption ==
    /\ IsFiniteSet(Waiters) /\ IsFiniteSet(Signalers)
    /\ InitCount \in Nat
    /\ MaxSpin \in Nat
    /\ MaxBatch \in Nat /\ MaxSignals \in Nat
    /\ NsPerSec \in Nat \ {0}

VARIABLES count,     \* count_
          sema,      \* value of the kernel semaphore semaphone_
          pc,        \* control state of each waiter
          mode,      \* which wait a waiter called: "try", "forever", "timed"
          old,       \* the local old_count of each waiter
          spin,      \* the local spin of __wait_with_spinning
          nsec,      \* ts.tv_nsec handed to sem_timedwait
          torel,     \* posts each signaller still owes the kernel semaphore
          signalled, \* history: permits added by signal
          acquired   \* history: waits that returned true

waiterVars == <<pc, mode, old, spin, nsec>>
vars == <<count, sema, pc, mode, old, spin, nsec, torel, signalled, acquired>>

Modes == {"try", "forever", "timed"}

\* Control states in which a thread has taken a place among the sleepers:
\* count_ is decremented for it and it has neither returned nor undone that.
Asleep == {"sem_wait", "sem_timedwait", "readjust_load", "readjust"}
PCs == {"idle", "try_load", "try_cas", "spin_load", "spin_cas", "fetch_sub"}
           \cup Asleep

Init ==
    /\ count = InitCount
    /\ sema = 0
    /\ pc = [w \in Waiters |-> "idle"]
    /\ mode = [w \in Waiters |-> "try"]
    /\ old = [w \in Waiters |-> 0]
    /\ spin = [w \in Waiters |-> 0]
    /\ nsec = [w \in Waiters |-> 0]
    /\ torel = [s \in Signalers |-> 0]
    /\ signalled = 0
    /\ acquired = 0

-----------------------------------------------------------------------------
(* The waiting side.                                                       *)

\* A wait that ends resets its locals: they go out of scope.
Return(w) ==
    /\ pc' = [pc EXCEPT ![w] = "idle"]
    /\ old' = [old EXCEPT ![w] = 0]
    /\ spin' = [spin EXCEPT ![w] = 0]
    /\ nsec' = [nsec EXCEPT ![w] = 0]
    /\ mode' = [mode EXCEPT ![w] = "try"]

ReturnTrue(w) == Return(w) /\ acquired' = acquired + 1
ReturnFalse(w) == Return(w) /\ UNCHANGED acquired

Goto(w, l) == pc' = [pc EXCEPT ![w] = l]

\* try_wait(), wait() or wait(timeout_ns) is called.
Wait(w, m) ==
    /\ pc[w] = "idle"
    /\ Goto(w, "try_load")
    /\ mode' = [mode EXCEPT ![w] = m]
    /\ UNCHANGED <<count, sema, old, spin, nsec, torel, signalled, acquired>>

\* try_wait found no permit: wait() goes on to spin.  (Locals that are dead
\* are zeroed throughout.)
TryFails(w) ==
    IF mode[w] = "try"
    THEN ReturnFalse(w)
    ELSE /\ Goto(w, IF MaxSpin = 0 THEN "fetch_sub" ELSE "spin_load")
         /\ old' = [old EXCEPT ![w] = 0]
         /\ spin' = [spin EXCEPT ![w] = MaxSpin]
         /\ UNCHANGED <<mode, nsec, acquired>>

TryLoad(w) ==
    /\ pc[w] = "try_load"
    /\ \/ /\ count > 0
          /\ Goto(w, "try_cas")
          /\ old' = [old EXCEPT ![w] = count]
          /\ UNCHANGED <<mode, spin, nsec, acquired>>
       \/ count <= 0 /\ TryFails(w)
    /\ UNCHANGED <<count, sema, torel, signalled>>

\* A failed compare_exchange reloads old_count; the loop goes on while it is
\* positive.  (A spurious failure of the weak form changes nothing.)
TryCas(w) ==
    /\ pc[w] = "try_cas"
    /\ \/ /\ count = old[w]
          /\ count' = count - 1
          /\ ReturnTrue(w)
       \/ /\ count # old[w] /\ count > 0
          /\ old' = [old EXCEPT ![w] = count]
          /\ UNCHANGED <<count, pc, mode, spin, nsec, acquired>>
       \/ /\ count # old[w] /\ count <= 0
          /\ TryFails(w)
          /\ UNCHANGED count
    /\ UNCHANGED <<sema, torel, signalled>>

\* One round of the spin loop has failed with spin counting down.
SpinAgain(w) ==
    /\ spin' = [spin EXCEPT ![w] = @ - 1]
    /\ old' = [old EXCEPT ![w] = 0]
    /\ Goto(w, IF spin[w] = 1 THEN "fetch_sub" ELSE "spin_load")

SpinLoad(w) ==
    /\ pc[w] = "spin_load"
    /\ \/ /\ count > 0
          /\ Goto(w, "spin_cas")
          /\ old' = [old EXCEPT ![w] = count]
          /\ UNCHANGED spin
       \/ count <= 0 /\ SpinAgain(w)
    /\ UNCHANGED <<count, sema, mode, nsec, torel, signalled, acquired>>

SpinCas(w) ==
    /\ pc[w] = "spin_cas"
    /\ \/ /\ count = old[w]
          /\ count' = count - 1
          /\ ReturnTrue(w)
       \/ /\ count # old[w]
          /\ SpinAgain(w)
          /\ UNCHANGED <<count, mode, nsec, acquired>>
    /\ UNCHANGED <<sema, torel, signalled>>

\* The decrement either takes a permit or joins the sleepers.  A timed wait
\* computes tv_nsec as the sum of two numbers below a second, and nothing
\* carries the excess into tv_sec: the lines that did are commented out.
FetchSub(w) ==
    /\ pc[w] = "fetch_sub"
    /\ count' = count - 1
    /\ \/ count > 0 /\ ReturnTrue(w)
       \/ /\ count <= 0 /\ mode[w] = "forever"
          /\ Goto(w, "sem_wait")
          /\ UNCHANGED <<mode, old, spin, nsec, acquired>>
       \/ /\ count <= 0 /\ mode[w] = "timed"
          /\ Goto(w, "sem_timedwait")
          /\ \E now, timeout \in 0 .. NsPerSec - 1 :
                nsec' = [nsec EXCEPT ![w] = now + timeout]
          /\ UNCHANGED <<mode, old, spin, acquired>>
    /\ UNCHANGED <<sema, torel, signalled>>

SemWait(w) ==
    /\ pc[w] = "sem_wait"
    /\ sema > 0
    /\ sema' = sema - 1
    /\ ReturnTrue(w)
    /\ UNCHANGED <<count, torel, signalled>>

\* sem_timedwait takes a permit; with tv_nsec out of range it is EINVAL.
TimedWaitOk(w) ==
    /\ pc[w] = "sem_timedwait"
    /\ nsec[w] < NsPerSec
    /\ sema > 0
    /\ sema' = sema - 1
    /\ ReturnTrue(w)
    /\ UNCHANGED <<count, torel, signalled>>

\* It times out (possibly as a post arrives), or fails with EINVAL: both are
\* false for wait_with_timeout.
TimedWaitFails(w) ==
    /\ pc[w] = "sem_timedwait"
    /\ Goto(w, "readjust_load")
    /\ nsec' = [nsec EXCEPT ![w] = 0]
    /\ UNCHANGED <<count, sema, mode, old, spin, torel, signalled, acquired>>

ReadjustLoad(w) ==
    /\ pc[w] = "readjust_load"
    /\ Goto(w, "readjust")
    /\ old' = [old EXCEPT ![w] = count]
    /\ UNCHANGED <<count, sema, mode, spin, nsec, torel, signalled, acquired>>

\* A count that is not negative says a post was sent for every sleeper.
TakePost(w) ==
    /\ old[w] >= 0 /\ sema > 0
    /\ sema' = sema - 1
    /\ ReturnTrue(w)
    /\ UNCHANGED count

\* Mutant: count_ is raised without comparing it with the value loaded.
GiveBackBlindly(w) ==
    /\ old[w] < 0
    /\ count' = count + 1
    /\ ReturnFalse(w)
    /\ UNCHANGED sema

\* A negative one is raised again: the sleeper leaves.
GiveBack(w) ==
    /\ old[w] < 0 /\ count = old[w]
    /\ count' = count + 1
    /\ ReturnFalse(w)
    /\ UNCHANGED sema

ReadjustAgain(w) ==
    /\ \/ old[w] >= 0 /\ sema = 0
       \/ old[w] < 0 /\ count # old[w]
    /\ Goto(w, "readjust_load")
    /\ old' = [old EXCEPT ![w] = 0]
    /\ UNCHANGED <<count, sema, mode, spin, nsec, acquired>>

Readjust(w) ==
    /\ pc[w] = "readjust"
    /\ TakePost(w) \/ GiveBack(w) \/ ReadjustAgain(w)
    /\ UNCHANGED <<torel, signalled>>

-----------------------------------------------------------------------------
(* The signalling side.                                                    *)

\* Mutants: a post for every permit, an off-by-one.
ToReleaseAll(c, n) == n
ToReleaseShort(c, n) == IF c < 0 THEN (IF -c < n THEN -c ELSE n) - 1 ELSE 0

\* How many sleepers signal(n) must release when it found c in count_.
ToRelease(c, n) ==
    LET owed == IF -c < n THEN -c ELSE n
    IN  IF owed > 0 THEN owed ELSE 0

Signal(s, n) ==
    /\ torel[s] = 0
    /\ signalled + n <= MaxSignals
    /\ count' = count + n
    /\ torel' = [torel EXCEPT ![s] = ToRelease(count, n)]
    /\ signalled' = signalled + n
    /\ UNCHANGED <<sema, waiterVars, acquired>>

\* One sem_post of semaphore::signal(to_release).
Post(s) ==
    /\ torel[s] > 0
    /\ sema' = sema + 1
    /\ torel' = [torel EXCEPT ![s] = @ - 1]
    /\ UNCHANGED <<count, waiterVars, signalled, acquired>>

-----------------------------------------------------------------------------
\* What a waiter that has called a wait does next.
WaiterStep(w) ==
    \/ TryLoad(w) \/ TryCas(w) \/ SpinLoad(w) \/ SpinCas(w) \/ FetchSub(w)
    \/ SemWait(w) \/ TimedWaitOk(w) \/ TimedWaitFails(w)
    \/ ReadjustLoad(w) \/ Readjust(w)

Next ==
    \/ \E w \in Waiters : (\E m \in Modes : Wait(w, m)) \/ WaiterStep(w)
    \/ \E s \in Signalers : (\E n \in 1 .. MaxBatch : Signal(s, n)) \/ Post(s)

Spec == Init /\ [][Next]_vars

\* A thread inside wait or signal keeps running; nobody has to call either.
\* A thread that finds the kernel semaphore up again and again takes it some
\* time: it does not time out just as each post arrives, for ever.
Fairness ==
    /\ \A w \in Waiters : WF_vars(WaiterStep(w))
    /\ \A w \in Waiters : SF_vars(SemWait(w) \/ TimedWaitOk(w))
    /\ \A s \in Signalers : WF_vars(Post(s))

FairSpec == Spec /\ Fairness

-----------------------------------------------------------------------------
(* Properties.                                                             *)

\* Every variable has the shape the code gives it.
TypeOK ==
    /\ count \in Int
    /\ sema \in Nat
    /\ pc \in [Waiters -> PCs]
    /\ mode \in [Waiters -> Modes]
    /\ old \in [Waiters -> Int]
    /\ spin \in [Waiters -> Nat]
    /\ nsec \in [Waiters -> Nat]
    /\ torel \in [Signalers -> 0 .. MaxBatch]
    /\ signalled \in Nat
    /\ acquired \in Nat

Sleepers == {w \in Waiters : pc[w] \in Asleep}
\* The posts that signallers owe, one token each.
Posts == {t \in Signalers \X (1 .. MaxBatch) : t[2] <= torel[t[1]]}

\* Permits handed out but not yet taken by anybody.
Permits == InitCount + signalled - acquired

Counting == INSTANCE CountingSemaphore WITH permits <- Permits

\* The counter accounts for every sleeper: a negative count_ is exactly the
\* sleepers no post has been sent or is about to be sent for, and with a
\* count_ that is not negative there is one post for each of them.
SleepersAccounted ==
    Cardinality(Sleepers) =
        sema + Cardinality(Posts) + (IF count < 0 THEN -count ELSE 0)

\* No permit is created or lost: those not yet taken are the free ones in
\* count_, the posts made and the posts owed.  (signal, __wait_with_spinning
\* and its readjustment after a timeout.)
PermitsConserved ==
    Permits = (IF count > 0 THEN count ELSE 0) + sema + Cardinality(Posts)

\* Wait and signal together are a counting semaphore: a wait that returns
\* true takes one permit, signal(n) adds n, everything else is internal.
ImplementsCounting == Counting!Spec

\* The locals are what the loops that use them rely on.
LocalsInv ==
    \A w \in Waiters :
        /\ pc[w] \in {"try_cas", "spin_cas"} => old[w] > 0
        /\ pc[w] \in {"spin_load", "spin_cas"} => spin[w] > 0

\* The inductive invariant: what wait, its readjustment and signal together
\* keep true of count_, the kernel semaphore, the sleepers and the locals.
IInv == TypeOK /\ LocalsInv /\ SleepersAccounted /\ PermitsConserved

\* A wait never sleeps while a permit is left and nothing is on its way to
\* wake it: the lost wakeup of a counter tested outside the kernel.
NoLostWakeup ==
    (Sleepers # {} /\ sema = 0 /\ Posts = {}) => Permits = 0

\* Sleepers and permits do not coexist for ever.
WakeupDelivered == []<>~(Sleepers # {} /\ Permits > 0)

\* "sem_timedwait bombs if you have more than 1e9 in tv_nsec so we have to
\* clean things up before passing it in".
DeadlineNormalised ==
    \A w \in Waiters : pc[w] = "sem_timedwait" => nsec[w] < NsPerSec
=============================================================================
