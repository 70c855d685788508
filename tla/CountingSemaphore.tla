------------------------- MODULE CountingSemaphore -------------------------
(***************************************************************************)
(* What the semaphores of pump/toolkit/semaphore.h promise their callers:  *)
(* a number of permits that signal raises and a successful wait lowers,    *)
(* never below zero.                                                       *)
(***************************************************************************)
EXTENDS Integers

CONSTANTS InitCount, MaxBatch

VARIABLE permits

Init == permits = InitCount

Release(n) == permits' = permits + n

Acquire == permits > 0 /\ permits' = permits - 1

Next == Acquire \/ \E n \in 1 .. MaxBatch : Release(n)

Spec == Init /\ [][Next]_permits
=============================================================================
