----------------------------- MODULE SlotQueue -----------------------------
(***************************************************************************)
(* What the queues of pump/toolkit promise one consumer: elements come out *)
(* in the order their slots were claimed, each once.  A slot is claimed    *)
(* first and filled later, so an element behind a slot that is still being *)
(* filled cannot be popped yet.  freelock_m2m_queue and freelock_o2o_queue *)
(* implement this specification, and the components that use a queue are   *)
(* composed with it.                                                       *)
(***************************************************************************)
EXTENDS Sequences, Naturals

CONSTANT Values

VARIABLE slots  \* the claimed slots, oldest first: the value, and is it there

Init == slots = <<>>

Claim(v) == slots' = Append(slots, [val |-> v, ready |-> FALSE])

Fill(i) ==
    /\ ~slots[i].ready
    /\ slots' = [slots EXCEPT ![i].ready = TRUE]

\* pop(): false unless the oldest slot is filled.
CanPop == slots # <<>> /\ Head(slots).ready
Pop == CanPop /\ slots' = Tail(slots)

Next ==
    \/ \E v \in Values : Claim(v)
    \/ \E i \in DOMAIN slots : Fill(i)
    \/ Pop

Spec == Init /\ [][Next]_slots
=============================================================================
