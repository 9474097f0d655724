----------------------------- MODULE Leadership -----------------------------
(* What the browser tabs agree on: at most one of them holds the delivery    *)
(* of OS alerts, and it passes to another only through nobody.               *)
CONSTANT Id

VARIABLE held   \* whoever holds it, as a set

Init == held = {}

Gain == held = {} /\ \E i \in Id : held' = {i}
Lose == held # {} /\ held' = {}

Next == Gain \/ Lose

Spec == Init /\ [][Next]_held
=============================================================================
