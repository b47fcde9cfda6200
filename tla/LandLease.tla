------------------------------- MODULE LandLease -------------------------------
(***************************************************************************)
(* What the landing lock promises (scripts/lib/land/lock.ts, ADR-0033      *)
(* decision 1): a lease that at most one landing of the machine has, given *)
(* back by release or by the end of the process that has it.               *)
(***************************************************************************)
CONSTANT Landing
VARIABLE holder   \* the set of landings that have the lease

Init == holder = {}

Acquire(l) == holder = {} /\ holder' = {l}
Leave(l) == holder = {l} /\ holder' = {}

Next == \E l \in Landing : Acquire(l) \/ Leave(l)

Spec == Init /\ [][Next]_holder
=============================================================================
