------------------------------ MODULE Custody ------------------------------
(***************************************************************************)
(* What the collector promises about the records it takes: a record it     *)
(* holds in memory leaves memory only by being stored, or with all others  *)
(* when the process ends, and a record that was stored stays stored.       *)
(***************************************************************************)
CONSTANT Item

VARIABLES
    held,      \* records in the memory of the process
    stored,    \* records that outlive it
    lost       \* records that a process took with it

vars == <<held, stored, lost>>

Init == held = {} /\ stored = {} /\ lost = {}

Take(r) == held' = held \cup {r} /\ UNCHANGED <<stored, lost>>

(* A producer that sent r twice may have a second copy of it in memory. *)
Store(r) ==
    /\ r \in held
    /\ stored' = stored \cup {r}
    /\ held' \in {held, held \ {r}}
    /\ UNCHANGED lost

End ==
    /\ lost' = lost \cup (held \ stored)
    /\ held' = {}
    /\ UNCHANGED stored

Next == (\E r \in Item : Take(r) \/ Store(r)) \/ End

Spec == Init /\ [][Next]_vars
=============================================================================
