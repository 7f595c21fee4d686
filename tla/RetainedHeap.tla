---------------------------- MODULE RetainedHeap ----------------------------
(***************************************************************************)
(* What retained-heap profiling promises about one address at a time.  An  *)
(* allocation owns an address from libc_malloc to libc_free; between its   *)
(* return from the allocator and the call of moonbit_free the program uses *)
(* it.  The profile tracks an address only before the program gets it and  *)
(* forgets it only after the program has given it back, and, while the     *)
(* recording lasts, an address is released only when it is not tracked.    *)
(* So no interleaving makes the profile name an owner the address has lost.*)
(***************************************************************************)
EXTENDS Naturals

CONSTANTS Ptrs,      \* the addresses
          MaxAllocs  \* the allocations are numbered 1..MaxAllocs

VARIABLES
    phase,   \* before, during or after the recording
    owner,   \* the allocation that owns each address, 0 if none
    used,    \* the addresses in the hands of the program
    tracked  \* the allocation the profile has at each address, 0 if none

rhVars == <<phase, owner, used, tracked>>

RHInit ==
    /\ phase = "before"
    /\ owner = [p \in Ptrs |-> 0]
    /\ used = {}
    /\ tracked = [p \in Ptrs |-> 0]

Begin ==
    /\ phase = "before"
    /\ phase' \in {"during", "after"}
    /\ UNCHANGED <<owner, used, tracked>>

End ==
    /\ phase = "during"
    /\ phase' = "after"
    /\ UNCHANGED <<owner, used, tracked>>

\* libc_malloc returns a free address to an allocation never seen before.
Acquire(p, g) ==
    /\ owner[p] = 0
    /\ \A q \in Ptrs : owner[q] < g /\ tracked[q] < g
    /\ owner' = [owner EXCEPT ![p] = g]
    /\ UNCHANGED <<phase, used, tracked>>

\* The profile learns of an owned address that the program does not have yet.
Track(p) ==
    /\ phase = "during"
    /\ owner[p] # 0 /\ p \notin used /\ tracked[p] = 0
    /\ tracked' = [tracked EXCEPT ![p] = owner[p]]
    /\ UNCHANGED <<phase, owner, used>>

Use(p) ==
    /\ owner[p] # 0 /\ p \notin used
    /\ used' = used \cup {p}
    /\ UNCHANGED <<phase, owner, tracked>>

Retire(p) ==
    /\ p \in used
    /\ used' = used \ {p}
    /\ UNCHANGED <<phase, owner, tracked>>

\* The profile forgets an owned address that the program has given back.
Untrack(p) ==
    /\ phase = "during"
    /\ owner[p] # 0 /\ p \notin used
    /\ tracked' = [tracked EXCEPT ![p] = 0]
    /\ UNCHANGED <<phase, owner, used>>

Release(p) ==
    /\ owner[p] # 0 /\ p \notin used
    /\ phase = "during" => tracked[p] = 0
    /\ owner' = [owner EXCEPT ![p] = 0]
    /\ UNCHANGED <<phase, used, tracked>>

RHNext ==
    \/ Begin \/ End
    \/ \E p \in Ptrs :
          \/ \E g \in 1..MaxAllocs : Acquire(p, g)
          \/ Track(p) \/ Use(p) \/ Retire(p) \/ Untrack(p) \/ Release(p)

RHSpec == RHInit /\ [][RHNext]_rhVars

-----------------------------------------------------------------------------
\* During the recording, the profile names the true owner of each address.
TrueOwner == phase = "during" => \A p \in Ptrs : tracked[p] # 0 => owner[p] = tracked[p]

RHInv ==
    /\ owner \in [Ptrs -> Nat] /\ tracked \in [Ptrs -> Nat]
    /\ phase = "before" => tracked = [p \in Ptrs |-> 0]
    /\ TrueOwner
=============================================================================
