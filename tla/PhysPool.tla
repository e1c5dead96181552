------------------------------ MODULE PhysPool ------------------------------
(***************************************************************************)
(* What the physical page allocator promises its callers, without the      *)
(* linked list and the reference counts that implement it: a page that has *)
(* been classified is either free or busy, an allocation returns a page    *)
(* that was free and makes it busy, it returns nothing only when no page   *)
(* is free, and a page becomes free again only when its user lets it go.   *)
(* Pages of the set Forbidden are never handed out.                        *)
(***************************************************************************)
CONSTANTS Page, NULL, Forbidden

VARIABLES
    free,       \* pages an allocation may return
    busy,       \* pages in use: reserved at boot, or handed out
    returned    \* what the last allocation returned

vars == <<free, busy, returned>>

Init ==
    /\ free = {}
    /\ busy \in SUBSET Page
    /\ returned = NULL

(* Boot finds out what a page is used for. *)
Classify ==
    \E p \in Page \ (free \cup busy) :
        \/ /\ free' = free \cup {p}
           /\ p \notin Forbidden
           /\ UNCHANGED <<busy, returned>>
        \/ /\ busy' = busy \cup {p}
           /\ UNCHANGED <<free, returned>>

Allocate ==
    \E p \in free :
        /\ free' = free \ {p}
        /\ busy' = busy \cup {p}
        /\ returned' = p

AllocateFails ==
    /\ free = {}
    /\ returned' = NULL
    /\ UNCHANGED <<free, busy>>

Release ==
    \E p \in busy \ Forbidden :
        /\ busy' = busy \ {p}
        /\ free' = free \cup {p}
        /\ UNCHANGED returned

Next == Classify \/ Allocate \/ AllocateFails \/ Release

Spec == Init /\ [][Next]_vars
=============================================================================
