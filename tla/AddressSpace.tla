---------------------------- MODULE AddressSpace ----------------------------
(***************************************************************************)
(* What page_insert() and page_remove() promise the kernel: an address     *)
(* space is a function from virtual pages to what is mapped there, and     *)
(* each call changes it at the one page it names, or, when page_insert()   *)
(* runs out of memory, not at all.  Page tables, reference counts and the  *)
(* free list do not show.                                                  *)
(***************************************************************************)
CONSTANTS
    VAs,        \* virtual pages
    Frames,     \* physical pages
    Perms,      \* permission bits of a mapping
    NULL,       \* nothing is mapped
    Fail        \* what page_insert() returns when it runs out of memory

VARIABLES
    map,        \* the address space
    call        \* the last call and what it returned

vars == <<map, call>>

Init ==
    /\ map = [va \in VAs |-> NULL]
    /\ call = NULL

Insert(va, pp, perm) ==
    \/ /\ call' = [op |-> "insert", va |-> va, pp |-> pp, perm |-> perm, r |-> 0]
       /\ map' = [map EXCEPT ![va] = [ppn |-> pp, perm |-> perm]]
    \/ /\ call' = [op |-> "insert", va |-> va, pp |-> pp, perm |-> perm, r |-> Fail]
       /\ map[va] = NULL
       /\ UNCHANGED map

Remove(va) ==
    /\ call' = [op |-> "remove", va |-> va]
    /\ map' = [map EXCEPT ![va] = NULL]

Next ==
    \E va \in VAs :
        \/ \E pp \in Frames, perm \in Perms : Insert(va, pp, perm)
        \/ Remove(va)

Spec == Init /\ [][Next]_vars
=============================================================================
