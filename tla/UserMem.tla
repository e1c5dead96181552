------------------------------ MODULE UserMem ------------------------------
(***************************************************************************)
(* user_mem_check() of project3/kern/pmap.c: whether a program may access  *)
(* the bytes [va, va+len).  Addresses are numbers of the width the address *)
(* space has, and their sums wrap around at it.                            *)
(***************************************************************************)
EXTENDS PmapOps, FiniteSetsExt

CONSTANT PGSIZE     \* bytes of a page

ASSUME PageSizeAssumption == PGSIZE \in Nat \ {0}

AddressSpaceSize == NSlots * NSlots * PGSIZE
Address == 0 .. AddressSpaceSize - 1
E_FAULT == 6

(* Unsigned arithmetic of the width of an address (uint32_t). *)
Wrapped(n)   == n % AddressSpaceSize
ROUNDDOWN(a) == a - (a % PGSIZE)
ROUNDUP(a)   == ROUNDDOWN(Wrapped(a + PGSIZE - 1))

(* <<PDX(a), PTX(a)>>, and the end of the window at UVPT. *)
PageOf(a) == <<a \div (NSlots * PGSIZE), (a \div PGSIZE) % NSlots>>
ULIM      == (UVPTSlot + 1) * NSlots * PGSIZE

(* The permission bits of an entry; an entry that is not present is 0. *)
PermOf(e) == IF e = NULL THEN {} ELSE e.perm

(* A faulty user_mem_check() that forgets that va need not be aligned. *)
user_mem_check_Aligned(m, pgdir, va, len, perm) ==
    LET npages  == Wrapped(len + PGSIZE - 1) \div PGSIZE
        page(i) == Wrapped(va + i * PGSIZE)
        pte(i)  == pgdir_walk(m, pgdir, PageOf(page(i)), FALSE).pte
        bad     == {i \in 0 .. npages - 1 :
                      \/ page(i) >= ULIM
                      \/ pte(i) = NULL
                      \/ ~(perm \subseteq PermOf(Deref(m, pte(i))))}
    IN  IF bad = {} THEN [r |-> 0, addr |-> NULL] ELSE [r |-> -E_FAULT, addr |-> page(Min(bad))]

(* user_mem_check(): what it returns, and what it leaves in                *)
(* user_mem_check_addr when it fails.  It looks at one address of each     *)
(* page, as far from the page's start as va is from its own.               *)
user_mem_check(m, pgdir, va, len, perm) ==
    LET npages  == Wrapped(ROUNDUP(Wrapped(va + len)) - ROUNDDOWN(va)) \div PGSIZE
        page(i) == Wrapped(va + i * PGSIZE)
        pte(i)  == pgdir_walk(m, pgdir, PageOf(page(i)), FALSE).pte
        bad     == {i \in 0 .. npages - 1 :
                      \/ page(i) >= ULIM
                      \/ pte(i) = NULL
                      \/ ~(perm \subseteq PermOf(Deref(m, pte(i))))}
    IN  IF bad = {} THEN [r |-> 0, addr |-> NULL] ELSE [r |-> -E_FAULT, addr |-> page(Min(bad))]

-----------------------------------------------------------------------------
(* What the processor enforces: a program may read the byte at a when the  *)
(* directory entry and the page table entry both let it.                   *)
UserReadable(m, pgdir, a) ==
    /\ "U" \in PermOf(m.pt[pgdir][PageOf(a)[1]])
    /\ "U" \in PermOf(Translate(m, pgdir, PageOf(a)))

(* The pages of a range leave one of the address space out.  The number of *)
(* the pages of any other range wraps around, to 0 or 1, when              *)
(* user_mem_check() counts them.                                           *)
Countable(va, len) == (va % PGSIZE) + len <= AddressSpaceSize - PGSIZE

(* The bytes of a range, counted from its start, that a program may not read. *)
Unreadable(m, pgdir, va, len) ==
    {i \in 0 .. len - 1 : ~UserReadable(m, pgdir, Wrapped(va + i))}
=============================================================================
