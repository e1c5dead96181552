----------------------------- MODULE PageAlloc -----------------------------
(***************************************************************************)
(* The physical page allocator of project3/kern/pmap.c as a state machine: *)
(* page_init() builds the free list one page at a time, then the kernel's  *)
(* callers allocate pages, take and drop references and give pages back.   *)
(*                                                                         *)
(* The kernel runs with interrupts disabled on one CPU, so each of these   *)
(* functions is one step.  `owned' is the callers' side of the contract:   *)
(* the pages a caller got from page_alloc() and has not given back, either *)
(* by page_free() before it took a reference or by dropping its last one.  *)
(***************************************************************************)
EXTENDS PageOps

VARIABLES
    book,       \* the bookkeeping record of PageOps
    next,       \* page_init()'s loop index; NPages once the loop is over
    owned,      \* pages a caller holds
    returned    \* what the last page_alloc() returned

poolVars == <<book, next, owned, returned>>

-----------------------------------------------------------------------------
PoolInit ==
    /\ book = PagesBeforeLoop
    /\ next = 1
    /\ owned = {}
    /\ returned = NULL

(* One iteration of page_init()'s loop. *)
PageInit ==
    /\ next < NPages
    /\ book' = page_init_step(book, next)
    /\ next' = next + 1
    /\ UNCHANGED <<owned, returned>>

Ready == next >= NPages /\ ~book.panicked

(* A faulty caller that takes NULL for a page. *)
Alloc_Unchecked ==
    /\ Ready
    /\ returned' = page_alloc_ret(book)
    /\ book' = page_alloc(book)
    /\ owned' = owned \cup {returned'}
    /\ UNCHANGED next

(* A caller allocates a page, or is told that there is none. *)
Alloc ==
    /\ Ready
    /\ returned' = page_alloc_ret(book)
    /\ book' = page_alloc(book)
    /\ owned' = IF returned' = NULL THEN owned ELSE owned \cup {returned'}
    /\ UNCHANGED next

(* A caller refers to a page it holds: a page table entry, a page          *)
(* directory entry or env_pgdir.  The bound: no page has RefMax references *)
(* already (with 16 bits that needs 65535 mappings of one page).           *)
PageIncref(p) ==
    /\ Ready
    /\ p \in owned
    /\ book.pp_ref[p] < RefMax
    /\ book' = page_incref(book, p)
    /\ UNCHANGED <<next, owned, returned>>

(* A caller drops one of its references. *)
PageDecref(p) ==
    /\ Ready
    /\ p \in owned
    /\ book.pp_ref[p] > 0
    /\ book' = page_decref(book, p)
    /\ owned' = IF book'.pp_ref[p] = 0 THEN owned \ {p} ELSE owned
    /\ UNCHANGED <<next, returned>>

(* A caller gives back a page it never took a reference to. *)
Free(p) ==
    /\ Ready
    /\ p \in owned
    /\ book.pp_ref[p] = 0
    /\ book' = page_free(book, p)
    /\ owned' = owned \ {p}
    /\ UNCHANGED <<next, returned>>

PoolNext ==
    \/ PageInit
    \/ Alloc
    \/ \E p \in Page : PageIncref(p) \/ PageDecref(p) \/ Free(p)

PoolSpec == PoolInit /\ [][PoolNext]_poolVars

-----------------------------------------------------------------------------
(* The pages that ought to be on the free list. *)
FreePages ==
    {p \in Page : p < next /\ book.pp_ref[p] = 0 /\ p \notin owned}

(* Types of the variables; a page is owned only after boot classified it. *)
TypeOK ==
    /\ book \in [pp_ref : [Page -> 0 .. RefMax],
                pp_link : [Page -> PageOrNull],
                page_free_list : PageOrNull,
                panicked : BOOLEAN]
    /\ next \in 1 .. NPages
    /\ owned \subseteq Page
    /\ returned \in PageOrNull

(* The free list is finite, ends in NULL, visits no page twice, and visits *)
(* exactly the pages that nobody references or holds: page_alloc() never   *)
(* hands out a page in use, and no page is lost.                           *)
FreeListComplete == FreeListIs(book, FreePages)

(* Callers that follow the contract never trip the checks of page_free(). *)
NoPanic == ~book.panicked

(* Page 0, the I/O hole and the kernel's pages are never handed out and    *)
(* keep the reference page_init() gave them (the comment of page_init()).  *)
ReservedUntouched ==
    \A p \in ReservedPages :
        p < next => book.pp_ref[p] = 1 /\ p \notin owned /\ returned # p

(* The allocator implements PhysPool: `free' is what the reference counts  *)
(* and the callers leave, whatever the linked list looks like.             *)
Pool == INSTANCE PhysPool WITH
            Page      <- Page,
            NULL      <- NULL,
            Forbidden <- ReservedPages,
            free      <- FreePages,
            busy      <- {p \in Page : p < next} \ FreePages,
            returned  <- returned

ImplementsPhysPool == Pool!Spec
=============================================================================
