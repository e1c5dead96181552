------------------------------ MODULE PageOps ------------------------------
(***************************************************************************)
(* The physical page allocator of kern/pmap.c as operators on a record     *)
(* that holds the kernel's bookkeeping of physical memory:                 *)
(*                                                                         *)
(*   pp_ref          the pages[] array's reference counts                  *)
(*   pp_link         the pages[] array's next pointers                     *)
(*   page_free_list  the head of the free list, NULL when it is empty      *)
(*   panicked        TRUE once a function called panic()                   *)
(*                                                                         *)
(* A page is its index in pages[], i.e. its physical page number.  The     *)
(* operators only touch these four fields, so a module that keeps more     *)
(* state in the record composes them with its own.                         *)
(***************************************************************************)
EXTENDS Integers, FiniteSets

CONSTANTS
    NPages,         \* npages: the physical pages of the machine
    NULL,           \* the null pointer
    RefMax,         \* the largest value of pp_ref (2^16 - 1 for a uint16_t)
    NPagesBasemem,  \* npages_basemem: pages of base memory
    IOHoleStart,    \* IO_hole_start_address / PGSIZE
    IOHoleEnd,      \* IO_hole_end_address / PGSIZE, where extended memory starts
    FirstFree       \* PADDR(boot_alloc(0)) / PGSIZE: first page after the kernel

ASSUME NPagesAssumption == NPages \in Nat \ {0}
ASSUME NullAssumption   == NULL \notin 0 .. NPages - 1
ASSUME RefMaxAssumption == RefMax \in Nat \ {0}

(* The BIOS reports at most 640K of base memory, and the kernel is loaded  *)
(* at 1M, so base memory ends at or below the hole and the first page      *)
(* boot_alloc() did not take lies in extended memory.                      *)
ASSUME LayoutAssumption ==
    /\ NPagesBasemem \in Nat /\ IOHoleStart \in Nat
    /\ IOHoleEnd \in Nat /\ FirstFree \in Nat
    /\ NPagesBasemem <= IOHoleStart
    /\ IOHoleStart <= IOHoleEnd
    /\ IOHoleEnd <= FirstFree

Page == 0 .. NPages - 1
PageOrNull == Page \cup {NULL}

(* Unsigned arithmetic of the width of pp_ref: it wraps around. *)
Incremented(n) == IF n = RefMax THEN 0 ELSE n + 1
Decremented(n) == IF n = 0 THEN RefMax ELSE n - 1

-----------------------------------------------------------------------------
(* A faulty InitiallyFree() that forgets the pages boot_alloc() took. *)
InitiallyFree_NoKernel(i) == i < NPagesBasemem \/ ~(IOHoleStart <= i /\ i < IOHoleEnd)

(* The page at index i is free at boot: base memory, or past the kernel's  *)
(* own pages.  Pages of the I/O hole and of the kernel fall in neither.    *)
InitiallyFree(i) ==
    \/ i < NPagesBasemem
    \/ ~(IOHoleStart <= i /\ i < IOHoleEnd) /\ ~(i < FirstFree)

(* mem_init() zeroes pages[]; page_init() marks page 0 used before its loop. *)
PagesBeforeLoop ==
    [pp_ref         |-> [[p \in Page |-> 0] EXCEPT ![0] = 1],
     pp_link        |-> [p \in Page |-> NULL],
     page_free_list |-> NULL,
     panicked       |-> FALSE]

(* One iteration of page_init()'s loop. *)
page_init_step(m, i) ==
    IF InitiallyFree(i)
    THEN [m EXCEPT !.pp_ref[i] = 0,
                   !.pp_link[i] = m.page_free_list,
                   !.page_free_list = i]
    ELSE [m EXCEPT !.pp_ref[i] = 1,
                   !.pp_link[i] = NULL]

(* The pages page_init() hands to nobody: page 0, and everything from the  *)
(* end of base memory to the end of the kernel.                            *)
ReservedPages == {p \in Page : p = 0 \/ (NPagesBasemem <= p /\ p < FirstFree)}

-----------------------------------------------------------------------------
(* page_alloc(): pop the head of the list.  The page the call returns is   *)
(* the old head, NULL when the list is empty; alloc_flags only matter to   *)
(* the contents of the page, which this record does not hold.              *)
page_alloc_ret(m) == m.page_free_list

(* A faulty page_alloc() that leaves pp_link as it was. *)
page_alloc_LinkKept(m) ==
    IF m.page_free_list = NULL
    THEN m ELSE [m EXCEPT !.page_free_list = m.pp_link[m.page_free_list]]

page_alloc(m) ==
    IF m.page_free_list = NULL
    THEN m
    ELSE [m EXCEPT !.pp_link[m.page_free_list] = NULL,
                   !.page_free_list = m.pp_link[m.page_free_list]]

(* A faulty page_free() that forgets to link the page to the old head. *)
page_free_Unlinked(m, pp) ==
    IF m.pp_ref[pp] # 0 \/ m.pp_link[pp] # NULL
    THEN [m EXCEPT !.panicked = TRUE] ELSE [m EXCEPT !.page_free_list = pp]

(* page_free(pp): panic when the page is referenced or looks free already, *)
(* else push it in front of the list.                                      *)
page_free(m, pp) ==
    IF m.pp_ref[pp] # 0 \/ m.pp_link[pp] # NULL
    THEN [m EXCEPT !.panicked = TRUE]
    ELSE [m EXCEPT !.pp_link[pp] = m.page_free_list,
                   !.page_free_list = pp]

(* pp->pp_ref++, as page_insert(), pgdir_walk() and env_setup_vm() do it. *)
page_incref(m, pp) == [m EXCEPT !.pp_ref[pp] = Incremented(m.pp_ref[pp])]

(* A faulty page_decref() that tests pp_ref-- where it should --pp_ref. *)
page_decref_Postfix(m, pp) ==
    LET dropped == [m EXCEPT !.pp_ref[pp] = Decremented(m.pp_ref[pp])]
    IN  IF m.pp_ref[pp] = 0 THEN page_free(dropped, pp) ELSE dropped

(* page_decref(pp): drop one reference and free the page with the last. *)
page_decref(m, pp) ==
    LET dropped == [m EXCEPT !.pp_ref[pp] = Decremented(m.pp_ref[pp])]
    IN  IF dropped.pp_ref[pp] = 0 THEN page_free(dropped, pp) ELSE dropped

-----------------------------------------------------------------------------
(* s, of length n, spells out the list that starts at page_free_list: the  *)
(* links lead from each element to the next and from the last to NULL, no  *)
(* page occurs twice, and the pages on the list are those of F.            *)
IsFreeList(m, F, n, s) ==
    /\ s \in [1 .. n -> F]
    /\ m.page_free_list = IF n = 0 THEN NULL ELSE s[1]
    /\ \A j \in 1 .. n : m.pp_link[s[j]] = IF j = n THEN NULL ELSE s[j + 1]
    /\ \A j, k \in 1 .. n : s[j] = s[k] => j = k
    /\ \A p \in F : \E j \in 1 .. n : s[j] = p

(* The free list holds exactly the pages of F, each of them once. *)
FreeListIs(m, F) ==
    \E s \in [1 .. Cardinality(F) -> F] : IsFreeList(m, F, Cardinality(F), s)

(* The same, by following the links: n steps from the head visit the n     *)
(* pages of F and end at NULL.                                             *)
FreeListWalks(m, F) ==
    LET n == Cardinality(F)
        at[i \in 0 .. n] ==
            IF i = 0 THEN m.page_free_list
            ELSE IF at[i - 1] = NULL THEN NULL ELSE m.pp_link[at[i - 1]]
    IN  at[n] = NULL /\ {at[i] : i \in 0 .. n - 1} = F

=============================================================================
