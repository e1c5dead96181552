------------------------------ MODULE PmapOps ------------------------------
(***************************************************************************)
(* Two-level page tables of project3/kern/pmap.c, as operators on the      *)
(* record of PageOps with three more fields:                               *)
(*                                                                         *)
(*   pt    what each physical page holds, read as a page table: one entry  *)
(*         per slot.  Data pages have contents too: a page that comes back *)
(*         from the free list still holds what its last user left in it.   *)
(*   cr3   the page directory the processor uses                           *)
(*   tlb   translations the processor has cached                           *)
(*                                                                         *)
(* An entry is NULL when PTE_P is clear, else the page it refers to and    *)
(* its permission bits.  A virtual page is a pair <<PDX, PTX>>.            *)
(***************************************************************************)
EXTENDS PageOps

CONSTANTS
    KernEnd,    \* PADDR(ROUNDUP(end)) / PGSIZE: where boot_alloc() starts
    NSlots,     \* entries of a directory and of a table (1024)
    UTopSlot,   \* PDX(UTOP): user mappings are below
    UVPTSlot,   \* PDX(UVPT), where a directory maps itself
    KernSlot    \* a directory slot of the kernel's static mappings

(* mem_init() panics unless extended memory has a page that boot_alloc()   *)
(* did not take: check_page_free_list() asserts nfree_extmem > 0.          *)
ASSUME KernAssumption ==
    /\ KernEnd \in IOHoleEnd .. FirstFree - 1
    /\ FirstFree < NPages

ASSUME SlotAssumption ==
    /\ NSlots \in Nat /\ UTopSlot \in 1 .. NSlots
    /\ UVPTSlot \in UTopSlot .. NSlots - 1
    /\ KernSlot \in UTopSlot .. NSlots - 1
    /\ UVPTSlot # KernSlot

Slot     == 0 .. NSlots - 1
UserSlot == 0 .. UTopSlot - 1
VA       == Slot \X Slot
Perm     == SUBSET {"W", "U"}
Entry    == {NULL} \cup [ppn : Page, perm : Perm]
E_NO_MEM == 4

(* The null pointer is no page table entry and no pointer to one. *)
ASSUME NullEntryAssumption ==
    NULL \notin [ppn : Page, perm : Perm] /\ NULL \notin Page \X Slot

ZeroPage == [i \in Slot |-> NULL]

-----------------------------------------------------------------------------
(* What the processor's page walk finds at va in the address space of pgdir. *)
Translate(m, pgdir, va) ==
    IF m.pt[pgdir][va[1]] = NULL
    THEN NULL
    ELSE m.pt[m.pt[pgdir][va[1]].ppn][va[2]]

(* A faulty page_alloc() that ignores ALLOC_ZERO. *)
page_alloc_zero_Dirty(m) == page_alloc(m)

(* page_alloc(ALLOC_ZERO) *)
page_alloc_zero(m) ==
    IF m.page_free_list = NULL
    THEN m
    ELSE [page_alloc(m) EXCEPT !.pt[m.page_free_list] = ZeroPage]

(* Where a page table entry lives, a C pte_t pointer. *)
PtePtr(table, i) == <<table, i>>
Deref(m, pte)    == m.pt[pte[1]][pte[2]]
Store(m, pte, e) == [m EXCEPT !.pt[pte[1]][pte[2]] = e]

(* pgdir_walk(): the state it leaves in .m, the pointer it returns in .pte. *)
pgdir_walk(m, pgdir, va, create) ==
    IF m.pt[pgdir][va[1]] # NULL
    THEN [m |-> m, pte |-> PtePtr(m.pt[pgdir][va[1]].ppn, va[2])]
    ELSE IF ~create \/ m.page_free_list = NULL
    THEN [m |-> m, pte |-> NULL]
    ELSE LET newPage == page_alloc_ret(m)
             pde     == [ppn |-> newPage, perm |-> {"W", "U"}]
         IN  [m   |-> Store(page_incref(page_alloc_zero(m), newPage),
                            PtePtr(pgdir, va[1]), pde),
              pte |-> PtePtr(newPage, va[2])]

(* page_lookup(): the page mapped at va and its entry, NULL when there is none. *)
page_lookup(m, pgdir, va) ==
    LET pte == pgdir_walk(m, pgdir, va, FALSE).pte
    IN  IF pte = NULL \/ Deref(m, pte) = NULL
        THEN [pp |-> NULL, pte |-> NULL]
        ELSE [pp |-> Deref(m, pte).ppn, pte |-> pte]

(* tlb_invalidate(): invlpg drops whatever is cached for va. *)
tlb_invalidate(m, va) == [m EXCEPT !.tlb = {t \in m.tlb : t.va # va}]

(* A faulty page_remove() that leaves the TLB alone. *)
page_remove_NoFlush(m, pgdir, va) ==
    LET found == page_lookup(m, pgdir, va)
    IN  IF found.pp = NULL THEN m ELSE page_decref(Store(m, found.pte, NULL), found.pp)

(* page_remove() *)
page_remove(m, pgdir, va) ==
    LET found == page_lookup(m, pgdir, va)
    IN  IF found.pp = NULL
        THEN m
        ELSE tlb_invalidate(page_decref(Store(m, found.pte, NULL), found.pp), va)

(* A faulty page_insert() that overwrites an old mapping without removing it. *)
page_insert_Overwrite(m, pgdir, pp, va, perm) ==
    LET walk == pgdir_walk(m, pgdir, va, TRUE)
    IN  IF walk.pte = NULL
        THEN [m |-> walk.m, r |-> -E_NO_MEM]
        ELSE [m |-> Store(page_incref(walk.m, pp), walk.pte, [ppn |-> pp, perm |-> perm]), r |-> 0]

(* A faulty page_insert() that counts the new reference last: a page       *)
(* inserted over itself is freed on the way.                               *)
page_insert_CountLast(m, pgdir, pp, va, perm) ==
    LET walk == pgdir_walk(m, pgdir, va, TRUE)
    IN  IF walk.pte = NULL
        THEN [m |-> walk.m, r |-> -E_NO_MEM]
        ELSE [m |-> Store(page_incref(page_remove(walk.m, pgdir, va), pp), walk.pte,
                          [ppn |-> pp, perm |-> perm]),
              r |-> 0]

(* page_insert(): the state it leaves in .m, what it returns in .r.  The   *)
(* new reference is counted before an old mapping at va is removed, so     *)
(* that inserting a page over itself does not free it on the way.          *)
page_insert(m, pgdir, pp, va, perm) ==
    LET walk    == pgdir_walk(m, pgdir, va, TRUE)
        counted == page_incref(walk.m, pp)
        cleared == IF Deref(counted, walk.pte) # NULL
                   THEN page_remove(counted, pgdir, va)
                   ELSE counted
    IN  IF walk.pte = NULL
        THEN [m |-> walk.m, r |-> -E_NO_MEM]
        ELSE [m |-> Store(cleared, walk.pte, [ppn |-> pp, perm |-> perm]), r |-> 0]

(* lcr3(): loading the directory base flushes the TLB. *)
lcr3(m, pgdir) == [m EXCEPT !.cr3 = pgdir, !.tlb = {}]

(* The processor caches the translation it finds at va. *)
tlb_fill(m, va) ==
    LET e == Translate(m, m.cr3, va)
    IN  [m EXCEPT !.tlb = m.tlb \cup {[va |-> va, ppn |-> e.ppn, perm |-> e.perm]}]

(* boot_map_region() for one page: a static kernel mapping, not counted in *)
(* pp_ref.  The page table it may need is allocated and counted.           *)
boot_map_page(m, pgdir, va, pp, perm) ==
    LET walk == pgdir_walk(m, pgdir, va, TRUE)
    IN  Store(walk.m, walk.pte, [ppn |-> pp, perm |-> perm])

-----------------------------------------------------------------------------
(* page_init() run to its end. *)
page_init ==
    LET after[i \in Page] ==
            IF i = 0 THEN PagesBeforeLoop ELSE page_init_step(after[i - 1], i)
    IN  after[NPages - 1]

(* The kernel's directory is the first page boot_alloc() handed out. *)
kern_pgdir == KernEnd

(* mem_init() up to the load of kern_pgdir: the directory maps itself at   *)
(* UVPT, and one page of the kernel is mapped statically at KernSlot.      *)
mem_init ==
    LET pi == page_init
        m0 == [pp_ref |-> pi.pp_ref, pp_link |-> pi.pp_link,
               page_free_list |-> pi.page_free_list, panicked |-> pi.panicked,
               pt |-> [p \in Page |-> ZeroPage], cr3 |-> kern_pgdir, tlb |-> {}]
        m1 == Store(m0, PtePtr(kern_pgdir, UVPTSlot), [ppn |-> kern_pgdir, perm |-> {"U"}])
    IN  boot_map_page(m1, kern_pgdir, <<KernSlot, 0>>, 0, {"W"})

-----------------------------------------------------------------------------
(* References to a page from the user part of directory d, as pairs of the *)
(* page and slot that hold them: directory entries and page table entries. *)
UserRefs(m, d, p) ==
    LET tables == {m.pt[d][i].ppn : i \in {i \in UserSlot : m.pt[d][i] # NULL}}
        Refs(t, slots) == {<<t, i>> : i \in {i \in slots :
                                m.pt[t][i] # NULL /\ m.pt[t][i].ppn = p}}
    IN  Refs(d, UserSlot) \cup UNION {Refs(t, Slot) : t \in tables}

(* The page table pages of the kernel's static mappings. *)
KernTables(m) ==
    {m.pt[kern_pgdir][i].ppn : i \in
        {i \in UTopSlot .. NSlots - 1 \ {UVPTSlot} : m.pt[kern_pgdir][i] # NULL}}

(* Every cached translation is one that a page walk would find now. *)
Coherent(m) ==
    \A t \in m.tlb : Translate(m, m.cr3, t.va) = [ppn |-> t.ppn, perm |-> t.perm]
=============================================================================
