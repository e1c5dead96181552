-------------------------------- MODULE Pmap --------------------------------
(***************************************************************************)
(* The virtual memory functions of project3/kern/pmap.c at work on the     *)
(* kernel's page directory after mem_init(), called in every order a       *)
(* caller may call them: as check_page() does, the kernel allocates pages, *)
(* maps them at user addresses, maps them again, over each other and over  *)
(* themselves, unmaps them, and frees pages it never mapped.  Meanwhile    *)
(* the processor caches translations and whoever owns a page writes to it. *)
(***************************************************************************)
EXTENDS PmapOps

CONSTANTS
    MapVAs,     \* the user pages the kernel maps
    MapPerms,   \* the permissions it maps them with
    TlbMax      \* bound: translations cached at a time

ASSUME ClientAssumption ==
    /\ MapVAs \subseteq UserSlot \X Slot
    /\ MapPerms \subseteq Perm
    /\ TlbMax \in Nat

VARIABLES
    mem,        \* the record of PmapOps
    fresh,      \* pages the kernel allocated and has not mapped yet
    call        \* the last page_insert() or page_remove() and what it returned

vars == <<mem, fresh, call>>

Init ==
    /\ mem = mem_init
    /\ fresh = {}
    /\ call = NULL

(* The data pages of the address space. *)
Mapped ==
    LET tables == {mem.pt[kern_pgdir][s].ppn :
                       s \in {s \in UserSlot : mem.pt[kern_pgdir][s] # NULL}}
    IN  UNION {{mem.pt[t][i].ppn : i \in {i \in Slot : mem.pt[t][i] # NULL}} : t \in tables}

Running == ~mem.panicked

PageAlloc ==
    /\ Running
    /\ fresh' = fresh \cup ({page_alloc_ret(mem)} \ {NULL})
    /\ mem' = page_alloc(mem)
    /\ UNCHANGED call

PageFree(pp) ==
    /\ Running
    /\ pp \in fresh
    /\ mem' = page_free(mem, pp)
    /\ fresh' = fresh \ {pp}
    /\ UNCHANGED call

(* Map a page the kernel just allocated, or one that is mapped already. *)
PageInsert(pp, va, perm) ==
    LET res == page_insert(mem, kern_pgdir, pp, va, perm)
    IN  /\ Running
        /\ pp \in fresh \cup Mapped
        /\ mem.pp_ref[pp] < RefMax
        /\ mem' = res.m
        /\ fresh' = IF res.r = 0 THEN fresh \ {pp} ELSE fresh
        /\ call' = [op |-> "insert", va |-> va, pp |-> pp, perm |-> perm, r |-> res.r]

PageRemove(va) ==
    /\ Running
    /\ mem' = page_remove(mem, kern_pgdir, va)
    /\ call' = [op |-> "remove", va |-> va]
    /\ UNCHANGED fresh

(* The owner of a data page stores anything in it; read as a page table,   *)
(* it maps page 0 everywhere.                                              *)
Scribble(pp) ==
    /\ Running
    /\ pp \in fresh \cup Mapped
    /\ mem' = [mem EXCEPT !.pt[pp] = [i \in Slot |-> [ppn |-> 0, perm |-> {"W", "U"}]]]
    /\ UNCHANGED <<fresh, call>>

(* The processor walks the tables for an access to a user page, or to a    *)
(* page table through the window at UVPT, and caches what it finds.        *)
TlbFill(va) ==
    /\ Running
    /\ Translate(mem, mem.cr3, va) # NULL
    /\ Cardinality(mem.tlb) < TlbMax
    /\ mem' = tlb_fill(mem, va)
    /\ UNCHANGED <<fresh, call>>

(* The processor may forget a translation at any time. *)
TlbEvict ==
    /\ Running
    /\ \E t \in mem.tlb : mem' = [mem EXCEPT !.tlb = mem.tlb \ {t}]
    /\ UNCHANGED <<fresh, call>>

Next ==
    \/ PageAlloc
    \/ \E pp \in Page : PageFree(pp) \/ Scribble(pp)
    \/ \E pp \in Page, va \in MapVAs, perm \in MapPerms : PageInsert(pp, va, perm)
    \/ \E va \in MapVAs : PageRemove(va)
    \/ \E va \in MapVAs \cup ({UVPTSlot} \X UserSlot) : TlbFill(va)
    \/ TlbEvict

Spec == Init /\ [][Next]_vars

-----------------------------------------------------------------------------
(* pp_ref counts the references that exist: every page has as many         *)
(* references as there are user mappings of it and directory entries that  *)
(* use it as a page table; the reserved pages and the kernel's own page    *)
(* tables have the one reference boot gave them.                           *)
RefCountExact ==
    \A p \in Page :
        mem.pp_ref[p] = IF p \in ReservedPages \cup KernTables(mem)
                        THEN 1
                        ELSE Cardinality(UserRefs(mem, kern_pgdir, p))

(* The free list holds exactly the pages nothing refers to: a page in use  *)
(* is never on it, no page is lost when a call fails half way, and         *)
(* page_free() never finds reason to panic.                                *)
FreeListExact ==
    /\ ~mem.panicked
    /\ FreeListWalks(mem, {p \in Page : /\ UserRefs(mem, kern_pgdir, p) = {}
                                     /\ p \notin fresh \cup ReservedPages \cup KernTables(mem)})

(* The processor never uses a translation that the tables no longer hold,  *)
(* so a page is out of reach when it is freed (page_remove() flushes after *)
(* it drops the reference).                                                *)
TlbCoherent == Coherent(mem)

(* A page table belongs to one directory slot and is not mapped as data: a *)
(* user write cannot reach it.                                             *)
TablesPrivate ==
    \A i \in UserSlot :
        mem.pt[kern_pgdir][i] # NULL =>
            LET table == mem.pt[kern_pgdir][i].ppn
            IN  /\ UserRefs(mem, kern_pgdir, table) = {<<kern_pgdir, i>>}
                /\ table \notin fresh \cup Mapped

(* The user part of the address space behaves as a function from virtual   *)
(* pages to mappings (AddressSpace): a page table page that pgdir_walk()   *)
(* adds maps nothing yet, a call changes no other page's mapping, and a    *)
(* call that fails changes none.                                           *)
Space == INSTANCE AddressSpace WITH
             VAs    <- UserSlot \X Slot,
             Frames <- Page,
             Perms  <- Perm,
             Fail   <- -E_NO_MEM,
             map    <- [va \in UserSlot \X Slot |-> Translate(mem, kern_pgdir, va)],
             call   <- call

ImplementsAddressSpace == Space!Spec
=============================================================================
