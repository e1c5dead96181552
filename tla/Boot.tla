-------------------------------- MODULE Boot --------------------------------
(***************************************************************************)
(* The boot of project3 from the first sector read to the end of           *)
(* mem_init(): the boot loader, entry.S, which turns paging on with the    *)
(* page directory linked into the kernel, and mem_init() of kern/pmap.c,   *)
(* which takes pages with boot_alloc(), sets up the page allocator, tests  *)
(* it, maps the kernel's address space and switches to it.                 *)
(*                                                                         *)
(* mem_init() is a straight line of calls: Script lists them, and there is *)
(* one action per kind of call.  A store the processor cannot carry out is *)
(* fatal, as no handler is installed yet.                                  *)
(*                                                                         *)
(* Memory is seen twice: ram holds the bytes of the kernel as the loader   *)
(* left them, and mem.pt what pages hold as tables or test data.  Machines *)
(* have no more than the memory KERNBASE has room for, and enough for the  *)
(* tests.                                                                  *)
(***************************************************************************)
EXTENDS BootLoader, PmapTests, FiniteSets

CONSTANTS
    NULL, RefMax, IOHoleStart, IOHoleEnd, NSlots, UTopSlot, UVPTSlot,
    UEnvsSlot, UPagesSlot, KStackSlot, KernBaseSlot,    \* PDX of UENVS, UPAGES, ...
    KStkPages,      \* KSTKSIZE / PGSIZE
    PGSIZE,
    InfosPerPage,   \* PGSIZE / sizeof(struct PageInfo)
    EnvPages,       \* pages of the envs array
    Ext16Start,     \* 16 * 1024, in the unit of the CMOS (1K, PGSIZE / 4 of the code)
    CMOS            \* what the CMOS may say: [basemem, extmem, ext16mem]

VARIABLES
    cmos,   \* what it says of this machine
    mem,    \* physical memory and its bookkeeping, the record of PmapOps
    var,    \* the variables of boot_alloc(), mem_init() and the tests
    at      \* the next call in Script

vars == <<loaderVars, cmos, mem, var, at>>

-----------------------------------------------------------------------------
(* i386_detect_memory(): one unit is a K for the CMOS and PGSIZE units are *)
(* a page.                                                                 *)
totalmem == IF cmos.ext16mem # 0 THEN Ext16Start + cmos.ext16mem
            ELSE IF cmos.extmem # 0 THEN IOHoleEnd * PGSIZE + cmos.extmem
            ELSE cmos.basemem
npages         == totalmem \div PGSIZE
npages_basemem == cmos.basemem \div PGSIZE

PagesFor(n, perPage) == (n + perPage - 1) \div perPage

(* ROUNDUP(end, PGSIZE), and what entry.S and entrypgdir.c put in .data.   *)
FirstPage     == PagesFor(image_end, PGSIZE)
bootstack     == LastPh.p_pa \div PGSIZE
entry_pgdir   == bootstack + KStkPages
entry_pgtable == entry_pgdir + 1

INSTANCE PmapOps WITH NPages <- npages, NPagesBasemem <- npages_basemem,
                      KernEnd <- FirstPage, FirstFree <- var.nextfree,
                      KernSlot <- KernBaseSlot

(* The kernel's address of a physical page, and what n bytes c look like.  *)
(* page2kva() of a page past the 256 MB above KERNBASE is never asked for. *)
KVA(p)  == <<KernBaseSlot + p \div NSlots, p % NSlots>>
Word(c) == [ppn |-> c, perm |-> {}]
Filled(m, p, c) == [m EXCEPT !.pt[p] = [i \in Slot |-> Word(c)]]
Panic(m) == [m EXCEPT !.panicked = TRUE]

(* A kernel access to va reaches a page. *)
Present(m, va) == Translate(m, m.cr3, va) # NULL

-----------------------------------------------------------------------------
(* The calls of mem_init(). *)
BootAlloc(x)               == [do |-> "boot_alloc", x |-> x]
MapRegion(va, n, x, perm)  == [do |-> "map", va |-> va, n |-> n, x |-> x, perm |-> perm]
Do(what)                   == [do |-> what]
CheckFreeList(low)         == [do |-> "check_free_list", low |-> low]

Script ==
    <<BootAlloc("kern_pgdir"), Do("self_map"), BootAlloc("pages"), BootAlloc("envs"),
      Do("page_init"), CheckFreeList(TRUE)>>
    \o check_page_alloc \o check_page
    \o <<MapRegion(<<UPagesSlot, 0>>, NSlots, "pages", {"U"}),
         MapRegion(<<UEnvsSlot, 0>>, NSlots, "envs", {"U"}),
         MapRegion(<<KStackSlot, NSlots - KStkPages>>, KStkPages, "bootstack", {"W"}),
         MapRegion(<<KernBaseSlot, 0>>, (NSlots - KernBaseSlot) * NSlots, "memory", {"W"}),
         Do("check_kern_pgdir"), Do("lcr3"), CheckFreeList(FALSE)>>
    \o check_page_installed_pgdir

(* What a call of boot_alloc() asks for, in pages. *)
PagesOf(x) == CASE x = "kern_pgdir" -> 1
                [] x = "pages"      -> PagesFor(npages, InfosPerPage)
                [] x = "envs"       -> EnvPages

(* The first page of what a region maps. *)
RegionStart(x) == CASE x = "memory"    -> 0
                    [] x = "bootstack" -> bootstack
                    [] OTHER           -> var[x]

(* The pages on the free list, in order. *)
FreeList(m) ==
    LET from[p \in PageOrNull] == IF p = NULL THEN <<>> ELSE <<p>> \o from[m.pp_link[p]]
    IN  from[m.page_free_list]

(* m with the pages of s for its free list. *)
Relinked(m, s) ==
    [m EXCEPT !.page_free_list = IF s = <<>> THEN NULL ELSE s[1],
              !.pp_link = [p \in Page |->
                  IF \E j \in 1 .. Len(s) : s[j] = p
                  THEN LET j == CHOOSE j \in 1 .. Len(s) : s[j] = p
                       IN  IF j = Len(s) THEN NULL ELSE s[j + 1]
                  ELSE m.pp_link[p]]]

(* PDX(page2pa(p)) < pdx_limit. *)
BelowLimit(p, low) == low => p < NSlots
IsLow(p)  == BelowLimit(p, TRUE)
IsHigh(p) == ~BelowLimit(p, TRUE)

(* Faulty check_page_free_list()s: one that does not reorder the list, one *)
(* that does not join its two halves.                                      *)
LowFirst_AsIs(s)  == s
LowFirst_LowOnly(s) == SelectSeq(s, IsLow)

(* check_page_free_list(1) moves the pages entry_pgdir maps to the front. *)
LowFirst(s) == SelectSeq(s, IsLow) \o SelectSeq(s, IsHigh)

(* The assertions of check_page_free_list() on a page of the list. *)
MayBeFree(p) ==
    /\ p \notin {0, IOHoleStart, IOHoleEnd - 1, IOHoleEnd}
    /\ p < IOHoleEnd \/ p >= var.nextfree

(* check_page_free_list(): the list is reordered, pages are scribbled on,  *)
(* and then it is looked through.                                          *)
check_page_free_list(m, low) ==
    LET ordered == IF low THEN Relinked(m, LowFirst(FreeList(m))) ELSE m
        s       == FreeList(ordered)
        listed  == {s[j] : j \in 1 .. Len(s)}
        marked  == [ordered EXCEPT !.pt = [p \in Page |->
                       IF p \in listed /\ BelowLimit(p, low)
                       THEN [ordered.pt[p] EXCEPT ![0] = Word(151)] ELSE ordered.pt[p]]]
    IN  IF /\ \A p \in listed : MayBeFree(p)
           /\ \E p \in listed : p < IOHoleEnd
           /\ \E p \in listed : p >= IOHoleEnd
        THEN marked ELSE Panic(marked)

(* check_kern_pgdir() *)
check_kern_pgdir(m) ==
    LET Pa(va) == LET e == Translate(m, kern_pgdir, va) IN IF e = NULL THEN NULL ELSE e.ppn
        used   == {UVPTSlot, KStackSlot, UPagesSlot, UEnvsSlot}
    IN  /\ \A i \in 0 .. PagesOf("pages") - 1 : Pa(<<UPagesSlot, i>>) = var.pages + i
        /\ \A i \in 0 .. EnvPages - 1 : Pa(<<UEnvsSlot, i>>) = var.envs + i
        /\ \A p \in Page : Pa(KVA(p)) = p
        /\ \A i \in 0 .. KStkPages - 1 :
              Pa(<<KStackSlot, NSlots - KStkPages + i>>) = bootstack + i
        /\ Pa(<<KStackSlot, 0>>) = NULL
        /\ \A i \in Slot :
              LET pde == m.pt[kern_pgdir][i]
              IN  IF i \in used THEN pde # NULL
                  ELSE IF i >= KernBaseSlot THEN pde # NULL /\ "W" \in pde.perm
                  ELSE pde = NULL

-----------------------------------------------------------------------------
Init ==
    /\ LoaderInit
    /\ cmos \in CMOS
    /\ mem = [pp_ref |-> [p \in Page |-> 0], pp_link |-> [p \in Page |-> NULL],
              page_free_list |-> NULL, panicked |-> FALSE,
              pt |-> [p \in Page |-> [i \in Slot |-> Word(Junk)]], cr3 |-> NULL, tlb |-> {}]
    /\ var = [nextfree |-> 0, pages_left |-> 0, kern_pgdir |-> 0, pages |-> 0, envs |-> 0,
              pp0 |-> NULL, pp1 |-> NULL, pp2 |-> NULL, fl |-> NULL, nfree |-> 0, k |-> 0]
    /\ at = 1

(* The boot loader, and the clearing of the bss at the start of i386_init(). *)
Load == LoaderNext /\ UNCHANGED <<cmos, mem, var, at>>

(* The directory and the table that entrypgdir.c defines: slots 0 and      *)
(* PDX(KERNBASE) map the first NSlots pages, the latter for writing.       *)
EntryPgdir ==
    LET pde(perm) == [ppn |-> entry_pgtable, perm |-> perm]
    IN  [ZeroPage EXCEPT ![0] = pde({}), ![KernBaseSlot] = pde({"W"})]
EntryPgtable == [i \in Slot |-> [ppn |-> i, perm |-> {"W"}]]

(* entry.S: they are in memory with the rest of .data, and paging is on. *)
Entry_S ==
    /\ JumpToC
    /\ mem' = lcr3([mem EXCEPT !.pt[entry_pgdir] = EntryPgdir,
                               !.pt[entry_pgtable] = EntryPgtable], entry_pgdir)
    /\ UNCHANGED <<cmos, var, at>>

(* mem_init() is at a call of do. *)
At(do) ==
    /\ stage = "mem_init" /\ ~mem.panicked
    /\ at <= Len(Script) /\ Script[at].do = do
    /\ UNCHANGED <<loaderVars, cmos>>
step == Script[at]

(* The call is over: what it leaves in memory and in the variables. *)
Becomes(m, v) == mem' = m /\ var' = v /\ at' = at + 1
Leaves(m)     == Becomes(m, var)
Asserts(b, m) == Leaves(IF b THEN m ELSE Panic(m))

(* boot_alloc(n) for n > 0, and the memset() of what it returns. *)
Boot_alloc ==
    /\ At("boot_alloc")
    /\ LET first == IF var.nextfree = 0 THEN FirstPage ELSE var.nextfree
           left  == IF var.nextfree = 0 THEN npages ELSE var.pages_left
           n     == PagesOf(step.x)
       IN  IF left = 0 \/ n > left
           THEN Leaves(Panic(mem))
           ELSE Becomes([mem EXCEPT !.pt = [p \in Page |->
                            IF p \in first .. first + n - 1 THEN ZeroPage ELSE mem.pt[p]]],
                        [var EXCEPT !.nextfree = first + n, !.pages_left = left - n,
                                    ![step.x] = first])

(* kern_pgdir[PDX(UVPT)] = PADDR(kern_pgdir) | PTE_U | PTE_P *)
SelfMap ==
    /\ At("self_map")
    /\ Leaves(Store(mem, PtePtr(kern_pgdir, UVPTSlot), [ppn |-> kern_pgdir, perm |-> {"U"}]))

PageInit ==
    /\ At("page_init")
    /\ LET pi == page_init
       IN  Leaves([mem EXCEPT !.pp_ref = pi.pp_ref, !.pp_link = pi.pp_link,
                              !.page_free_list = pi.page_free_list])

CheckPageFreeList ==
    /\ At("check_free_list")
    /\ Leaves(IF mem.page_free_list = NULL THEN Panic(mem) ELSE check_page_free_list(mem, step.low))

(* A turn of boot_map_region()'s loop.  It stores through what pgdir_walk()*)
(* returns, NULL included.                                                 *)
BootMapRegion ==
    /\ At("map")
    /\ IF var.k = step.n
       THEN Becomes(mem, [var EXCEPT !.k = 0])
       ELSE LET i    == step.va[2] + var.k
                va   == <<step.va[1] + i \div NSlots, i % NSlots>>
                null == pgdir_walk(mem, kern_pgdir, va, TRUE).pte = NULL
            IN  /\ mem' = IF null THEN Panic(mem)
                          ELSE boot_map_page(mem, kern_pgdir, va, RegionStart(step.x) + var.k, step.perm)
                /\ var' = [var EXCEPT !.k = @ + 1]
                /\ at' = at

CheckKernPgdir == At("check_kern_pgdir") /\ Asserts(check_kern_pgdir(mem), mem)

Lcr3 == At("lcr3") /\ Leaves(lcr3(mem, kern_pgdir))

-----------------------------------------------------------------------------
(* The calls of the self-tests. *)
TestAlloc ==
    /\ At("alloc")
    /\ Becomes(IF page_alloc_ret(mem) = NULL THEN Panic(mem) ELSE page_alloc(mem),
               [var EXCEPT ![step.x] = page_alloc_ret(mem)])

TestRealloc ==
    /\ At("realloc")
    /\ Asserts(page_alloc_ret(mem) = var[step.x],
               IF step.zero THEN page_alloc_zero(mem) ELSE page_alloc(mem))

TestFree == At("free") /\ Leaves(page_free(mem, var[step.x]))

TestInsert ==
    /\ At("insert")
    /\ LET done == page_insert(mem, kern_pgdir, var[step.x], step.va, step.perm)
       IN  Asserts((done.r < 0) = step.fails, done.m)

TestRemove == At("remove") /\ Leaves(page_remove(mem, kern_pgdir, step.va))

TestWalk == At("walk") /\ Leaves(pgdir_walk(mem, kern_pgdir, step.va, TRUE).m)

TestFill == At("fill") /\ Leaves(Filled(mem, var[step.x], step.n))

(* A load or a store of the kernel at va: the processor goes by its TLB.   *)
Reaches(va) ==
    IF \E t \in mem.tlb : t.va = va THEN (CHOOSE t \in mem.tlb : t.va = va).ppn
    ELSE Translate(mem, mem.cr3, va).ppn
Filling(va) == IF \E t \in mem.tlb : t.va = va THEN mem ELSE tlb_fill(mem, va)

TestLoad ==
    /\ At("load")
    /\ IF Present(mem, step.va) \/ \E t \in mem.tlb : t.va = step.va
       THEN Asserts(mem.pt[Reaches(step.va)][0] = Word(step.n), Filling(step.va))
       ELSE Leaves(Panic(mem))

TestStore ==
    /\ At("store")
    /\ IF Present(mem, step.va) \/ \E t \in mem.tlb : t.va = step.va
       THEN Leaves(Store(Filling(step.va), PtePtr(Reaches(step.va), 0), Word(step.n)))
       ELSE Leaves(Panic(mem))

TestCount == At("count") /\ Becomes(mem, [var EXCEPT !.nfree = Len(FreeList(mem))])

TestSteal ==
    /\ At("steal")
    /\ Becomes([mem EXCEPT !.page_free_list = NULL], [var EXCEPT !.fl = mem.page_free_list])

TestGiveBack == At("give_back") /\ Leaves([mem EXCEPT !.page_free_list = var.fl])

TestDropTable ==
    /\ At("drop_table")
    /\ Leaves([Store(mem, PtePtr(kern_pgdir, step.va[1]), NULL) EXCEPT !.pp_ref[var[step.x]] = 0])

(* The assertions: pde and pte are the entries at va. *)
TestAssert ==
    /\ At("assert")
    /\ LET pde     == mem.pt[kern_pgdir][step.va[1]]
           pte     == Translate(mem, kern_pgdir, step.va)
           page    == var[step.x]
           holds   ==
               CASE step.is = "none_left"    -> page_alloc_ret(mem) = NULL
                 [] step.is = "distinct"     -> Cardinality({var.pp0, var.pp1, var.pp2}) = 3
                 [] step.is = "same_count"   -> Len(FreeList(mem)) = var.nfree
                 [] step.is = "zeroed"       -> mem.pt[page] = ZeroPage
                 [] step.is = "unlinked"     -> mem.pp_ref[page] # 0 /\ mem.pp_link[page] = NULL
                 [] step.is = "ref"          -> mem.pp_ref[page] = step.n
                 [] step.is = "holds"        -> mem.pt[page][0] = Word(step.n)
                 [] step.is = "maps_to"      -> pte # NULL /\ pte.ppn = page
                 [] step.is = "table_is"     -> pde # NULL /\ pde.ppn = page
                 [] step.is = "unmapped"     -> pte = NULL
                 [] step.is = "walk_finds"   -> pgdir_walk(mem, kern_pgdir, step.va, FALSE).pte
                                                = PtePtr(pde.ppn, step.va[2])
                 [] step.is = "allows"       -> step.p \in pte.perm
                 [] step.is = "forbids"      -> step.p \notin pte.perm
                 [] step.is = "table_allows" -> step.p \in pde.perm
       IN  Asserts(holds, mem)

(* mem_init() returns. *)
Finish ==
    /\ MemInitReturns
    /\ ~mem.panicked /\ at > Len(Script)
    /\ UNCHANGED <<cmos, mem, var, at>>

(* The loader spins on a bad image, a panic ends in the monitor, and what  *)
(* follows mem_init() is the subject of other modules.                     *)
Halt == (stage \in {"bad", "done"} \/ mem.panicked) /\ UNCHANGED vars

Next ==
    \/ Load \/ Entry_S
    \/ Boot_alloc \/ SelfMap \/ PageInit \/ CheckPageFreeList
    \/ BootMapRegion \/ CheckKernPgdir \/ Lcr3
    \/ TestAlloc \/ TestRealloc \/ TestFree \/ TestInsert \/ TestRemove \/ TestWalk
    \/ TestFill \/ TestLoad \/ TestStore \/ TestCount \/ TestSteal \/ TestGiveBack
    \/ TestDropTable \/ TestAssert
    \/ Finish \/ Halt

Spec == Init /\ [][Next]_vars

-----------------------------------------------------------------------------
(* Until mem_init() has switched directories the kernel can store in the   *)
(* first NSlots pages only, and the allocator has no notion of it: each    *)
(* page whose contents a step of the kernel changes is mapped for writing, *)
(* at its address above KERNBASE, by the directory the processor uses.     *)
KernelStoresMapped ==
    [][\A p \in Page : mem.cr3 # NULL /\ mem'.pt[p] # mem.pt[p] =>
          LET pde == mem.pt[mem.cr3][KVA(p)[1]]
              pte == Translate(mem, mem.cr3, KVA(p))
          IN  /\ pde # NULL /\ "W" \in pde.perm
              /\ pte # NULL /\ pte.ppn = p /\ "W" \in pte.perm]_vars

(* No assertion of the self-tests fails on a machine they should pass on,  *)
(* boot_alloc() does not run out, and no store goes through NULL.          *)
SelfTestsPass == ~mem.panicked

(* What is meant to be mapped above UTOP, but for UVPT. *)
Linked(va) ==
    LET i == va[2]
        Page_(p, perm) == [ppn |-> p, perm |-> perm]
    IN  CASE va[1] = UPagesSlot   -> Page_(var.pages + i, {"U"})
          [] va[1] = UEnvsSlot    -> Page_(var.envs + i, {"U"})
          [] va[1] = KStackSlot /\ i >= NSlots - KStkPages
                                  -> Page_(bootstack + i - (NSlots - KStkPages), {"W"})
          [] va[1] >= KernBaseSlot -> Page_((va[1] - KernBaseSlot) * NSlots + i, {"W"})
          [] OTHER                -> NULL

(* What mem_init() hands over, after tests that took pages away, put them  *)
(* back and forged references: the kernel's directory is in use and maps   *)
(* what it should and nothing else; the free pages are those of base       *)
(* memory and those past the kernel's arrays, except the page tables, each *)
(* once; and exactly the pages in use are referenced, once.                *)
BootHandsOver ==
    stage = "done" =>
        LET tables == KernTables(mem)
            free   == {p \in Page : (0 < p /\ p < npages_basemem) \/ p >= var.envs + EnvPages}
                          \ tables
        IN  /\ mem.cr3 = kern_pgdir
            /\ \A va \in VA : va[1] # UVPTSlot => Translate(mem, kern_pgdir, va) = Linked(va)
            /\ mem.pt[kern_pgdir][UVPTSlot] = [ppn |-> kern_pgdir, perm |-> {"U"}]
            /\ Cardinality(tables) =
                  Cardinality({i \in Slot : mem.pt[kern_pgdir][i] # NULL} \ {UVPTSlot})
            /\ LET list == FreeList(mem)
               IN  Len(list) = Cardinality(free) /\ {list[j] : j \in 1 .. Len(list)} = free
            /\ \A p \in Page : mem.pp_ref[p] = IF p \in free THEN 0 ELSE 1
=============================================================================
