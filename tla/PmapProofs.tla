----------------------------- MODULE PmapProofs -----------------------------
(***************************************************************************)
(* Proofs about Pmap.  The inductive invariant is MemInv of KernelLemmas for *)
(* one directory and the pages the kernel has allocated and not mapped     *)
(* yet, which nothing refers to, with a processor that uses the kernel's   *)
(* directory and has cached nothing that is stale.                         *)
(***************************************************************************)
EXTENDS Pmap, KernelLemmas

KernDir == {kern_pgdir}

Inv ==
    /\ MemInv(mem, KernDir, fresh, {})
    /\ \A p \in fresh : Refs(mem, KernDir, p) = {}
    /\ mem.cr3 = kern_pgdir
    /\ Coherent(mem)

-----------------------------------------------------------------------------
(* The references RefCountExact and the others count are those of Refs(). *)
LEMMA UserRefsAreRefs ==
    ASSUME MemInv(mem, KernDir, fresh, {}), NEW p
    PROVE  UserRefs(mem, kern_pgdir, p) = Refs(mem, KernDir, p)
  <1> DEFINE K      == kern_pgdir
             tables == {mem.pt[K][i].ppn : i \in {i \in UserSlot : mem.pt[K][i] # NULL}}
             at(t, slots) == {<<t, i>> : i \in {i \in slots :
                                  mem.pt[t][i] # NULL /\ mem.pt[t][i].ppn = p}}
  <1>1. UserRefs(mem, K, p) = at(K, UserSlot) \cup UNION {at(t, Slot) : t \in tables}
    BY DEF UserRefs
  <1>2. \A t : t \in tables <=> IsTable(mem, KernDir, t)
    BY DEF IsTable, Names, KernDir
  <1>3. K \in Page /\ UserSlot \subseteq Slot
    BY KernPgdir, SlotAssumption DEF UserSlot, Slot
  <1>4. \A t \in tables : t \in Page
    <2> SUFFICES ASSUME NEW s \in UserSlot, mem.pt[K][s] # NULL PROVE mem.pt[K][s].ppn \in Page
      OBVIOUS
    <2>1. K \in KernDir
      BY DEF KernDir
    <2> QED
      BY <2>1, TableFacts
  <1> HIDE DEF tables, K
  <1>5. ASSUME NEW r, r \in at(K, UserSlot) PROVE r \in Refs(mem, KernDir, p)
    <2>1. PICK i \in UserSlot : r = <<K, i>> /\ Names(mem, K, i, p)
      BY <1>5 DEF Names
    <2> QED
      BY <1>3, <2>1 DEF Refs, KernDir, K
  <1>6. ASSUME NEW t \in tables, NEW r, r \in at(t, Slot) PROVE r \in Refs(mem, KernDir, p)
    <2>1. PICK i \in Slot : r = <<t, i>> /\ Names(mem, t, i, p)
      BY <1>6 DEF Names
    <2> QED
      BY <1>2, <1>4, <2>1 DEF Refs
  <1>7. ASSUME NEW r, r \in Refs(mem, KernDir, p)
        PROVE  r \in at(K, UserSlot) \/ \E t \in tables : r \in at(t, Slot)
    <2>1. PICK t \in Page, i \in Slot : r = <<t, i>>
      BY <1>7 DEF Refs
    <2>2. mem.pt[t][i] # NULL /\ mem.pt[t][i].ppn = p
          /\ ((t = K /\ i \in UserSlot) \/ t \in tables)
      BY <1>2, <1>7, <2>1 DEF Refs, Names, KernDir, K
    <2> QED
      BY <2>1, <2>2
  <1> QED
    BY <1>1, <1>5, <1>6, <1>7 DEF K

(* A page that is mapped as data is a page of its own: no directory, no    *)
(* page table, nothing of the kernel's, and not free.                      *)
LEMMA MappedFacts ==
    ASSUME MemInv(mem, KernDir, fresh, {}), NEW p \in Mapped
    PROVE  /\ p \in Page /\ p \notin KernDir /\ p \notin Kept(mem) /\ ~IsTable(mem, KernDir, p)
           /\ p \notin Unused(mem, KernDir, fresh)
           /\ \A r \in Refs(mem, KernDir, p) : r[1] \notin KernDir
  <1> DEFINE K      == kern_pgdir
             tables == {mem.pt[K][s].ppn : s \in {s \in UserSlot : mem.pt[K][s] # NULL}}
  <1>1. PICK t \in tables : p \in {mem.pt[t][i].ppn : i \in {i \in Slot : mem.pt[t][i] # NULL}}
    BY DEF Mapped
  <1>2. PICK i \in Slot : mem.pt[t][i] # NULL /\ p = mem.pt[t][i].ppn
    BY <1>1
  <1>3. t \in Page /\ IsTable(mem, KernDir, t) /\ t \notin KernDir
    <2>1. PICK s \in UserSlot : mem.pt[K][s] # NULL /\ t = mem.pt[K][s].ppn
      OBVIOUS
    <2>2. K \in KernDir
      BY DEF KernDir
    <2> QED
      BY <2>1, <2>2, TableFacts
  <1>4. p \in Page
    <2>1. mem.pt[t][i] \in Entry
      BY <1>2, <1>3 DEF MemInv, MemType
    <2> QED
      BY <1>2, <2>1 DEF Entry
  <1>5. <<t, i>> \in Refs(mem, KernDir, p)
    BY <1>2, <1>3 DEF Refs, Names
  <1>6. /\ p \notin KernDir /\ p \notin Kept(mem)
        /\ \A r \in Refs(mem, KernDir, p) : r[1] \in KernDir => Refs(mem, KernDir, p) = {r}
    BY <1>4, <1>5 DEF MemInv, Apart
  <1>7. \A r \in Refs(mem, KernDir, p) : r[1] \notin KernDir
    BY <1>3, <1>5, <1>6
  <1>8. p \notin Unused(mem, KernDir, fresh)
    BY <1>5 DEF Unused
  <1>9. ~IsTable(mem, KernDir, p)
    <2> SUFFICES ASSUME NEW d \in KernDir, NEW s \in UserSlot, Names(mem, d, s, p) PROVE FALSE
      BY DEF IsTable
    <2>1. d \in Page /\ s \in Slot
      BY KernPgdir, SlotAssumption DEF KernDir, UserSlot, Slot
    <2>2. <<d, s>> \in Refs(mem, KernDir, p)
      BY <2>1 DEF Refs
    <2> QED
      BY <1>7, <2>2
  <1> QED
    BY <1>4, <1>6, <1>7, <1>8, <1>9

(* A page the kernel has allocated and not mapped. *)
LEMMA FreshFacts ==
    ASSUME Inv, NEW p \in fresh
    PROVE  /\ p \in Page /\ p \notin KernDir /\ p \notin Kept(mem) /\ ~IsTable(mem, KernDir, p)
           /\ p \notin Unused(mem, KernDir, fresh)
           /\ Refs(mem, KernDir, p) = {}
  <1>1. p \in Page /\ p \notin Kept(mem) /\ Refs(mem, KernDir, p) = {}
    BY DEF Inv, MemInv, Holders
  <1>2. p \notin KernDir
    BY <1>1, KernPgdir DEF KernDir, Kept
  <1>3. p \notin Unused(mem, KernDir, fresh)
    BY DEF Unused
  <1>4. KernDir \subseteq Page
    BY KernPgdir DEF KernDir
  <1>5. ~IsTable(mem, KernDir, p)
    BY <1>1, <1>4, NoTable
  <1> QED
    BY <1>1, <1>2, <1>3, <1>5

(* What a page walk finds is an entry. *)
LEMMA TranslateEntry ==
    ASSUME Inv, NEW va \in VA
    PROVE  Translate(mem, kern_pgdir, va) \in Entry
  <1>1. va[1] \in Slot /\ va[2] \in Slot /\ kern_pgdir \in KernDir /\ kern_pgdir \in Page
    BY KernPgdir DEF VA, KernDir
  <1>2. CASE mem.pt[kern_pgdir][va[1]] = NULL
    BY <1>2 DEF Translate, Entry
  <1>3. CASE mem.pt[kern_pgdir][va[1]] # NULL
    <2>1. mem.pt[kern_pgdir][va[1]].ppn \in Page
      BY <1>1, <1>3, WalkPage DEF Inv
    <2> QED
      BY <1>1, <1>3, <2>1 DEF Inv, MemInv, MemType, Translate
  <1> QED
    BY <1>2, <1>3

(* A translation the processor has cached stays right when the tables      *)
(* change elsewhere.                                                       *)
LEMMA StaysCoherent ==
    ASSUME Inv, NEW m, m.cr3 = kern_pgdir, m.tlb \subseteq mem.tlb,
           \A t \in m.tlb : Translate(mem, kern_pgdir, t.va) # NULL
               => Translate(m, kern_pgdir, t.va) = Translate(mem, kern_pgdir, t.va)
    PROVE  Coherent(m)
  <1> SUFFICES ASSUME NEW t \in m.tlb
               PROVE  Translate(m, m.cr3, t.va) = [ppn |-> t.ppn, perm |-> t.perm]
    BY DEF Coherent
  <1>1. t \in [va : VA, ppn : Page, perm : Perm]
    BY DEF Inv, MemInv, MemType
  <1>2. t.ppn \in Page /\ t.perm \in Perm
    BY <1>1
  <1>3. Translate(mem, kern_pgdir, t.va) = [ppn |-> t.ppn, perm |-> t.perm]
    BY DEF Inv, Coherent
  <1> DEFINE e == [ppn |-> t.ppn, perm |-> t.perm]
  <1>4. e # NULL
    BY <1>2, EntryOf
  <1> HIDE DEF e
  <1>5. Translate(m, kern_pgdir, t.va) = e
    BY <1>3, <1>4 DEF e
  <1> QED
    BY <1>5 DEF e

-----------------------------------------------------------------------------
(* The invariant holds when mem_init() returns. *)
LEMMA InitInv == Init => Inv
  <1> SUFFICES ASSUME Init PROVE Inv
    OBVIOUS
  <1>1. /\ MemInv(mem, KernDir, fresh, {}) /\ mem.cr3 = kern_pgdir /\ mem.tlb = {}
        /\ fresh = {}
    BY MemInit DEF Init, KernDir
  <1> QED
    BY <1>1 DEF Inv, Coherent

(* page_alloc() takes a page nothing refers to. *)
LEMMA StepPageAlloc == ASSUME Inv, PageAlloc PROVE Inv'
  <1> DEFINE p == page_alloc_ret(mem)
             a == page_alloc(mem)
             N == fresh \cup ({p} \ {NULL})
  <1>1. mem' = a /\ fresh' = N
    BY DEF PageAlloc
  <1>2. /\ p # NULL => p \in Unused(mem, KernDir, fresh)
        /\ MemInv(a, KernDir, N, {})
        /\ a.pt = mem.pt /\ a.cr3 = mem.cr3 /\ a.tlb = mem.tlb
    BY AllocInv DEF Inv
  <1> HIDE DEF a, p
  <1>3. /\ \A x : Refs(a, KernDir, x) = Refs(mem, KernDir, x)
        /\ \A d, va : Translate(a, d, va) = Translate(mem, d, va)
    <2>1. a.pt = mem.pt
      BY <1>2
    <2>2. SameSpaces(mem, a, KernDir)
      BY <2>1, RefsFrame
    <2> QED
      BY <2>2 DEF SameSpaces
  <1>4. \A x \in N : Refs(a, KernDir, x) = {}
    BY <1>2, <1>3 DEF Inv, Unused
  <1>5. Coherent(a)
    BY <1>2, <1>3, StaysCoherent DEF Inv
  <1> HIDE DEF N
  <1> QED
    BY <1>1, <1>2, <1>4, <1>5 DEF Inv, KernDir

(* page_free() gives back a page the kernel never mapped. *)
LEMMA StepPageFree == ASSUME Inv, NEW pp \in Page, PageFree(pp) PROVE Inv'
  <1> DEFINE a == page_free(mem, pp)
             N == fresh \ {pp}
  <1>1. mem' = a /\ fresh' = N /\ pp \in fresh
    BY DEF PageFree
  <1>2. MemInv(a, KernDir, N, {}) /\ a.pt = mem.pt /\ a.cr3 = mem.cr3 /\ a.tlb = mem.tlb
    BY <1>1, FreshFacts, FreeInv DEF Inv
  <1> HIDE DEF a
  <1>3. /\ \A x : Refs(a, KernDir, x) = Refs(mem, KernDir, x)
        /\ \A d, va : Translate(a, d, va) = Translate(mem, d, va)
    <2>1. a.pt = mem.pt
      BY <1>2
    <2>2. SameSpaces(mem, a, KernDir)
      BY <2>1, RefsFrame
    <2> QED
      BY <2>2 DEF SameSpaces
  <1>4. \A x \in N : Refs(a, KernDir, x) = {}
    BY <1>3 DEF Inv
  <1>5. Coherent(a)
    BY <1>2, <1>3, StaysCoherent DEF Inv
  <1> HIDE DEF N
  <1> QED
    BY <1>1, <1>2, <1>4, <1>5 DEF Inv, KernDir

(* What PageInsert() asks for is what InsertInv needs. *)
LEMMA InsertStep ==
    ASSUME Inv, NEW pp \in Page, NEW va \in MapVAs, NEW pm \in MapPerms,
           PageInsert(pp, va, pm)
    PROVE  LET res == page_insert(mem, kern_pgdir, pp, va, pm)
           IN  /\ pp \in Page /\ va \in UserSlot \X Slot /\ pm \in Perm
               /\ res.r # 0 => /\ res.r = -E_NO_MEM /\ res.m = mem
                               /\ Translate(mem, kern_pgdir, va) = NULL
               /\ res.r = 0 => /\ MemInv(res.m, KernDir, fresh \ {pp}, {})
                               /\ Inserted(mem, res.m, KernDir, fresh, kern_pgdir, va,
                                           [ppn |-> pp, perm |-> pm])
  <1>1. va \in UserSlot \X Slot /\ pm \in Perm
    BY ClientAssumption
  <1>2. pp \in fresh \cup Mapped /\ mem.pp_ref[pp] < RefMax
    BY DEF PageInsert
  <1>3. /\ pp \notin KernDir /\ pp \notin Kept(mem) /\ pp \notin Unused(mem, KernDir, fresh)
        /\ \A r \in Refs(mem, KernDir, pp) : r[1] \notin KernDir
    BY <1>2, FreshFacts, MappedFacts DEF Inv
  <1> DEFINE old == Translate(mem, kern_pgdir, va)
  <1>4. old # NULL => old.ppn \notin fresh
    <2> SUFFICES ASSUME old # NULL PROVE old.ppn \notin fresh
      OBVIOUS
    <2> DEFINE t == mem.pt[kern_pgdir][va[1]].ppn
    <2>1. kern_pgdir \in KernDir /\ va[1] \in UserSlot /\ va[2] \in Slot
      BY <1>1 DEF KernDir
    <2>2. mem.pt[kern_pgdir][va[1]] # NULL /\ old = mem.pt[t][va[2]]
      BY DEF Translate
    <2>3. t \in Page /\ IsTable(mem, KernDir, t)
      BY <2>1, <2>2, TableFacts DEF Inv
    <2> HIDE DEF t, old
    <2>4. <<t, va[2]>> \in Refs(mem, KernDir, old.ppn)
      BY <2>1, <2>2, <2>3 DEF Refs, Names
    <2> QED
      BY <2>4, FreshFacts
  <1>5. kern_pgdir \in KernDir /\ pp \notin {} /\ MemInv(mem, KernDir, fresh, {})
    BY DEF KernDir, Inv
  <1>6. old # NULL /\ old.ppn \in fresh => old.ppn \in {} \cup {pp}
    BY <1>4
  <1> QED
    <2> DEFINE res == page_insert(mem, kern_pgdir, pp, va, pm)
    <2>1. /\ res.r # 0 => /\ res.r = -E_NO_MEM /\ res.m = mem
                          /\ Translate(mem, kern_pgdir, va) = NULL /\ mem.page_free_list = NULL
          /\ res.r = 0 => /\ MemInv(res.m, KernDir, fresh \ {pp}, {})
                          /\ Inserted(mem, res.m, KernDir, fresh, kern_pgdir, va,
                                      [ppn |-> pp, perm |-> pm])
      BY <1>1, <1>2, <1>3, <1>5, <1>6, InsertInv
    <2> HIDE DEF res
    <2>2. /\ pp \in Page /\ va \in UserSlot \X Slot /\ pm \in Perm
          /\ res.r # 0 => /\ res.r = -E_NO_MEM /\ res.m = mem
                          /\ Translate(mem, kern_pgdir, va) = NULL
          /\ res.r = 0 => /\ MemInv(res.m, KernDir, fresh \ {pp}, {})
                          /\ Inserted(mem, res.m, KernDir, fresh, kern_pgdir, va,
                                      [ppn |-> pp, perm |-> pm])
      BY <1>1, <2>1
    <2> QED
      BY <2>2 DEF res

(* page_insert() keeps the invariant, whether it fails, maps, or maps over *)
(* something.                                                              *)
LEMMA StepPageInsert ==
    ASSUME Inv, NEW pp \in Page, NEW va \in MapVAs, NEW pm \in MapPerms,
           PageInsert(pp, va, pm)
    PROVE  Inv'
  <1> DEFINE res == page_insert(mem, kern_pgdir, pp, va, pm)
             e   == [ppn |-> pp, perm |-> pm]
             a   == res.m
  <1>1. mem' = a /\ fresh' = IF res.r = 0 THEN fresh \ {pp} ELSE fresh
    BY DEF PageInsert
  <1>2. CASE res.r # 0
    <2>1. mem' = mem /\ fresh' = fresh
      BY <1>1, <1>2, InsertStep
    <2> QED
      BY <2>1 DEF Inv, KernDir
  <1>3. CASE res.r = 0
    <2>1. /\ va \in UserSlot \X Slot
          /\ MemInv(a, KernDir, fresh \ {pp}, {})
          /\ Inserted(mem, a, KernDir, fresh, kern_pgdir, va, e)
      BY <1>3, InsertStep
    <2>2. fresh' = fresh \ {pp} /\ e.ppn = pp
      BY <1>1, <1>3
    <2> HIDE DEF a, e
    <2>3. \A x \in fresh \ {pp} : Refs(a, KernDir, x) = {}
      <3> SUFFICES ASSUME NEW x \in fresh, x # pp PROVE Refs(a, KernDir, x) = {}
        OBVIOUS
      <3>1. x \in Page /\ x \notin Unused(mem, KernDir, fresh) /\ Refs(mem, KernDir, x) = {}
        BY FreshFacts
      <3>2. Refs(a, KernDir, x) \subseteq Refs(mem, KernDir, x)
        BY <2>1, <2>2, <3>1 DEF Inserted
      <3> QED
        BY <3>1, <3>2
    <2>4. a.cr3 = kern_pgdir /\ a.tlb \subseteq mem.tlb
      BY <2>1 DEF Inserted, Inv
    <2>5. ASSUME NEW t \in a.tlb, Translate(mem, kern_pgdir, t.va) # NULL
          PROVE  Translate(a, kern_pgdir, t.va) = Translate(mem, kern_pgdir, t.va)
      <3>1. t.va \in VA
        BY <2>4 DEF Inv, MemInv, MemType
      <3>2. t.va # va
        BY <2>1, <2>5 DEF Inserted
      <3>3. kern_pgdir \in KernDir
        BY DEF KernDir
      <3> QED
        BY <2>1, <2>5, <3>1, <3>2, <3>3 DEF Inserted
    <2>6. Coherent(a)
      BY <2>4, <2>5, StaysCoherent
    <2> QED
      BY <1>1, <2>1, <2>2, <2>3, <2>4, <2>6 DEF Inv, KernDir
  <1> QED
    BY <1>2, <1>3

(* page_remove() of a page the kernel may have mapped. *)
LEMMA RemoveStep ==
    ASSUME Inv, NEW va \in MapVAs
    PROVE  LET a == page_remove(mem, kern_pgdir, va)
           IN  /\ va \in UserSlot \X Slot
               /\ MemInv(a, KernDir, fresh, {})
               /\ Translate(a, kern_pgdir, va) = NULL
               /\ \A v \in VA : v # va
                      => Translate(a, kern_pgdir, v) = Translate(mem, kern_pgdir, v)
               /\ \A p \in Page : Refs(a, KernDir, p) \subseteq Refs(mem, KernDir, p)
               /\ a.cr3 = mem.cr3 /\ a.tlb \subseteq mem.tlb
               /\ Translate(mem, kern_pgdir, va) # NULL => \A t \in a.tlb : t.va # va
  <1> DEFINE old == Translate(mem, kern_pgdir, va)
  <1>1. /\ va \in UserSlot \X Slot /\ kern_pgdir \in KernDir
        /\ MemInv(mem, KernDir, fresh, {})
    BY ClientAssumption DEF KernDir, Inv
  <1>2. old # NULL => old.ppn \notin fresh
    <2> SUFFICES ASSUME old # NULL PROVE old.ppn \notin fresh
      OBVIOUS
    <2> DEFINE t == mem.pt[kern_pgdir][va[1]].ppn
    <2>1. va[1] \in UserSlot /\ va[2] \in Slot
      BY <1>1
    <2>2. mem.pt[kern_pgdir][va[1]] # NULL /\ old = mem.pt[t][va[2]]
      BY DEF Translate
    <2>3. t \in Page /\ IsTable(mem, KernDir, t)
      BY <1>1, <2>1, <2>2, TableFacts
    <2> HIDE DEF t, old
    <2>4. <<t, va[2]>> \in Refs(mem, KernDir, old.ppn)
      BY <2>1, <2>2, <2>3 DEF Refs, Names
    <2> QED
      BY <2>4, FreshFacts
  <1>3. Translate(mem, kern_pgdir, va) # NULL /\ Translate(mem, kern_pgdir, va).ppn \in fresh
            => Translate(mem, kern_pgdir, va).ppn \in {}
    BY <1>2
  <1> HIDE DEF old
  <1> QED
    BY <1>1, <1>3, RemoveInv

(* page_remove() keeps the invariant; what it unmaps is freed with the     *)
(* last reference only.                                                    *)
LEMMA StepPageRemove == ASSUME Inv, NEW va \in MapVAs, PageRemove(va) PROVE Inv'
  <1> DEFINE a == page_remove(mem, kern_pgdir, va)
  <1>1. mem' = a /\ fresh' = fresh
    BY DEF PageRemove
  <1>2. /\ MemInv(a, KernDir, fresh, {})
        /\ \A v \in VA : v # va
               => Translate(a, kern_pgdir, v) = Translate(mem, kern_pgdir, v)
        /\ \A p \in Page : Refs(a, KernDir, p) \subseteq Refs(mem, KernDir, p)
        /\ a.cr3 = mem.cr3 /\ a.tlb \subseteq mem.tlb
        /\ Translate(mem, kern_pgdir, va) # NULL => \A t \in a.tlb : t.va # va
    BY RemoveStep
  <1> HIDE DEF a
  <1>3. \A p \in fresh : Refs(a, KernDir, p) = {}
    BY <1>2, FreshFacts
  <1>4. a.cr3 = kern_pgdir
    BY <1>2 DEF Inv
  <1>5. ASSUME NEW t \in a.tlb, Translate(mem, kern_pgdir, t.va) # NULL
        PROVE  Translate(a, kern_pgdir, t.va) = Translate(mem, kern_pgdir, t.va)
    <2>1. t.va \in VA
      BY <1>2 DEF Inv, MemInv, MemType
    <2>2. t.va # va
      BY <1>2, <1>5
    <2> QED
      BY <1>2, <2>1, <2>2
  <1>6. Coherent(a)
    BY <1>2, <1>4, <1>5, StaysCoherent
  <1> QED
    BY <1>1, <1>2, <1>3, <1>4, <1>6 DEF Inv, KernDir

(* Whoever owns a data page may store anything in it: no reference and no  *)
(* translation changes.                                                    *)
LEMMA ScribbleStep ==
    ASSUME Inv, NEW pp \in Page, Scribble(pp)
    PROVE  /\ MemInv(mem', KernDir, fresh, {})
           /\ \A p \in Page : Refs(mem', KernDir, p) = Refs(mem, KernDir, p)
           /\ \A va \in VA : Translate(mem', kern_pgdir, va) = Translate(mem, kern_pgdir, va)
           /\ mem'.cr3 = mem.cr3 /\ mem'.tlb = mem.tlb
           /\ fresh' = fresh /\ call' = call
  <1> DEFINE pm == {"W", "U"}
             f  == [i \in Slot |-> [ppn |-> 0, perm |-> pm]]
             a  == WritePage(mem, pp, f)
  <1>1. pp \in fresh \cup Mapped /\ mem' = a /\ fresh' = fresh /\ call' = call
    BY DEF Scribble, WritePage
  <1>2. pp \notin KernDir /\ pp \notin Kept(mem) /\ ~IsTable(mem, KernDir, pp)
    BY <1>1, FreshFacts, MappedFacts DEF Inv
  <1>3. 0 \in Page /\ pm \in Perm
    BY NPagesAssumption DEF Page, Perm
  <1> HIDE DEF pm
  <1>4. f \in [Slot -> Entry]
    BY <1>3, EntryOf
  <1> HIDE DEF f
  <1>5. MemInv(mem, KernDir, fresh, {}) /\ kern_pgdir \in KernDir
    BY DEF Inv, KernDir
  <1>6. /\ MemInv(a, KernDir, fresh, {})
        /\ \A p \in Page : Refs(a, KernDir, p) = Refs(mem, KernDir, p)
        /\ \A d \in KernDir, va \in VA : Translate(a, d, va) = Translate(mem, d, va)
        /\ a.cr3 = mem.cr3 /\ a.tlb = mem.tlb
    BY <1>2, <1>4, <1>5, WriteInv
  <1> HIDE DEF a
  <1> QED
    BY <1>1, <1>5, <1>6

(* So a store to a data page keeps the invariant. *)
LEMMA StepScribble == ASSUME Inv, NEW pp \in Page, Scribble(pp) PROVE Inv'
  <1> DEFINE a == mem'
  <1>1. /\ MemInv(a, KernDir, fresh, {})
        /\ \A p \in Page : Refs(a, KernDir, p) = Refs(mem, KernDir, p)
        /\ \A va \in VA : Translate(a, kern_pgdir, va) = Translate(mem, kern_pgdir, va)
        /\ a.cr3 = mem.cr3 /\ a.tlb = mem.tlb
        /\ fresh' = fresh
    BY ScribbleStep
  <1>2. \A p \in fresh : Refs(a, KernDir, p) = {}
    BY <1>1, FreshFacts
  <1>3. \A t \in mem.tlb : t.va \in VA
    BY DEF Inv, MemInv, MemType
  <1>4. Coherent(a)
    <2> HIDE DEF a
    <2>1. a.cr3 = kern_pgdir /\ a.tlb \subseteq mem.tlb
      BY <1>1 DEF Inv
    <2>2. \A t \in a.tlb : Translate(a, kern_pgdir, t.va) = Translate(mem, kern_pgdir, t.va)
      BY <1>1, <1>3
    <2> QED
      BY <2>1, <2>2, StaysCoherent
  <1> QED
    BY <1>1, <1>2, <1>4 DEF Inv, KernDir

(* Changes of what the processor caches. *)
LEMMA StepTlb ==
    ASSUME Inv, NEW T, T \subseteq [va : VA, ppn : Page, perm : Perm],
           \A t \in T : Translate(mem, kern_pgdir, t.va) = [ppn |-> t.ppn, perm |-> t.perm],
           mem' = [mem EXCEPT !.tlb = T], fresh' = fresh
    PROVE  Inv'
  <1> DEFINE a == [mem EXCEPT !.tlb = T]
  <1>1. /\ a.tlb = T
        /\ a.pp_ref = mem.pp_ref /\ a.pp_link = mem.pp_link
        /\ a.page_free_list = mem.page_free_list /\ a.panicked = mem.panicked
        /\ a.pt = mem.pt /\ a.cr3 = mem.cr3 /\ DOMAIN a = DOMAIN mem
    BY DEF Inv, MemInv, MemType
  <1>2. mem' = a
    OBVIOUS
  <1> HIDE DEF a
  <1>3. MemType(a) /\ MemInv(mem, KernDir, fresh, {})
    BY <1>1 DEF Inv, MemInv, MemType
  <1>4. /\ Kept(a) = Kept(mem) /\ \A p : Refs(a, KernDir, p) = Refs(mem, KernDir, p)
        /\ KernPart(mem, KernDir) => KernPart(a, KernDir)
        /\ \A d, va : Translate(a, d, va) = Translate(mem, d, va)
    <2>1. a.pt = mem.pt
      BY <1>1
    <2>2. SameSpaces(mem, a, KernDir)
      BY <2>1, RefsFrame
    <2> QED
      BY <2>2 DEF SameSpaces
  <1>5. KernPart(a, KernDir)
    BY <1>3, <1>4 DEF MemInv
  <1>6. MemInv(a, KernDir, fresh, {})
    BY <1>1, <1>3, <1>4, <1>5, ContentsFrame
  <1>7. a.cr3 = kern_pgdir /\ \A p \in fresh : Refs(a, KernDir, p) = {}
    BY <1>1, <1>4 DEF Inv
  <1>8. Coherent(a)
    BY <1>1, <1>4, <1>7 DEF Coherent
  <1> QED
    BY <1>2, <1>6, <1>7, <1>8 DEF Inv, KernDir

(* The processor caches what the tables hold. *)
LEMMA StepTlbFill ==
    ASSUME Inv, NEW va \in MapVAs \cup ({UVPTSlot} \X UserSlot), TlbFill(va)
    PROVE  Inv'
  <1> DEFINE e == Translate(mem, kern_pgdir, va)
             n == [va |-> va, ppn |-> e.ppn, perm |-> e.perm]
             T == mem.tlb \cup {n}
  <1>1. va \in VA
    BY ClientAssumption, SlotAssumption DEF VA, Slot, UserSlot
  <1>2. mem.cr3 = kern_pgdir
    BY DEF Inv
  <1>3. e # NULL /\ mem' = [mem EXCEPT !.tlb = T] /\ fresh' = fresh
    BY <1>2 DEF TlbFill, tlb_fill
  <1>4. e \in [ppn : Page, perm : Perm]
    BY <1>1, <1>3, TranslateEntry DEF Entry
  <1>5. e.ppn \in Page /\ e.perm \in Perm /\ e = [ppn |-> e.ppn, perm |-> e.perm]
    BY <1>4
  <1> HIDE DEF e
  <1>6. n \in [va : VA, ppn : Page, perm : Perm] /\ n.va = va /\ n.ppn = e.ppn /\ n.perm = e.perm
    BY <1>1, <1>5
  <1> HIDE DEF n
  <1>7. T \subseteq [va : VA, ppn : Page, perm : Perm]
    BY <1>6 DEF Inv, MemInv, MemType
  <1>8. ASSUME NEW t \in T
        PROVE  Translate(mem, kern_pgdir, t.va) = [ppn |-> t.ppn, perm |-> t.perm]
    <2>1. CASE t \in mem.tlb
      BY <1>2, <2>1 DEF Inv, Coherent
    <2>2. CASE t = n
      BY <1>5, <1>6, <2>2 DEF e
    <2> QED
      BY <2>1, <2>2
  <1> HIDE DEF T
  <1> QED
    BY <1>3, <1>7, <1>8, StepTlb

(* The processor may forget what it cached. *)
LEMMA StepTlbEvict == ASSUME Inv, TlbEvict PROVE Inv'
  <1> PICK x \in mem.tlb : mem' = [mem EXCEPT !.tlb = mem.tlb \ {x}]
    BY DEF TlbEvict
  <1> DEFINE T == mem.tlb \ {x}
  <1>1. T \subseteq [va : VA, ppn : Page, perm : Perm]
    BY DEF Inv, MemInv, MemType
  <1>2. \A t \in T : Translate(mem, kern_pgdir, t.va) = [ppn |-> t.ppn, perm |-> t.perm]
    BY DEF Inv, Coherent
  <1>3. mem' = [mem EXCEPT !.tlb = T] /\ fresh' = fresh
    BY DEF TlbEvict
  <1> HIDE DEF T
  <1> QED
    BY <1>1, <1>2, <1>3, StepTlb

(* The inductive invariant, for any number of pages, slots and mappings. *)
THEOREM Invariant == Spec => []Inv
  <1>1. Inv /\ [Next]_vars => Inv'
    <2> SUFFICES ASSUME Inv, [Next]_vars PROVE Inv'
      OBVIOUS
    <2>1. CASE PageAlloc
      BY <2>1, StepPageAlloc
    <2>2. CASE \E pp \in Page : PageFree(pp) \/ Scribble(pp)
      BY <2>2, StepPageFree, StepScribble
    <2>3. CASE \E pp \in Page, va \in MapVAs, perm \in MapPerms : PageInsert(pp, va, perm)
      BY <2>3, StepPageInsert
    <2>4. CASE \E va \in MapVAs : PageRemove(va)
      BY <2>4, StepPageRemove
    <2>5. CASE \E va \in MapVAs \cup ({UVPTSlot} \X UserSlot) : TlbFill(va)
      BY <2>5, StepTlbFill
    <2>6. CASE TlbEvict
      BY <2>6, StepTlbEvict
    <2>7. CASE UNCHANGED vars
      BY <2>7 DEF vars, Inv, KernDir
    <2> QED
      BY <2>1, <2>2, <2>3, <2>4, <2>5, <2>6, <2>7 DEF Next
  <1> QED
    BY InitInv, <1>1, PTL DEF Spec

-----------------------------------------------------------------------------
(* pp_ref is exact: it is the number of user mappings and directory        *)
(* entries that refer to a page, whatever was inserted over what.          *)
THEOREM RefCountExactAlways == Spec => []RefCountExact
  <1>1. Inv => RefCountExact
    <2> SUFFICES ASSUME Inv, NEW p \in Page
                 PROVE  mem.pp_ref[p] = IF p \in ReservedPages \cup KernTables(mem)
                                        THEN 1
                                        ELSE Cardinality(UserRefs(mem, kern_pgdir, p))
      BY DEF RefCountExact
    <2>1. UserRefs(mem, kern_pgdir, p) = Refs(mem, KernDir, p)
      BY UserRefsAreRefs DEF Inv
    <2>2. Cardinality(Refs(mem, KernDir, p)) \in Nat
      BY RefsFinite
    <2>3. CASE p \in Kept(mem)
      BY <2>3 DEF Inv, MemInv, Counts, Kept
    <2>4. CASE p \notin Kept(mem)
      BY <2>1, <2>2, <2>4 DEF Inv, MemInv, Counts, Counted, Kept
    <2> QED
      BY <2>3, <2>4
  <1> QED
    BY Invariant, <1>1, PTL

(* The free list holds the unreferenced pages, each once, and nothing      *)
(* panics: what page_insert() and page_remove() take off the list or put   *)
(* on it is never lost and never in use.                                   *)
THEOREM FreeListExactAlways == Spec => []FreeListExact
  <1>1. Inv => FreeListExact
    <2> SUFFICES ASSUME Inv PROVE FreeListExact
      OBVIOUS
    <2> DEFINE F == {p \in Page : /\ UserRefs(mem, kern_pgdir, p) = {}
                                  /\ p \notin fresh \cup ReservedPages \cup KernTables(mem)}
    <2>1. \A p : UserRefs(mem, kern_pgdir, p) = Refs(mem, KernDir, p)
      BY UserRefsAreRefs DEF Inv
    <2>2. F = Unused(mem, KernDir, fresh)
      BY <2>1 DEF Unused, Kept
    <2>3. SomeFreeList(mem, F) /\ F \in SUBSET Page
      BY <2>2 DEF Inv, MemInv, ListOK
    <2> HIDE DEF F
    <2>4. FreeListWalks(mem, F)
      BY <2>3, ListWalks
    <2> QED
      BY <2>4 DEF FreeListExact, Inv, MemInv, F
  <1> QED
    BY Invariant, <1>1, PTL

(* The processor uses no translation that the tables no longer hold. *)
THEOREM TlbCoherentAlways == Spec => []TlbCoherent
  BY Invariant, PTL DEF Inv, TlbCoherent

(* No user mapping reaches a page table. *)
THEOREM TablesPrivateAlways == Spec => []TablesPrivate
  <1>1. Inv => TablesPrivate
    <2> SUFFICES ASSUME Inv, NEW i \in UserSlot, mem.pt[kern_pgdir][i] # NULL,
                        NEW t, t = mem.pt[kern_pgdir][i].ppn
                 PROVE  /\ UserRefs(mem, kern_pgdir, t) = {<<kern_pgdir, i>>}
                        /\ t \notin fresh \cup Mapped
      BY DEF TablesPrivate
    <2>1. MemInv(mem, KernDir, fresh, {}) /\ kern_pgdir \in KernDir
      BY DEF Inv, KernDir
    <2>2. /\ Refs(mem, KernDir, t) = {<<kern_pgdir, i>>} /\ t \notin fresh
          /\ IsTable(mem, KernDir, t)
      BY <2>1, TableFacts
    <2>3. t \notin Mapped
      BY <2>1, <2>2, MappedFacts
    <2> QED
      BY <2>1, <2>2, <2>3, UserRefsAreRefs
  <1> QED
    BY Invariant, <1>1, PTL

-----------------------------------------------------------------------------
(* Each call does to the translations what AddressSpace says, and nothing  *)
(* else changes them: the actions that do not, first.                      *)
LEMMA SpaceStutters ==
    ASSUME call' = call,
           \A va \in UserSlot \X Slot :
               Translate(mem', kern_pgdir, va) = Translate(mem, kern_pgdir, va)
    PROVE  [Space!Next]_(Space!vars)
  BY DEF Space!vars

(* A step that leaves the contents of all pages alone changes no mapping. *)
LEMMA SpacePt ==
    ASSUME call' = call, NEW a, a = mem', a.pt = mem.pt
    PROVE  [Space!Next]_(Space!vars)
  <1>1. \A va : Translate(a, kern_pgdir, va) = Translate(mem, kern_pgdir, va)
    BY DEF Translate
  <1> QED
    BY <1>1, SpaceStutters

(* page_insert() is an Insert of the abstract address space. *)
LEMMA SpaceInsert ==
    ASSUME Inv, NEW pp \in Page, NEW va \in MapVAs, NEW pm \in MapPerms,
           PageInsert(pp, va, pm)
    PROVE  [Space!Next]_(Space!vars)
  <1> DEFINE res  == page_insert(mem, kern_pgdir, pp, va, pm)
             r    == res.r
             a    == res.m
             e    == [ppn |-> pp, perm |-> pm]
             VAs  == UserSlot \X Slot
             map  == [v \in VAs |-> Translate(mem, kern_pgdir, v)]
             map2 == [v \in VAs |-> Translate(mem', kern_pgdir, v)]
  <1>1. mem' = a /\ call' = [op |-> "insert", va |-> va, pp |-> pp, perm |-> pm, r |-> r]
    BY DEF PageInsert
  <1>2. /\ va \in VAs /\ pm \in Perm
        /\ r # 0 => r = -E_NO_MEM /\ a = mem /\ Translate(mem, kern_pgdir, va) = NULL
        /\ r = 0 => Inserted(mem, a, KernDir, fresh, kern_pgdir, va, e)
    BY InsertStep
  <1> HIDE DEF a, r, e
  <1>3. CASE r # 0
    <2>1. map2 = map /\ map[va] = NULL /\ r = -E_NO_MEM
      BY <1>1, <1>2, <1>3
    <2>2. Space!Insert(va, pp, pm)
      BY <1>1, <2>1 DEF Space!Insert
    <2> QED
      BY <1>2, <2>2 DEF Space!Next
  <1>4. CASE r = 0
    <2>1. /\ Translate(a, kern_pgdir, va) = e
          /\ \A v \in VAs : v # va => Translate(a, kern_pgdir, v) = Translate(mem, kern_pgdir, v)
      <3>1. VAs \subseteq VA /\ \A v \in VAs : v[1] \in UserSlot
        BY SlotAssumption DEF VA, UserSlot, Slot
      <3>2. kern_pgdir \in KernDir
        BY DEF KernDir
      <3> QED
        BY <1>2, <1>4, <3>1, <3>2 DEF Inserted
    <2>2. map2 = [map EXCEPT ![va] = e]
      BY <1>1, <1>2, <2>1
    <2>3. Space!Insert(va, pp, pm)
      BY <1>1, <1>4, <2>2 DEF Space!Insert, e
    <2> QED
      BY <1>2, <2>3 DEF Space!Next
  <1> QED
    BY <1>3, <1>4

(* page_remove() is a Remove of the abstract address space. *)
LEMMA SpaceRemove ==
    ASSUME Inv, NEW va \in MapVAs, PageRemove(va)
    PROVE  [Space!Next]_(Space!vars)
  <1> DEFINE a    == page_remove(mem, kern_pgdir, va)
             VAs  == UserSlot \X Slot
             map  == [v \in VAs |-> Translate(mem, kern_pgdir, v)]
             map2 == [v \in VAs |-> Translate(mem', kern_pgdir, v)]
  <1>1. mem' = a /\ call' = [op |-> "remove", va |-> va]
    BY DEF PageRemove
  <1>2. /\ va \in VAs /\ Translate(a, kern_pgdir, va) = NULL
        /\ \A v \in VA : v # va => Translate(a, kern_pgdir, v) = Translate(mem, kern_pgdir, v)
    BY RemoveStep
  <1> HIDE DEF a
  <1>3. VAs \subseteq VA
    BY SlotAssumption DEF VA, UserSlot, Slot
  <1>4. map2 = [map EXCEPT ![va] = NULL]
    BY <1>1, <1>2, <1>3
  <1>5. Space!Remove(va)
    BY <1>1, <1>4 DEF Space!Remove
  <1> QED
    BY <1>2, <1>5 DEF Space!Next

(* Every step is a step of the abstract address space or a stutter. *)
LEMMA StepSpace == Inv /\ [Next]_vars => [Space!Next]_(Space!vars)
  <1> SUFFICES ASSUME Inv, [Next]_vars PROVE [Space!Next]_(Space!vars)
    OBVIOUS
  <1>1. CASE PageAlloc
    <2>1. page_alloc(mem).pt = mem.pt
      BY AllocInv DEF Inv
    <2> QED
      BY <1>1, <2>1, SpacePt DEF PageAlloc
  <1>2. ASSUME NEW pp \in Page, PageFree(pp) PROVE [Space!Next]_(Space!vars)
    <2>1. page_free(mem, pp).pt = mem.pt
      BY <1>2, FreshFacts, FreeInv DEF Inv, PageFree
    <2> QED
      BY <1>2, <2>1, SpacePt DEF PageFree
  <1>3. ASSUME NEW pp \in Page, Scribble(pp) PROVE [Space!Next]_(Space!vars)
    <2>1. UserSlot \X Slot \subseteq VA
      BY SlotAssumption DEF VA, UserSlot, Slot
    <2> QED
      BY <1>3, <2>1, ScribbleStep, SpaceStutters
  <1>4. CASE \E pp \in Page, va \in MapVAs, perm \in MapPerms : PageInsert(pp, va, perm)
    BY <1>4, SpaceInsert
  <1>5. CASE \E va \in MapVAs : PageRemove(va)
    BY <1>5, SpaceRemove
  <1>6. ASSUME NEW va, TlbFill(va) PROVE [Space!Next]_(Space!vars)
    <2>1. mem'.pt = mem.pt /\ call' = call
      BY <1>6 DEF TlbFill, tlb_fill, Inv, MemInv, MemType
    <2> QED
      BY <2>1, SpacePt
  <1>7. CASE TlbEvict
    <2>1. mem'.pt = mem.pt /\ call' = call
      BY <1>7 DEF TlbEvict, Inv, MemInv, MemType
    <2> QED
      BY <2>1, SpacePt
  <1>8. CASE UNCHANGED vars
    BY <1>8, SpaceStutters DEF vars
  <1> QED
    BY <1>1, <1>2, <1>3, <1>4, <1>5, <1>6, <1>7, <1>8 DEF Next

(* The user part of the address space that page_insert() and page_remove() *)
(* keep behaves as a function from virtual pages to mappings: each call    *)
(* changes the one page it names, and a call that fails changes nothing.   *)
THEOREM Implements == Spec => ImplementsAddressSpace
  <1>1. Init => Space!Init
    <2> SUFFICES ASSUME Init PROVE Space!Init
      OBVIOUS
    <2>1. \A s \in UserSlot : mem.pt[kern_pgdir][s] = NULL
      BY MemInit DEF Init
    <2>2. \A va \in UserSlot \X Slot : Translate(mem, kern_pgdir, va) = NULL
      BY <2>1 DEF Translate
    <2> QED
      BY <2>2 DEF Init, Space!Init
  <1> QED
    BY Invariant, StepSpace, <1>1, PTL DEF Spec, ImplementsAddressSpace, Space!Spec
=============================================================================
