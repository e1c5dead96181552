---------------------------- MODULE KernelLemmas ----------------------------
(***************************************************************************)
(* Lemmas about the operators of PageOps, PmapOps and EnvOps, on any       *)
(* record that has their fields, for the proofs about PageAlloc, Pmap, Env *)
(* and Kernel to share.  They come in four parts.                          *)
(*                                                                         *)
(* Lists: what pushing and popping do to a list that lives in the links of *)
(* an array, and what following its links finds; and induction over the    *)
(* natural numbers, for sets instead of predicates.                        *)
(*                                                                         *)
(* Page tables, for any set Ds of page directories that the kernel's is    *)
(* one of.  MemInv says what the functions of pmap.c keep up between them, *)
(* in terms of two more sets of pages:                                     *)
(*                                                                         *)
(*   H   pages somebody holds, so that they are in use without a mapping   *)
(*   X   those of H that are counted in pp_ref for that                    *)
(*                                                                         *)
(* There is one lemma for each step the functions are made of: taking and  *)
(* giving back a page, writing to one, adding a page table, counting a     *)
(* page, and writing and clearing a page table entry.                      *)
(*                                                                         *)
(* The table of environments, whatever memory looks like (EnvTable).       *)
(*                                                                         *)
(* The memory the environments are made of: MemInv for their directories   *)
(* together, and more (Spaces, EnvSpace).                                   *)
(***************************************************************************)
EXTENDS EnvOps, FiniteSetTheorems, FunctionTheorems, WellFoundedInduction, TLAPS


-----------------------------------------------------------------------------
(* A set of natural numbers that is not empty has a least element. *)
LEMMA LeastElement ==
    ASSUME NEW T, T \subseteq Nat, T # {}
    PROVE  \E m \in T : \A k \in T : m <= k
  <1> DEFINE R == OpToRel(<, Nat)
  <1>1. \A k, m \in Nat : k < m => <<k, m>> \in R
    BY DEF OpToRel
  <1>2. IsWellFoundedOn(R, Nat)
    BY NatLessThanWellFounded
  <1> HIDE DEF R
  <1>3. \E m \in T : \A k \in T : ~(<<k, m>> \in R)
    BY <1>2, WFMin, Zenon
  <1>4. PICK m \in T : \A k \in T : ~(<<k, m>> \in R)
    BY <1>3
  <1>5. ASSUME NEW k \in T PROVE m <= k
    <2>1. ~(k < m)
      BY <1>1, <1>4
    <2> QED
      BY <2>1
  <1> QED
    BY <1>5

(* A set that holds 0 and is closed under the successor holds every number. *)
LEMMA SetInduction ==
    ASSUME NEW S, 0 \in S, \A n \in Nat : n \in S => n + 1 \in S
    PROVE  Nat \subseteq S
  <1> DEFINE T == Nat \ S
  <1> SUFFICES ASSUME T # {} PROVE FALSE
    OBVIOUS
  <1>1. PICK m \in T : \A k \in T : m <= k
    BY LeastElement
  <1>2. m # 0 /\ m - 1 \in Nat /\ m - 1 \notin T
    BY <1>1
  <1> QED
    BY <1>2

-----------------------------------------------------------------------------
(* A free list whose length is not bounded by the number of pages yet. *)
SomeFreeList(m, F) == \E n \in Nat : \E s \in [1 .. n -> F] : IsFreeList(m, F, n, s)

(* The links of pages off the list F are NULL. *)
UnlinkedOutside(m, F) == \A p \in Page \ F : m.pp_link[p] = NULL

(* A list of the pages of F, each once, is as long as F is large. *)
LEMMA ListLength ==
    ASSUME NEW m, NEW F, SomeFreeList(m, F)
    PROVE  FreeListIs(m, F)
  <1>1. PICK n \in Nat : \E s \in [1 .. n -> F] : IsFreeList(m, F, n, s)
    BY DEF SomeFreeList
  <1>2. PICK s \in [1 .. n -> F] : IsFreeList(m, F, n, s)
    BY <1>1
  <1>3. IsFiniteSet(1 .. n) /\ Cardinality(1 .. n) = n
    BY FS_Interval
  <1>4. s \in Bijection(1 .. n, F)
    BY <1>2 DEF IsFreeList, Bijection, Injection, Surjection, IsInjective
  <1>5. Cardinality(F) = n
    BY <1>3, <1>4, FS_Bijection DEF ExistsBijection
  <1> QED
    BY <1>2, <1>5 DEF FreeListIs

(* A list that holds the pages of F only depends on the head and on the links of F. *)
LEMMA ListFrame ==
    ASSUME NEW m1, NEW m2, NEW F, SomeFreeList(m1, F),
           m2.page_free_list = m1.page_free_list,
           \A p \in F : m2.pp_link[p] = m1.pp_link[p]
    PROVE  SomeFreeList(m2, F)
  BY DEF SomeFreeList, IsFreeList

(* Pushing a page in front of the list adds it to the list. *)
LEMMA ListPush ==
    ASSUME NEW m1, NEW m2, NEW F, SomeFreeList(m1, F),
           NEW pp, pp \notin F,
           m2.page_free_list = pp,
           m2.pp_link[pp] = m1.page_free_list,
           \A p \in F : m2.pp_link[p] = m1.pp_link[p]
    PROVE  SomeFreeList(m2, F \cup {pp})
  <1>1. PICK n \in Nat : \E s \in [1 .. n -> F] : IsFreeList(m1, F, n, s)
    BY DEF SomeFreeList
  <1>2. PICK s \in [1 .. n -> F] : IsFreeList(m1, F, n, s)
    BY <1>1
  <1> DEFINE G == F \cup {pp}
             t == [j \in 1 .. n + 1 |-> IF j = 1 THEN pp ELSE s[j - 1]]
  <1>3. t \in [1 .. n + 1 -> G]
    BY <1>2
  <1>4. m2.page_free_list = IF n + 1 = 0 THEN NULL ELSE t[1]
    OBVIOUS
  <1>5. ASSUME NEW j \in 1 .. n + 1
        PROVE  m2.pp_link[t[j]] = IF j = n + 1 THEN NULL ELSE t[j + 1]
    <2>1. CASE j = 1
      <3>1. t[j] = pp /\ m2.pp_link[t[j]] = m1.page_free_list
        BY <2>1
      <3>2. CASE n = 0
        BY <1>2, <2>1, <3>1, <3>2 DEF IsFreeList
      <3>3. CASE n # 0
        <4>1. m1.page_free_list = s[1]
          BY <1>2, <3>3 DEF IsFreeList
        <4>2. j + 1 \in 1 .. n + 1 /\ t[j + 1] = s[1]
          BY <2>1, <3>3
        <4> QED
          BY <2>1, <3>1, <3>3, <4>1, <4>2
      <3> QED
        BY <3>2, <3>3
    <2>2. CASE j # 1
      <3>1. j - 1 \in 1 .. n /\ t[j] = s[j - 1] /\ s[j - 1] \in F
        BY <1>2, <2>2
      <3>2. m2.pp_link[t[j]] = IF j - 1 = n THEN NULL ELSE s[(j - 1) + 1]
        BY <1>2, <3>1 DEF IsFreeList
      <3>3. j # n + 1 => j + 1 \in 1 .. n + 1 /\ t[j + 1] = s[j]
        BY <2>2
      <3> QED
        BY <3>1, <3>2, <3>3
    <2> QED
      BY <2>1, <2>2
  <1>6. ASSUME NEW j \in 1 .. n + 1, NEW k \in 1 .. n + 1, t[j] = t[k]
        PROVE  j = k
    <2>1. \A i \in 2 .. n + 1 : i - 1 \in 1 .. n /\ t[i] = s[i - 1] /\ t[i] \in F
      BY <1>2
    <2>2. t[1] = pp
      OBVIOUS
    <2>3. CASE j = 1 \/ k = 1
      BY <1>6, <2>1, <2>2, <2>3
    <2>4. CASE j # 1 /\ k # 1
      <3>1. j \in 2 .. n + 1 /\ k \in 2 .. n + 1
        BY <2>4
      <3>2. s[j - 1] = s[k - 1] /\ j - 1 \in 1 .. n /\ k - 1 \in 1 .. n
        BY <1>6, <2>1, <3>1
      <3>3. j - 1 = k - 1
        BY <1>2, <3>2 DEF IsFreeList
      <3> QED
        BY <3>3
    <2> QED
      BY <2>3, <2>4
  <1>7. ASSUME NEW p \in G
        PROVE  \E j \in 1 .. n + 1 : t[j] = p
    <2>1. CASE p = pp
      BY <2>1
    <2>2. CASE p # pp
      <3>1. PICK j \in 1 .. n : s[j] = p
        BY <1>2, <2>2 DEF IsFreeList
      <3>2. j + 1 \in 1 .. n + 1 /\ t[j + 1] = p
        BY <3>1
      <3> QED
        BY <3>2
    <2> QED
      BY <2>1, <2>2
  <1>8. IsFreeList(m2, G, n + 1, t)
    BY <1>3, <1>4, <1>5, <1>6, <1>7 DEF IsFreeList
  <1> HIDE DEF t
  <1> QED
    BY <1>3, <1>8 DEF SomeFreeList

(* The head of a list is one of its pages, and the list is empty only when *)
(* there is no page to list.                                               *)
LEMMA ListHead ==
    ASSUME NEW m, NEW F, NULL \notin F, SomeFreeList(m, F)
    PROVE  /\ m.page_free_list = NULL => F = {}
           /\ m.page_free_list # NULL => m.page_free_list \in F
           /\ m.page_free_list \in F \cup {NULL}
  <1>1. PICK n \in Nat : \E s \in [1 .. n -> F] : IsFreeList(m, F, n, s)
    BY DEF SomeFreeList
  <1>2. PICK s \in [1 .. n -> F] : IsFreeList(m, F, n, s)
    BY <1>1
  <1>3. CASE n = 0
    BY <1>2, <1>3 DEF IsFreeList
  <1>4. CASE n # 0
    <2>1. m.page_free_list = s[1] /\ s[1] \in F
      BY <1>2, <1>4 DEF IsFreeList
    <2> QED
      BY <2>1
  <1> QED
    BY <1>3, <1>4

(* Popping the head leaves a list of the other pages. *)
LEMMA ListPop ==
    ASSUME NEW m1, NEW m2, NEW F, SomeFreeList(m1, F),
           m1.page_free_list # NULL,
           m2.page_free_list = m1.pp_link[m1.page_free_list],
           \A p \in F \ {m1.page_free_list} : m2.pp_link[p] = m1.pp_link[p]
    PROVE  SomeFreeList(m2, F \ {m1.page_free_list})
  <1>1. PICK n \in Nat : \E s \in [1 .. n -> F] : IsFreeList(m1, F, n, s)
    BY DEF SomeFreeList
  <1>2. PICK s \in [1 .. n -> F] : IsFreeList(m1, F, n, s)
    BY <1>1
  <1>3. n # 0 /\ m1.page_free_list = s[1]
    BY <1>2 DEF IsFreeList
  <1> DEFINE h == s[1]
             G == F \ {h}
             t == [j \in 1 .. n - 1 |-> s[j + 1]]
  <1>4. \A j \in 1 .. n - 1 : j + 1 \in 1 .. n /\ t[j] = s[j + 1] /\ t[j] \in G
    BY <1>2, <1>3 DEF IsFreeList
  <1>5. t \in [1 .. n - 1 -> G]
    BY <1>4
  <1>6. m2.page_free_list = IF n - 1 = 0 THEN NULL ELSE t[1]
    <2>1. m2.page_free_list = IF 1 = n THEN NULL ELSE s[1 + 1]
      BY <1>2, <1>3 DEF IsFreeList
    <2> QED
      BY <1>3, <2>1
  <1>7. ASSUME NEW j \in 1 .. n - 1
        PROVE  m2.pp_link[t[j]] = IF j = n - 1 THEN NULL ELSE t[j + 1]
    <2>1. m2.pp_link[t[j]] = m1.pp_link[s[j + 1]]
      BY <1>3, <1>4
    <2>2. m1.pp_link[s[j + 1]] = IF j + 1 = n THEN NULL ELSE s[(j + 1) + 1]
      BY <1>2, <1>4 DEF IsFreeList
    <2>3. j # n - 1 => j + 1 \in 1 .. n - 1 /\ t[j + 1] = s[(j + 1) + 1]
      OBVIOUS
    <2> QED
      BY <2>1, <2>2, <2>3
  <1>8. ASSUME NEW j \in 1 .. n - 1, NEW k \in 1 .. n - 1, t[j] = t[k]
        PROVE  j = k
    <2>1. j + 1 = k + 1
      BY <1>2, <1>4, <1>8 DEF IsFreeList
    <2> QED
      BY <2>1
  <1>9. ASSUME NEW p \in G
        PROVE  \E j \in 1 .. n - 1 : t[j] = p
    <2>1. PICK j \in 1 .. n : s[j] = p
      BY <1>2 DEF IsFreeList
    <2>2. j # 1
      BY <2>1
    <2>3. j - 1 \in 1 .. n - 1 /\ t[j - 1] = p
      BY <2>1, <2>2
    <2> QED
      BY <2>3
  <1>10. n - 1 \in Nat
    BY <1>3
  <1>11. IsFreeList(m2, G, n - 1, t)
    BY <1>5, <1>6, <1>7, <1>8, <1>9 DEF IsFreeList
  <1> HIDE DEF t
  <1> QED
    BY <1>3, <1>5, <1>10, <1>11 DEF SomeFreeList
(* Following the links of a list of the pages of F visits them all and     *)
(* ends at NULL.                                                           *)
LEMMA ListWalks ==
    ASSUME NEW m, NEW F \in SUBSET Page, SomeFreeList(m, F)
    PROVE  FreeListWalks(m, F)
  <1> DEFINE n == Cardinality(F)
  <1>1. PICK s \in [1 .. n -> F] : IsFreeList(m, F, n, s)
    BY ListLength DEF FreeListIs
  <1>2. n \in Nat
    <2>1. PICK l \in Nat : \E r \in [1 .. l -> F] : IsFreeList(m, F, l, r)
      BY DEF SomeFreeList
    <2>2. PICK r \in [1 .. l -> F] : IsFreeList(m, F, l, r)
      BY <2>1
    <2>3. IsFiniteSet(1 .. l)
      BY FS_Interval
    <2>4. r \in Surjection(1 .. l, F)
      BY <2>2 DEF IsFreeList, Surjection
    <2>5. IsFiniteSet(F)
      BY <2>3, <2>4, FS_Surjection
    <2> QED
      BY <2>5, FS_CardinalityType
  <1> HIDE DEF n
  <1> DEFINE Walk(g) == g = [i \in 0 .. n |->
                                IF i = 0 THEN m.page_free_list
                                ELSE IF g[i - 1] = NULL THEN NULL ELSE m.pp_link[g[i - 1]]]
             path == [i \in 0 .. n |-> IF i < n THEN s[i + 1] ELSE NULL]
             at   == CHOOSE g : Walk(g)
  <1>3. \A i \in 1 .. n : s[i] # NULL
    BY <1>1, NullAssumption DEF Page
  <1>4. path[0] = m.page_free_list
    BY <1>1, <1>2 DEF IsFreeList
  <1>5. ASSUME NEW i \in 1 .. n
        PROVE  path[i - 1] # NULL /\ m.pp_link[path[i - 1]] = path[i]
    <2>1. path[i - 1] = s[i]
      BY <1>2
    <2>2. m.pp_link[s[i]] = IF i = n THEN NULL ELSE s[i + 1]
      BY <1>1 DEF IsFreeList
    <2> QED
      BY <1>2, <1>3, <2>1, <2>2
  <1>6. path = [i \in 0 .. n |-> path[i]]
    OBVIOUS
  <1>7. path[n] = NULL /\ \A i \in 0 .. n - 1 : path[i] = s[i + 1]
    BY <1>2
  <1> HIDE DEF path
  <1>8. Walk(path)
    <2>1. \A i \in 0 .. n : path[i] = IF i = 0 THEN m.page_free_list
              ELSE IF path[i - 1] = NULL THEN NULL ELSE m.pp_link[path[i - 1]]
      BY <1>2, <1>4, <1>5
    <2> QED
      BY <1>6, <2>1
  <1>9. Walk(at)
    BY <1>8
  <1> HIDE DEF at
  <1>10. ASSUME NEW i \in 0 .. n PROVE at[i] = path[i]
    <2> DEFINE S == {j \in Nat : j \in 0 .. n => at[j] = path[j]}
    <2>1. 0 \in S
      BY <1>2, <1>4, <1>9
    <2>2. ASSUME NEW j \in Nat, j \in S PROVE j + 1 \in S
      <3> SUFFICES ASSUME j + 1 \in 0 .. n PROVE at[j + 1] = path[j + 1]
        OBVIOUS
      <3>1. j \in 0 .. n /\ j + 1 \in 1 .. n /\ (j + 1) - 1 = j /\ j + 1 # 0
        BY <1>2
      <3>2. at[j] = path[j]
        BY <2>2, <3>1
      <3>3. at[j + 1] = IF at[j] = NULL THEN NULL ELSE m.pp_link[at[j]]
        BY <1>9, <3>1
      <3>4. path[j] # NULL /\ m.pp_link[path[j]] = path[j + 1]
        BY <1>5, <3>1
      <3> QED
        BY <3>2, <3>3, <3>4
    <2> HIDE DEF S
    <2>3. Nat \subseteq S
      BY <2>1, <2>2, SetInduction
    <2> QED
      BY <1>2, <2>3 DEF S
  <1>11. at[n] = NULL
    BY <1>2, <1>7, <1>10
  <1>12. {at[i] : i \in 0 .. n - 1} = F
    <2>1. \A i \in 0 .. n - 1 : at[i] = s[i + 1] /\ i + 1 \in 1 .. n
      BY <1>2, <1>7, <1>10
    <2>2. ASSUME NEW p \in F PROVE \E i \in 0 .. n - 1 : at[i] = p
      <3>1. PICK j \in 1 .. n : s[j] = p
        BY <1>1 DEF IsFreeList
      <3>2. j - 1 \in 0 .. n - 1 /\ (j - 1) + 1 = j
        BY <1>2
      <3> QED
        BY <2>1, <3>1, <3>2
    <2> QED
      BY <1>1, <2>1, <2>2
  <1> QED
    BY <1>11, <1>12 DEF FreeListWalks, at, n

-----------------------------------------------------------------------------

MemType(m) ==
    /\ {"pp_ref", "pp_link", "page_free_list", "panicked", "pt", "cr3", "tlb"} \subseteq DOMAIN m
    /\ m.pp_ref \in [Page -> 0 .. RefMax]
    /\ m.pp_link \in [Page -> PageOrNull]
    /\ m.page_free_list \in PageOrNull
    /\ m.pt \in [Page -> [Slot -> Entry]]
    /\ m.cr3 \in Page
    /\ m.tlb \subseteq [va : VA, ppn : Page, perm : Perm]

(* Entry i of page t refers to page p. *)
Names(m, t, i, p) == m.pt[t][i] # NULL /\ m.pt[t][i].ppn = p

(* Page t is a page table of the user part of one of the directories. *)
IsTable(m, Ds, t) == \E d \in Ds, s \in UserSlot : Names(m, d, s, t)

(* The entries of the user parts of the directories that refer to p. *)
Refs(m, Ds, p) ==
    {r \in Page \X Slot : /\ Names(m, r[1], r[2], p)
                          /\ (r[1] \in Ds /\ r[2] \in UserSlot) \/ IsTable(m, Ds, r[1])}

(* Pages whose count boot set for good. *)
Kept(m) == ReservedPages \cup KernTables(m)

(* Directories and the kernel's pages hold what they held, the second time *)
(* with the exception of entry i of directory d.                           *)
Steady(m, a, Ds) == \A x \in Ds \cup Kept(m), s \in Slot : a.pt[x][s] = m.pt[x][s]

SteadyBut(m, a, Ds, d, i) ==
    \A x \in Ds \cup Kept(m), s \in Slot : x # d \/ s # i => a.pt[x][s] = m.pt[x][s]

Unused(m, Ds, H) == {p \in Page : Refs(m, Ds, p) = {} /\ p \notin H /\ p \notin Kept(m)}

(* The kernel part of a directory refers to the kernel's page tables, to   *)
(* what boot reserved or to the directory itself.                          *)
KernPart(m, Ds) ==
    \A d \in Ds, s \in Slot \ UserSlot :
        m.pt[d][s] # NULL => m.pt[d][s].ppn \in Kept(m) \cup {d}

(* User mappings do not reach directories and the kernel's pages; a page   *)
(* table hangs in one directory slot, is not mapped besides, and is not    *)
(* held by anybody.                                                        *)
Apart(m, Ds, H) ==
    \A p \in Page : \A r \in Refs(m, Ds, p) :
        /\ p \notin Ds /\ p \notin Kept(m)
        /\ r[1] \in Ds => p \notin H /\ Refs(m, Ds, p) = {r}

Counted(X, p) == IF p \in X THEN 1 ELSE 0

Counts(m, Ds, X) ==
    \A p \in Page :
        m.pp_ref[p] = IF p \in Kept(m) THEN 1 ELSE Cardinality(Refs(m, Ds, p)) + Counted(X, p)

Holders(m, Ds, H, X) ==
    /\ kern_pgdir \in Ds
    /\ Ds \subseteq H \cup ReservedPages
    /\ H \subseteq Page /\ X \subseteq H
    /\ H \cap Kept(m) = {}

ListOK(m, Ds, H) ==
    /\ SomeFreeList(m, Unused(m, Ds, H))
    /\ UnlinkedOutside(m, Unused(m, Ds, H))

MemInv(m, Ds, H, X) ==
    /\ MemType(m)
    /\ ~m.panicked
    /\ Holders(m, Ds, H, X)
    /\ KernPart(m, Ds)
    /\ Apart(m, Ds, H)
    /\ Counts(m, Ds, X)
    /\ ListOK(m, Ds, H)

-----------------------------------------------------------------------------
(* The kernel's directory is one of the pages boot reserved. *)
LEMMA KernPgdir == kern_pgdir \in Page /\ kern_pgdir \in ReservedPages
  BY KernAssumption, LayoutAssumption, NPagesAssumption DEF kern_pgdir, ReservedPages, Page

(* Directories are pages. *)
LEMMA DirPages ==
    ASSUME NEW m, NEW Ds, NEW H, NEW X, Holders(m, Ds, H, X)
    PROVE  Ds \subseteq Page
  BY DEF Holders, ReservedPages

(* There are finitely many references. *)
LEMMA RefsFinite ==
    ASSUME NEW m, NEW Ds, NEW p
    PROVE  IsFiniteSet(Refs(m, Ds, p)) /\ Cardinality(Refs(m, Ds, p)) \in Nat
  <1>1. IsFiniteSet(Page) /\ IsFiniteSet(Slot)
    BY FS_Interval, NPagesAssumption, SlotAssumption DEF Page, Slot
  <1>2. IsFiniteSet(Page \X Slot)
    BY <1>1, FS_Product
  <1>3. Refs(m, Ds, p) \subseteq Page \X Slot
    BY DEF Refs
  <1> QED
    BY <1>2, <1>3, FS_Subset, FS_CardinalityType

(* The kernel's page tables are pages. *)
LEMMA KernTablesPages ==
    ASSUME NEW m, MemType(m)
    PROVE  KernTables(m) \subseteq Page
  <1>1. kern_pgdir \in Page
    BY KernPgdir
  <1>2. \A i \in UTopSlot .. NSlots - 1 : i \in Slot
    BY SlotAssumption DEF Slot
  <1>3. \A i \in Slot : m.pt[kern_pgdir][i] \in Entry
    BY <1>1 DEF MemType
  <1>4. \A i \in Slot : m.pt[kern_pgdir][i] # NULL => m.pt[kern_pgdir][i].ppn \in Page
    BY <1>3 DEF Entry
  <1> QED
    BY <1>2, <1>4 DEF KernTables

(* So is what boot reserved. *)
LEMMA KeptPages ==
    ASSUME NEW m, MemType(m)
    PROVE  Kept(m) \subseteq Page
  BY KernTablesPages DEF Kept, ReservedPages

(* The kernel's page tables depend on the kernel part of its directory. *)
LEMMA KernTablesFrame ==
    ASSUME NEW m1, NEW m2,
           \A s \in Slot \ UserSlot : m2.pt[kern_pgdir][s] = m1.pt[kern_pgdir][s]
    PROVE  KernTables(m2) = KernTables(m1) /\ Kept(m2) = Kept(m1)
  <1>1. \A i \in (UTopSlot .. NSlots - 1) \ {UVPTSlot} :
            m2.pt[kern_pgdir][i] = m1.pt[kern_pgdir][i]
    BY SlotAssumption DEF Slot, UserSlot
  <1>2. KernTables(m2) = KernTables(m1)
    BY <1>1 DEF KernTables
  <1> QED
    BY <1>2 DEF Kept

(* Nothing of the address spaces differs. *)
SameSpaces(m1, m2, Ds) ==
    /\ \A t : IsTable(m2, Ds, t) <=> IsTable(m1, Ds, t)
    /\ \A p : Refs(m2, Ds, p) = Refs(m1, Ds, p)
    /\ KernTables(m2) = KernTables(m1) /\ Kept(m2) = Kept(m1)
    /\ \A d, va : Translate(m2, d, va) = Translate(m1, d, va)
    /\ KernPart(m1, Ds) => KernPart(m2, Ds)

(* What holds references depends on the contents of pages only. *)
LEMMA RefsFrame ==
    ASSUME NEW m1, NEW m2, NEW Ds, m2.pt = m1.pt
    PROVE  SameSpaces(m1, m2, Ds)
  <1>1. \A t : IsTable(m2, Ds, t) <=> IsTable(m1, Ds, t)
    BY DEF IsTable, Names
  <1>2. \A p : Refs(m2, Ds, p) = Refs(m1, Ds, p)
    BY <1>1 DEF Refs, Names
  <1>3. Kept(m2) = Kept(m1) /\ KernTables(m2) = KernTables(m1)
    BY KernTablesFrame
  <1>4. \A d, va : Translate(m2, d, va) = Translate(m1, d, va)
    BY DEF Translate
  <1> QED
    BY <1>1, <1>2, <1>3, <1>4 DEF KernPart, SameSpaces

-----------------------------------------------------------------------------
(* A record with the list and the counts of another, and the same kernel   *)
(* tables: what is left to see to when the contents of pages change.       *)
LEMMA ContentsFrame ==
    ASSUME NEW m1, NEW m2, NEW Ds, NEW H, NEW X, MemInv(m1, Ds, H, X),
           MemType(m2), m2.panicked = m1.panicked,
           m2.pp_ref = m1.pp_ref, m2.pp_link = m1.pp_link,
           m2.page_free_list = m1.page_free_list,
           Kept(m2) = Kept(m1),
           \A p \in Page : Refs(m2, Ds, p) = Refs(m1, Ds, p),
           KernPart(m2, Ds)
    PROVE  MemInv(m2, Ds, H, X)
  <1>1. Unused(m2, Ds, H) = Unused(m1, Ds, H)
    BY DEF Unused
  <1>2. ListOK(m2, Ds, H)
    <2>1. ListOK(m1, Ds, H) /\ Unused(m1, Ds, H) \in SUBSET Page
      BY DEF MemInv, Unused
    <2>2. SomeFreeList(m2, Unused(m1, Ds, H))
      BY <2>1, ListFrame DEF ListOK
    <2> QED
      BY <1>1, <2>1, <2>2 DEF ListOK, UnlinkedOutside
  <1>3. Apart(m2, Ds, H) /\ Counts(m2, Ds, X) /\ Holders(m2, Ds, H, X)
    BY DEF MemInv, Apart, Counts, Holders
  <1> QED
    BY <1>2, <1>3 DEF MemInv

(* Where a directory's entries lead: the table is no directory of another, *)
(* and a user table is found through one slot of one directory only.       *)
LEMMA TableFacts ==
    ASSUME NEW m, NEW Ds, NEW H, NEW X, MemInv(m, Ds, H, X),
           NEW d \in Ds, NEW s \in UserSlot, m.pt[d][s] # NULL
    PROVE  LET t == m.pt[d][s].ppn
           IN  /\ t \in Page /\ IsTable(m, Ds, t)
               /\ t \notin Ds /\ t \notin Kept(m) /\ t \notin H
               /\ Refs(m, Ds, t) = {<<d, s>>}
               /\ \A c \in Ds, i \in UserSlot : Names(m, c, i, t) => c = d /\ i = s
  <1> DEFINE t == m.pt[d][s].ppn
  <1>1. Ds \subseteq Page /\ UserSlot \subseteq Slot
    BY DirPages, SlotAssumption DEF MemInv, UserSlot, Slot
  <1>2. m.pt[d][s] \in Entry
    BY <1>1 DEF MemInv, MemType
  <1>3. t \in Page /\ Names(m, d, s, t)
    BY <1>2 DEF Entry, Names
  <1> HIDE DEF t
  <1>4. IsTable(m, Ds, t)
    BY <1>3 DEF IsTable
  <1>5. \A c \in Ds, i \in UserSlot : Names(m, c, i, t) => <<c, i>> \in Refs(m, Ds, t)
    BY <1>1 DEF Refs
  <1>6. <<d, s>> \in Refs(m, Ds, t)
    BY <1>3, <1>5
  <1>7. t \notin Ds /\ t \notin Kept(m) /\ t \notin H /\ Refs(m, Ds, t) = {<<d, s>>}
    BY <1>3, <1>6 DEF MemInv, Apart
  <1>8. \A c \in Ds, i \in UserSlot : Names(m, c, i, t) => c = d /\ i = s
    BY <1>5, <1>7
  <1> QED
    BY <1>3, <1>4, <1>7, <1>8 DEF t

(* The page that a page walk in a directory reads its second entry from is *)
(* no page that is free or held, unless it is a directory.                 *)
LEMMA WalkPage ==
    ASSUME NEW m, NEW Ds, NEW H, NEW X, MemInv(m, Ds, H, X),
           NEW d \in Ds, NEW s \in Slot, m.pt[d][s] # NULL
    PROVE  LET t == m.pt[d][s].ppn
           IN  /\ t \in Page
               /\ t \in Kept(m) \/ t = d \/ IsTable(m, Ds, t)
               /\ s \in Slot \ UserSlot => t \in Kept(m) \/ t = d
               /\ s \in UserSlot => IsTable(m, Ds, t) /\ t \notin Kept(m) /\ t \notin Ds
  <1> DEFINE t == m.pt[d][s].ppn
  <1>1. Ds \subseteq Page
    BY DirPages DEF MemInv
  <1>2. m.pt[d][s] \in Entry
    BY <1>1 DEF MemInv, MemType
  <1>3. t \in Page
    BY <1>2 DEF Entry
  <1>4. CASE s \in UserSlot
    BY <1>4, <1>3, TableFacts
  <1>5. CASE s \in Slot \ UserSlot
    BY <1>5, <1>3 DEF MemInv, KernPart
  <1> QED
    BY <1>3, <1>4, <1>5

(* A store of f to all of page q. *)
WritePage(m, q, f) == [m EXCEPT !.pt[q] = f]

(* Whoever holds a page may write to it: nothing of the address spaces     *)
(* changes, nor when somebody writes to a data page.                       *)
LEMMA WriteInv ==
    ASSUME NEW m, NEW Ds, NEW H, NEW X, MemInv(m, Ds, H, X),
           NEW q \in Page, q \notin Ds, q \notin Kept(m), ~IsTable(m, Ds, q),
           NEW f \in [Slot -> Entry]
    PROVE  LET m2 == WritePage(m, q, f)
           IN  /\ MemInv(m2, Ds, H, X)
               /\ m2.pt = [m.pt EXCEPT ![q] = f]
               /\ \A t : IsTable(m2, Ds, t) <=> IsTable(m, Ds, t)
               /\ \A p \in Page : Refs(m2, Ds, p) = Refs(m, Ds, p)
               /\ KernTables(m2) = KernTables(m)
               /\ \A d \in Ds, va \in VA : Translate(m2, d, va) = Translate(m, d, va)
               /\ m2.cr3 = m.cr3 /\ m2.tlb = m.tlb
               /\ m2.page_free_list = m.page_free_list /\ m2.pp_ref = m.pp_ref
  <1> DEFINE m2 == WritePage(m, q, f)
  <1>1. Ds \subseteq Page /\ kern_pgdir \in Ds
    BY DirPages DEF MemInv, Holders
  <1>2. /\ m2.pt = [m.pt EXCEPT ![q] = f]
        /\ m2.cr3 = m.cr3 /\ m2.tlb = m.tlb /\ m2.panicked = m.panicked
        /\ m2.pp_ref = m.pp_ref /\ m2.pp_link = m.pp_link
        /\ m2.page_free_list = m.page_free_list
        /\ DOMAIN m2 = DOMAIN m
    BY DEF MemInv, MemType, WritePage
  <1> HIDE DEF m2
  <1>3. m2.pt \in [Page -> [Slot -> Entry]]
    BY <1>2 DEF MemInv, MemType
  <1>4. MemType(m2)
    BY <1>2, <1>3 DEF MemInv, MemType
  <1>5. \A t \in Page : t # q => m2.pt[t] = m.pt[t]
    BY <1>2 DEF MemInv, MemType
  <1>6. \A d \in Ds : m2.pt[d] = m.pt[d]
    BY <1>1, <1>5
  <1>7. \A t : IsTable(m2, Ds, t) <=> IsTable(m, Ds, t)
    BY <1>6 DEF IsTable, Names
  <1>8. Kept(m2) = Kept(m) /\ KernTables(m2) = KernTables(m)
    BY <1>1, <1>6, KernTablesFrame
  <1>9. \A p \in Page : Refs(m2, Ds, p) = Refs(m, Ds, p)
    <2> SUFFICES ASSUME NEW p \in Page, NEW r \in Page \X Slot
                 PROVE  r \in Refs(m2, Ds, p) <=> r \in Refs(m, Ds, p)
      BY DEF Refs
    <2>1. CASE r[1] = q
      BY <2>1, <1>7 DEF Refs
    <2>2. CASE r[1] # q
      <3>1. m2.pt[r[1]] = m.pt[r[1]]
        BY <2>2, <1>5
      <3>2. Names(m2, r[1], r[2], p) <=> Names(m, r[1], r[2], p)
        BY <3>1 DEF Names
      <3> QED
        BY <1>7, <3>2 DEF Refs
    <2> QED
      BY <2>1, <2>2
  <1>10. KernPart(m2, Ds)
    BY <1>6, <1>8 DEF MemInv, KernPart
  <1>11. MemInv(m2, Ds, H, X)
    BY <1>2, <1>4, <1>8, <1>9, <1>10, ContentsFrame
  <1>12. ASSUME NEW d \in Ds, NEW va \in VA PROVE Translate(m2, d, va) = Translate(m, d, va)
    <2>1. va[1] \in Slot /\ va[2] \in Slot
      BY DEF VA
    <2>2. CASE m.pt[d][va[1]] = NULL
      BY <1>6, <2>2 DEF Translate
    <2>3. CASE m.pt[d][va[1]] # NULL
      <3>1. m.pt[d][va[1]].ppn \in Page /\ m.pt[d][va[1]].ppn # q
        BY <2>1, <2>3, WalkPage
      <3> QED
        BY <1>5, <1>6, <2>3, <3>1 DEF Translate
    <2> QED
      BY <2>2, <2>3
  <1> QED
    BY <1>2, <1>7, <1>8, <1>9, <1>11, <1>12 DEF m2

(* The same of the memory m2 that it leaves, as one fact. *)
PageWritten(m, m2, Ds, H, X, q, f) ==
    /\ MemInv(m2, Ds, H, X)
    /\ m2.pt = [m.pt EXCEPT ![q] = f]
    /\ \A x \in Page : Refs(m2, Ds, x) = Refs(m, Ds, x)
    /\ KernTables(m2) = KernTables(m)
    /\ \A d \in Ds, va \in VA : Translate(m2, d, va) = Translate(m, d, va)
    /\ m2.cr3 = m.cr3 /\ m2.tlb = m.tlb

LEMMA WritesPage ==
    ASSUME NEW m, NEW Ds, NEW H, NEW X, MemInv(m, Ds, H, X),
           NEW q \in Page, q \notin Ds, q \notin Kept(m), ~IsTable(m, Ds, q),
           NEW f \in [Slot -> Entry], NEW m2, m2 = WritePage(m, q, f)
    PROVE  PageWritten(m, m2, Ds, H, X, q, f)
  <1> DEFINE v == WritePage(m, q, f)
  <1>1. /\ MemInv(v, Ds, H, X)
        /\ v.pt = [m.pt EXCEPT ![q] = f]
        /\ \A x \in Page : Refs(v, Ds, x) = Refs(m, Ds, x)
        /\ KernTables(v) = KernTables(m)
        /\ \A d \in Ds, va \in VA : Translate(v, d, va) = Translate(m, d, va)
        /\ v.cr3 = m.cr3 /\ v.tlb = m.tlb
    BY WriteInv
  <1> HIDE DEF v
  <1>2. PageWritten(m, v, Ds, H, X, q, f)
    BY <1>1 DEF PageWritten
  <1>3. m2 = v
    BY DEF v
  <1> QED
    BY <1>2, <1>3

-----------------------------------------------------------------------------
(* page_alloc() hands a page that nothing uses to its caller, or fails     *)
(* because there is none.                                                  *)
LEMMA AllocInv ==
    ASSUME NEW m, NEW Ds, NEW H, NEW X, MemInv(m, Ds, H, X)
    PROVE  LET p == page_alloc_ret(m)
               a == page_alloc(m)
           IN  /\ p = NULL => a = m
               /\ p # NULL => p \in Unused(m, Ds, H) /\ p \in Page /\ MemInv(a, Ds, H \cup {p}, X)
               /\ MemInv(a, Ds, H \cup ({p} \ {NULL}), X)
               /\ a.pt = m.pt /\ a.cr3 = m.cr3 /\ a.tlb = m.tlb /\ a.pp_ref = m.pp_ref
  <1> DEFINE p == page_alloc_ret(m)
             a == page_alloc(m)
             F == Unused(m, Ds, H)
  <1>0. F \in SUBSET Page /\ SomeFreeList(m, F) /\ UnlinkedOutside(m, F)
    BY DEF MemInv, ListOK, Unused
  <1>1. CASE m.page_free_list = NULL
    <2>1. p = NULL /\ a = m /\ H \cup ({p} \ {NULL}) = H
      BY <1>1 DEF page_alloc_ret, page_alloc
    <2> QED
      BY <2>1
  <1>2. CASE m.page_free_list # NULL
    <2>1. p = m.page_free_list /\ p # NULL /\ p \in F /\ p \in Page
      BY <1>0, <1>2, ListHead, NullAssumption DEF page_alloc_ret, Page
    <2>2. a = [m EXCEPT !.pp_link[p] = NULL, !.page_free_list = m.pp_link[p]]
      BY <1>2 DEF page_alloc, page_alloc_ret
    <2> HIDE DEF p, a
    <2>3. /\ a.page_free_list = m.pp_link[p]
          /\ a.pp_link = [m.pp_link EXCEPT ![p] = NULL]
          /\ a.pp_ref = m.pp_ref /\ a.panicked = m.panicked
          /\ a.pt = m.pt /\ a.cr3 = m.cr3 /\ a.tlb = m.tlb
          /\ DOMAIN a = DOMAIN m
      BY <2>2 DEF MemInv, MemType
    <2>4. /\ a.pp_link[p] = NULL
          /\ \A q \in Page \ {p} : a.pp_link[q] = m.pp_link[q]
      BY <2>1, <2>3 DEF MemInv, MemType
    <2>5. MemType(a)
      <3>1. m.pp_link[p] \in PageOrNull /\ NULL \in PageOrNull
        BY <2>1 DEF MemInv, MemType, PageOrNull
      <3>2. a.pp_link \in [Page -> PageOrNull]
        BY <2>3, <3>1 DEF MemInv, MemType
      <3> QED
        BY <2>3, <3>1, <3>2 DEF MemInv, MemType
    <2>6. Kept(a) = Kept(m) /\ (KernPart(m, Ds) => KernPart(a, Ds))
          /\ \A x : Refs(a, Ds, x) = Refs(m, Ds, x)
      <3>1. a.pt = m.pt
        BY <2>3
      <3>2. SameSpaces(m, a, Ds)
        BY <3>1, RefsFrame
      <3> QED
        BY <3>2 DEF SameSpaces
    <2>7. Unused(a, Ds, H \cup {p}) = F \ {p}
      BY <2>6 DEF Unused
    <2>8. ListOK(a, Ds, H \cup {p})
      <3>1. SomeFreeList(a, F \ {p})
        BY <1>0, <1>2, <2>1, <2>3, <2>4, ListPop
      <3>2. UnlinkedOutside(a, F \ {p})
        BY <1>0, <2>4 DEF UnlinkedOutside
      <3> QED
        BY <2>7, <3>1, <3>2 DEF ListOK
    <2>9. p \notin Kept(m) /\ Refs(m, Ds, p) = {}
      BY <2>1 DEF Unused
    <2>10. Holders(a, Ds, H \cup {p}, X)
      BY <2>1, <2>6, <2>9 DEF MemInv, Holders
    <2>11. Apart(a, Ds, H \cup {p})
      BY <2>6, <2>9 DEF MemInv, Apart
    <2>12. Counts(a, Ds, X)
      BY <2>3, <2>6 DEF MemInv, Counts
    <2>13. MemInv(a, Ds, H \cup {p}, X)
      BY <2>3, <2>5, <2>6, <2>8, <2>10, <2>11, <2>12 DEF MemInv
    <2>14. H \cup ({p} \ {NULL}) = H \cup {p}
      BY <2>1
    <2> QED
      BY <2>1, <2>3, <2>13, <2>14 DEF p, a
  <1> QED
    BY <1>1, <1>2

(* page_free() takes back a page that somebody holds uncounted. *)
LEMMA FreeInv ==
    ASSUME NEW m, NEW Ds, NEW H, NEW X, MemInv(m, Ds, H, X),
           NEW q \in H, q \notin X, q \notin Ds, Refs(m, Ds, q) = {}
    PROVE  LET a == page_free(m, q)
           IN  /\ MemInv(a, Ds, H \ {q}, X)
               /\ a.pt = m.pt /\ a.cr3 = m.cr3 /\ a.tlb = m.tlb
  <1> DEFINE a == page_free(m, q)
             F == Unused(m, Ds, H)
  <1>0. F \in SUBSET Page /\ SomeFreeList(m, F) /\ UnlinkedOutside(m, F)
    BY DEF MemInv, ListOK, Unused
  <1>1. q \in Page /\ q \notin F /\ q \notin Kept(m)
    BY DEF MemInv, Holders, Unused
  <1>2. m.pp_link[q] = NULL
    BY <1>0, <1>1 DEF UnlinkedOutside
  <1>3. m.pp_ref[q] = 0
    BY <1>1, FS_EmptySet DEF MemInv, Counts, Counted
  <1>4. a = [m EXCEPT !.pp_link[q] = m.page_free_list, !.page_free_list = q]
    BY <1>2, <1>3 DEF page_free
  <1> HIDE DEF a
  <1>5. /\ a.page_free_list = q
        /\ a.pp_link = [m.pp_link EXCEPT ![q] = m.page_free_list]
        /\ a.pp_ref = m.pp_ref /\ a.panicked = m.panicked
        /\ a.pt = m.pt /\ a.cr3 = m.cr3 /\ a.tlb = m.tlb
        /\ DOMAIN a = DOMAIN m
    BY <1>4 DEF MemInv, MemType
  <1>6. /\ a.pp_link[q] = m.page_free_list
        /\ \A x \in Page \ {q} : a.pp_link[x] = m.pp_link[x]
    BY <1>1, <1>5 DEF MemInv, MemType
  <1>7. MemType(a)
    <2>1. q \in PageOrNull /\ m.page_free_list \in PageOrNull
      BY <1>1 DEF MemInv, MemType, PageOrNull
    <2>2. a.pp_link \in [Page -> PageOrNull]
      BY <1>5, <2>1 DEF MemInv, MemType
    <2> QED
      BY <1>5, <2>1, <2>2 DEF MemInv, MemType
  <1>8. Kept(a) = Kept(m) /\ (KernPart(m, Ds) => KernPart(a, Ds))
        /\ \A x : Refs(a, Ds, x) = Refs(m, Ds, x)
    <2>1. a.pt = m.pt
      BY <1>5
    <2>2. SameSpaces(m, a, Ds)
      BY <2>1, RefsFrame
    <2> QED
      BY <2>2 DEF SameSpaces
  <1>9. Unused(a, Ds, H \ {q}) = F \cup {q}
    BY <1>1, <1>8 DEF Unused
  <1>10. ListOK(a, Ds, H \ {q})
    <2>1. SomeFreeList(a, F \cup {q})
      <3>1. \A x \in F : a.pp_link[x] = m.pp_link[x]
        BY <1>0, <1>1, <1>6
      <3>2. q \in Page \ F /\ a.page_free_list = q /\ a.pp_link[q] = m.page_free_list
        BY <1>1, <1>5, <1>6
      <3> HIDE DEF F
      <3> QED
        BY <1>0, <3>1, <3>2, ListPush
    <2>2. UnlinkedOutside(a, F \cup {q})
      BY <1>0, <1>6 DEF UnlinkedOutside
    <2> QED
      BY <1>9, <2>1, <2>2 DEF ListOK
  <1>11. Holders(a, Ds, H \ {q}, X)
    BY <1>8 DEF MemInv, Holders
  <1>12. Apart(a, Ds, H \ {q})
    BY <1>8 DEF MemInv, Apart
  <1>13. Counts(a, Ds, X)
    BY <1>5, <1>8 DEF MemInv, Counts
  <1>14. MemInv(a, Ds, H \ {q}, X)
    BY <1>5, <1>7, <1>8, <1>10, <1>11, <1>12, <1>13 DEF MemInv
  <1> QED
    BY <1>5, <1>14 DEF a

(* Counting a page that is in use, other than as a page table, for whoever *)
(* is about to map it.                                                     *)
LEMMA IncrefInv ==
    ASSUME NEW m, NEW Ds, NEW H, NEW X, MemInv(m, Ds, H, X),
           NEW q \in Page, q \notin X, q \notin Kept(m), q \notin Unused(m, Ds, H),
           \A r \in Refs(m, Ds, q) : r[1] \notin Ds,
           m.pp_ref[q] < RefMax
    PROVE  LET a == page_incref(m, q)
           IN  /\ MemInv(a, Ds, H \cup {q}, X \cup {q})
               /\ a.pt = m.pt /\ a.cr3 = m.cr3 /\ a.tlb = m.tlb
               /\ a.page_free_list = m.page_free_list
  <1> DEFINE a == page_incref(m, q)
  <1>1. m.pp_ref[q] \in 0 .. RefMax /\ m.pp_ref[q] # RefMax
    BY RefMaxAssumption DEF MemInv, MemType
  <1>2. a = [m EXCEPT !.pp_ref[q] = m.pp_ref[q] + 1]
    BY <1>1 DEF page_incref, Incremented
  <1> HIDE DEF a
  <1>3. /\ a.pp_ref = [m.pp_ref EXCEPT ![q] = m.pp_ref[q] + 1]
        /\ a.page_free_list = m.page_free_list /\ a.pp_link = m.pp_link
        /\ a.panicked = m.panicked
        /\ a.pt = m.pt /\ a.cr3 = m.cr3 /\ a.tlb = m.tlb
        /\ DOMAIN a = DOMAIN m
    BY <1>2 DEF MemInv, MemType
  <1>4. /\ a.pp_ref[q] = m.pp_ref[q] + 1
        /\ \A x \in Page \ {q} : a.pp_ref[x] = m.pp_ref[x]
    BY <1>3 DEF MemInv, MemType
  <1>5. MemType(a)
    <2>1. m.pp_ref[q] + 1 \in 0 .. RefMax
      BY <1>1, RefMaxAssumption
    <2>2. a.pp_ref \in [Page -> 0 .. RefMax]
      BY <1>3, <2>1 DEF MemInv, MemType
    <2> QED
      BY <1>3, <2>2 DEF MemInv, MemType
  <1>6. Kept(a) = Kept(m) /\ (KernPart(m, Ds) => KernPart(a, Ds))
        /\ \A x : Refs(a, Ds, x) = Refs(m, Ds, x)
    <2>1. a.pt = m.pt
      BY <1>3
    <2>2. SameSpaces(m, a, Ds)
      BY <2>1, RefsFrame
    <2> QED
      BY <2>2 DEF SameSpaces
  <1>7. Unused(a, Ds, H \cup {q}) = Unused(m, Ds, H)
    BY <1>6 DEF Unused
  <1>8. ListOK(a, Ds, H \cup {q})
    <2>1. Unused(m, Ds, H) \in SUBSET Page /\ ListOK(m, Ds, H)
      BY DEF Unused, MemInv
    <2>2. SomeFreeList(a, Unused(m, Ds, H))
      BY <1>3, <2>1, ListFrame DEF ListOK
    <2> QED
      BY <1>3, <1>7, <2>1, <2>2 DEF ListOK, UnlinkedOutside
  <1>9. Holders(a, Ds, H \cup {q}, X \cup {q})
    BY <1>6 DEF MemInv, Holders
  <1>10. Apart(a, Ds, H \cup {q})
    BY <1>6 DEF MemInv, Apart
  <1>11. Counts(a, Ds, X \cup {q})
    <2> SUFFICES ASSUME NEW p \in Page
                 PROVE  a.pp_ref[p] = IF p \in Kept(a) THEN 1
                                      ELSE Cardinality(Refs(a, Ds, p)) + Counted(X \cup {q}, p)
      BY DEF Counts
    <2>1. m.pp_ref[p] = IF p \in Kept(m) THEN 1
                        ELSE Cardinality(Refs(m, Ds, p)) + Counted(X, p)
      BY DEF MemInv, Counts
    <2>2. Cardinality(Refs(m, Ds, p)) \in Nat
      BY RefsFinite
    <2>3. CASE p = q
      BY <1>4, <1>6, <2>1, <2>2, <2>3 DEF Counted
    <2>4. CASE p # q
      BY <1>4, <1>6, <2>1, <2>4 DEF Counted
    <2> QED
      BY <2>3, <2>4
  <1>12. MemInv(a, Ds, H \cup {q}, X \cup {q})
    BY <1>3, <1>5, <1>6, <1>8, <1>9, <1>10, <1>11 DEF MemInv
  <1> QED
    BY <1>3, <1>12 DEF a

-----------------------------------------------------------------------------
(* A store to a page table entry changes that entry and nothing else. *)
LEMMA StoreFacts ==
    ASSUME NEW m, MemType(m), NEW t \in Page, NEW i \in Slot, NEW e \in Entry
    PROVE  LET m2 == Store(m, PtePtr(t, i), e)
           IN  /\ MemType(m2) /\ DOMAIN m2 = DOMAIN m
               /\ m2.pt[t][i] = e
               /\ \A x \in Page, y \in Slot : x # t \/ y # i => m2.pt[x][y] = m.pt[x][y]
               /\ \A x \in Page : x # t => m2.pt[x] = m.pt[x]
               /\ m2.pp_ref = m.pp_ref /\ m2.pp_link = m.pp_link
               /\ m2.page_free_list = m.page_free_list /\ m2.panicked = m.panicked
               /\ m2.cr3 = m.cr3 /\ m2.tlb = m.tlb
  <1> DEFINE m2 == Store(m, PtePtr(t, i), e)
  <1>1. m2 = [m EXCEPT !.pt[t][i] = e]
    BY DEF Store, PtePtr
  <1> HIDE DEF m2
  <1>2. m2.pt = [m.pt EXCEPT ![t] = [m.pt[t] EXCEPT ![i] = e]]
    BY <1>1 DEF MemType
  <1>3. /\ DOMAIN m2 = DOMAIN m
        /\ m2.pp_ref = m.pp_ref /\ m2.pp_link = m.pp_link
        /\ m2.page_free_list = m.page_free_list /\ m2.panicked = m.panicked
        /\ m2.cr3 = m.cr3 /\ m2.tlb = m.tlb
    BY <1>1 DEF MemType
  <1>4. m.pt[t] \in [Slot -> Entry]
    BY DEF MemType
  <1>5. m2.pt[t] = [m.pt[t] EXCEPT ![i] = e]
        /\ \A x \in Page : x # t => m2.pt[x] = m.pt[x]
    BY <1>2 DEF MemType
  <1>6. m2.pt[t][i] = e /\ \A y \in Slot : y # i => m2.pt[t][y] = m.pt[t][y]
    BY <1>4, <1>5
  <1>7. [m.pt[t] EXCEPT ![i] = e] \in [Slot -> Entry]
    BY <1>4
  <1>8. m2.pt \in [Page -> [Slot -> Entry]]
    BY <1>2, <1>7 DEF MemType
  <1> QED
    BY <1>3, <1>5, <1>6, <1>8 DEF m2, MemType

(* An entry that names a page is no null entry. *)
LEMMA EntryOf ==
    ASSUME NEW p \in Page, NEW pm \in Perm
    PROVE  LET e == [ppn |-> p, perm |-> pm]
           IN  e \in Entry /\ e # NULL /\ e.ppn = p
  BY NullEntryAssumption DEF Entry

(* A page nothing refers to is no page table. *)
LEMMA NoTable ==
    ASSUME NEW m, NEW Ds, Ds \subseteq Page, NEW q, Refs(m, Ds, q) = {}
    PROVE  ~IsTable(m, Ds, q)
  <1>1. \A d \in Ds, s \in UserSlot : Names(m, d, s, q) => <<d, s>> \in Refs(m, Ds, q)
    BY SlotAssumption DEF Refs, UserSlot, Slot
  <1> QED
    BY <1>1 DEF IsTable

(* The references after a page table is added. *)
LEMMA TableRefs ==
    ASSUME NEW m1, NEW m2, NEW Ds, Ds \subseteq Page,
           NEW d \in Ds, NEW s \in UserSlot, NEW q \in Page,
           m1.pt[d][s] = NULL, q \notin Ds, Refs(m1, Ds, q) = {},
           \A y \in Slot : m1.pt[q][y] = NULL,
           m2.pt[d][s] # NULL, m2.pt[d][s].ppn = q,
           \A x \in Page, y \in Slot : x # d \/ y # s => m2.pt[x][y] = m1.pt[x][y]
    PROVE  /\ \A t \in Page : IsTable(m2, Ds, t) <=> IsTable(m1, Ds, t) \/ t = q
           /\ \A p \in Page : p # q => Refs(m2, Ds, p) = Refs(m1, Ds, p)
           /\ Refs(m2, Ds, q) = {<<d, s>>}
  <1>0. UserSlot \subseteq Slot
    BY SlotAssumption DEF UserSlot, Slot
  <1>1. \A x \in Page, y \in Slot : \A p : x # d \/ y # s => (Names(m2, x, y, p) <=> Names(m1, x, y, p))
    BY DEF Names
  <1>2. \A p : (Names(m2, d, s, p) <=> p = q) /\ ~Names(m1, d, s, p)
    BY DEF Names
  <1>3. \A y \in Slot : \A p : ~Names(m1, q, y, p) /\ ~Names(m2, q, y, p)
    BY <1>1 DEF Names
  <1>4. \A t \in Page : IsTable(m2, Ds, t) <=> IsTable(m1, Ds, t) \/ t = q
    BY <1>0, <1>1, <1>2 DEF IsTable
  <1>5. ASSUME NEW p \in Page, NEW x \in Page, NEW y \in Slot
        PROVE  <<x, y>> \in Refs(m2, Ds, p) <=>
                   <<x, y>> \in Refs(m1, Ds, p) \/ (p = q /\ x = d /\ y = s)
    <2>1. <<x, y>> \in Refs(m2, Ds, p) <=>
              Names(m2, x, y, p) /\ ((x \in Ds /\ y \in UserSlot) \/ IsTable(m2, Ds, x))
      BY DEF Refs
    <2>2. <<x, y>> \in Refs(m1, Ds, p) <=>
              Names(m1, x, y, p) /\ ((x \in Ds /\ y \in UserSlot) \/ IsTable(m1, Ds, x))
      BY DEF Refs
    <2>3. CASE x = d /\ y = s
      BY <1>2, <2>1, <2>2, <2>3
    <2>4. CASE x # d \/ y # s
      <3>1. Names(m2, x, y, p) <=> Names(m1, x, y, p)
        BY <1>1, <2>4
      <3>2. x = q => ~Names(m1, x, y, p)
        BY <1>3
      <3> QED
        BY <1>4, <2>1, <2>2, <2>4, <3>1, <3>2
    <2> QED
      BY <2>3, <2>4
  <1>6. \A p : Refs(m1, Ds, p) \subseteq Page \X Slot /\ Refs(m2, Ds, p) \subseteq Page \X Slot
    BY DEF Refs
  <1>7. ASSUME NEW p \in Page, p # q PROVE Refs(m2, Ds, p) = Refs(m1, Ds, p)
    <2>1. \A x \in Page, y \in Slot : <<x, y>> \in Refs(m2, Ds, p) <=> <<x, y>> \in Refs(m1, Ds, p)
      BY <1>5, <1>7
    <2> QED
      BY <1>6, <2>1
  <1>8. Refs(m2, Ds, q) = {<<d, s>>}
    <2>1. \A x \in Page, y \in Slot : <<x, y>> \notin Refs(m1, Ds, q)
      OBVIOUS
    <2>2. ASSUME NEW x \in Page, NEW y \in Slot
          PROVE  <<x, y>> \in Refs(m2, Ds, q) <=> x = d /\ y = s
      <3>1. <<x, y>> \notin Refs(m1, Ds, q)
        BY <2>1
      <3>2. <<x, y>> \in Refs(m2, Ds, q) <=>
                <<x, y>> \in Refs(m1, Ds, q) \/ (q = q /\ x = d /\ y = s)
        BY <1>5
      <3> QED
        BY <3>1, <3>2
    <2>3. <<d, s>> \in Refs(m2, Ds, q)
      BY <1>0, <2>2
    <2>4. ASSUME NEW r \in Refs(m2, Ds, q) PROVE r = <<d, s>>
      <3>1. PICK x \in Page, y \in Slot : r = <<x, y>>
        BY <1>6
      <3> QED
        BY <2>2, <3>1
    <2> QED
      BY <2>3, <2>4
  <1> QED
    BY <1>4, <1>7, <1>8

(* What pgdir_walk() does with the page it takes for a page table. *)
AddTable(m, q, d, s, pm) ==
    Store(page_incref(m, q), PtePtr(d, s), [ppn |-> q, perm |-> pm])

(* Page q has become the page table of slot s of directory d. *)
TableAdded(m, m2, Ds, H, X, q, d, s, pm) ==
    /\ MemInv(m2, Ds, H \ {q}, X)
    /\ Deref(m2, PtePtr(d, s)) = [ppn |-> q, perm |-> pm] /\ IsTable(m2, Ds, q)
    /\ \A p \in Page : p # q => Refs(m2, Ds, p) = Refs(m, Ds, p)
    /\ KernTables(m2) = KernTables(m)
    /\ \A c \in Ds, va \in VA : va[1] \in UserSlot \/ Translate(m, c, va) # NULL
            => Translate(m2, c, va) = Translate(m, c, va)
    /\ \A p \in Page : p # q => m2.pp_ref[p] = m.pp_ref[p]
    /\ m2.cr3 = m.cr3 /\ m2.tlb = m.tlb
    /\ SteadyBut(m, m2, Ds, d, s)

(* A page that is held, uncounted and zeroed becomes the page table of a   *)
(* directory slot that had none: it maps nothing, and no page that was     *)
(* found by a page walk is lost.                                           *)
LEMMA TableInv ==
    ASSUME NEW m, NEW Ds, NEW H, NEW X, MemInv(m, Ds, H, X),
           NEW q \in H, q \notin X, q \notin Ds, Refs(m, Ds, q) = {}, m.pt[q] = ZeroPage,
           NEW d \in Ds, NEW s \in UserSlot, Deref(m, PtePtr(d, s)) = NULL, NEW pm \in Perm,
           NEW m2, m2 = AddTable(m, q, d, s, pm)
    PROVE  TableAdded(m, m2, Ds, H, X, q, d, s, pm)
  <1> DEFINE a  == page_incref(m, q)
             e  == [ppn |-> q, perm |-> pm]
  <1>b. m.pt[d][s] = NULL
    BY DEF Deref, PtePtr
  <1>0. /\ Ds \subseteq Page /\ UserSlot \subseteq Slot /\ q \in Page /\ kern_pgdir \in Ds
        /\ q \notin Kept(m)
    <2>1. Ds \subseteq Page /\ q \in Page /\ kern_pgdir \in Ds /\ q \notin Kept(m)
      BY DirPages DEF MemInv, Holders
    <2> QED
      BY <2>1, SlotAssumption DEF UserSlot, Slot
  <1>1. m.pp_ref[q] = 0
    BY <1>0, FS_EmptySet DEF MemInv, Counts, Counted
  <1>2. a = [m EXCEPT !.pp_ref[q] = 1]
    BY <1>1, RefMaxAssumption DEF page_incref, Incremented
  <1>a. m2 = Store(a, PtePtr(d, s), e)
    BY DEF AddTable
  <1> HIDE DEF a
  <1>3. /\ a.pp_ref = [m.pp_ref EXCEPT ![q] = 1]
        /\ a.page_free_list = m.page_free_list /\ a.pp_link = m.pp_link
        /\ a.panicked = m.panicked
        /\ a.pt = m.pt /\ a.cr3 = m.cr3 /\ a.tlb = m.tlb
        /\ DOMAIN a = DOMAIN m
    BY <1>2 DEF MemInv, MemType
  <1>4. MemType(a)
    <2>1. 1 \in 0 .. RefMax
      BY RefMaxAssumption
    <2>2. a.pp_ref \in [Page -> 0 .. RefMax]
      BY <1>3, <2>1 DEF MemInv, MemType
    <2> QED
      BY <1>3, <2>2 DEF MemInv, MemType
  <1>5. e \in Entry /\ e # NULL /\ e.ppn = q
    BY <1>0, EntryOf
  <1> HIDE DEF e
  <1>6. /\ MemType(m2) /\ m2.pt[d][s] = e
        /\ \A x \in Page, y \in Slot : x # d \/ y # s => m2.pt[x][y] = m.pt[x][y]
        /\ \A x \in Page : x # d => m2.pt[x] = m.pt[x]
        /\ m2.pp_ref = a.pp_ref /\ m2.pp_link = m.pp_link
        /\ m2.page_free_list = m.page_free_list /\ m2.panicked = m.panicked
        /\ m2.cr3 = m.cr3 /\ m2.tlb = m.tlb
    <2>1. d \in Page /\ s \in Slot
      BY <1>0
    <2>2. /\ MemType(m2) /\ m2.pt[d][s] = e
          /\ \A x \in Page, y \in Slot : x # d \/ y # s => m2.pt[x][y] = a.pt[x][y]
          /\ \A x \in Page : x # d => m2.pt[x] = a.pt[x]
          /\ m2.pp_ref = a.pp_ref /\ m2.pp_link = a.pp_link
          /\ m2.page_free_list = a.page_free_list /\ m2.panicked = a.panicked
          /\ m2.cr3 = a.cr3 /\ m2.tlb = a.tlb
      BY <1>a, <1>4, <1>5, <2>1, StoreFacts
    <2> QED
      BY <1>3, <2>2
  <1>7. /\ \A t \in Page : IsTable(m2, Ds, t) <=> IsTable(m, Ds, t) \/ t = q
        /\ \A p \in Page : p # q => Refs(m2, Ds, p) = Refs(m, Ds, p)
        /\ Refs(m2, Ds, q) = {<<d, s>>}
    <2>1. \A y \in Slot : m.pt[q][y] = NULL
      BY DEF ZeroPage
    <2> QED
      BY <1>0, <1>b, <1>5, <1>6, <2>1, TableRefs
  <1>8. KernTables(m2) = KernTables(m) /\ Kept(m2) = Kept(m)
    <2>1. \A x \in Slot \ UserSlot : m2.pt[kern_pgdir][x] = m.pt[kern_pgdir][x]
      BY <1>0, <1>6
    <2> QED
      BY <2>1, KernTablesFrame
  <1>9. Unused(m2, Ds, H \ {q}) = Unused(m, Ds, H)
    BY <1>0, <1>7, <1>8 DEF Unused
  <1>10. ListOK(m2, Ds, H \ {q})
    <2>1. Unused(m, Ds, H) \in SUBSET Page /\ ListOK(m, Ds, H)
      BY DEF Unused, MemInv
    <2>2. SomeFreeList(m2, Unused(m, Ds, H))
      BY <1>6, <2>1, ListFrame DEF ListOK
    <2> QED
      BY <1>6, <1>9, <2>1, <2>2 DEF ListOK, UnlinkedOutside
  <1>11. Holders(m2, Ds, H \ {q}, X)
    BY <1>8 DEF MemInv, Holders
  <1>12. KernPart(m2, Ds)
    BY <1>0, <1>6, <1>8 DEF MemInv, KernPart
  <1>13. Apart(m2, Ds, H \ {q})
    <2> SUFFICES ASSUME NEW p \in Page, NEW r \in Refs(m2, Ds, p)
                 PROVE  /\ p \notin Ds /\ p \notin Kept(m2)
                        /\ r[1] \in Ds => p \notin H \ {q} /\ Refs(m2, Ds, p) = {r}
      BY DEF Apart
    <2>1. CASE p = q
      BY <1>0, <1>7, <1>8, <2>1
    <2>2. CASE p # q
      BY <1>7, <1>8, <2>2 DEF MemInv, Apart
    <2> QED
      BY <2>1, <2>2
  <1>14. /\ m2.pp_ref[q] = 1
         /\ \A p \in Page : p # q => m2.pp_ref[p] = m.pp_ref[p]
    BY <1>0, <1>3, <1>6 DEF MemInv, MemType
  <1>15. Counts(m2, Ds, X)
    <2>1. Cardinality(Refs(m2, Ds, q)) = 1
      BY <1>7, FS_Singleton
    <2>2. m2.pp_ref[q] = Cardinality(Refs(m2, Ds, q)) + Counted(X, q)
      BY <1>14, <2>1 DEF Counted
    <2> QED
      BY <1>0, <1>7, <1>8, <1>14, <2>2 DEF MemInv, Counts
  <1>16. ASSUME NEW c \in Ds, NEW va \in VA, va[1] \in UserSlot \/ Translate(m, c, va) # NULL
         PROVE  Translate(m2, c, va) = Translate(m, c, va)
    <2>0. va[1] \in Slot /\ va[2] \in Slot
      BY DEF VA
    <2>1. CASE c = d /\ va[1] = s
      <3>1. Translate(m, c, va) = NULL
        BY <1>b, <2>1 DEF Translate
      <3>2. Translate(m2, c, va) = m2.pt[q][va[2]]
        BY <1>5, <1>6, <2>1 DEF Translate
      <3>3. m2.pt[q][va[2]] = NULL
        BY <1>0, <1>6, <2>0 DEF ZeroPage
      <3> QED
        BY <3>1, <3>2, <3>3
    <2>2. CASE ~(c = d /\ va[1] = s)
      <3>1. m2.pt[c][va[1]] = m.pt[c][va[1]]
        BY <1>0, <1>6, <2>0, <2>2
      <3>2. CASE m.pt[c][va[1]] = NULL
        BY <3>1, <3>2 DEF Translate
      <3>3. CASE m.pt[c][va[1]] # NULL
        <4> DEFINE t == m.pt[c][va[1]].ppn
        <4>1. t \in Page /\ (va[1] \in UserSlot => t \notin Ds)
          BY <2>0, <3>3, WalkPage
        <4>2. Translate(m, c, va) = m.pt[t][va[2]] /\ Translate(m2, c, va) = m2.pt[t][va[2]]
          BY <3>1, <3>3 DEF Translate
        <4> HIDE DEF t
        <4>3. ~(t = d /\ va[2] = s)
          BY <1>b, <1>16, <4>1, <4>2
        <4> QED
          BY <1>6, <2>0, <4>1, <4>2, <4>3
      <3> QED
        BY <3>2, <3>3
    <2> QED
      BY <2>1, <2>2
  <1>17. MemInv(m2, Ds, H \ {q}, X)
    BY <1>6, <1>8, <1>10, <1>11, <1>12, <1>13, <1>15 DEF MemInv
  <1>18. IsTable(m2, Ds, q)
    BY <1>0, <1>7
  <1>19. Deref(m2, PtePtr(d, s)) = e
    BY <1>6 DEF Deref, PtePtr
  <1>20. SteadyBut(m, m2, Ds, d, s)
    <2>1. Ds \cup Kept(m) \subseteq Page
      BY <1>0, KeptPages DEF MemInv
    <2> QED
      BY <1>6, <2>1 DEF SteadyBut
  <1> QED
    BY <1>6, <1>7, <1>8, <1>14, <1>16, <1>17, <1>18, <1>19, <1>20 DEF e, TableAdded

-----------------------------------------------------------------------------
(* References differ at entry i of page t only. *)
EntryChanged(m1, m2, Ds, t, i) ==
    /\ \A x : IsTable(m2, Ds, x) <=> IsTable(m1, Ds, x)
    /\ \A p \in Page : /\ <<t, i>> \in Refs(m1, Ds, p) <=> Names(m1, t, i, p)
                       /\ <<t, i>> \in Refs(m2, Ds, p) <=> Names(m2, t, i, p)
    /\ \A p \in Page : \A r : r # <<t, i>> => (r \in Refs(m2, Ds, p) <=> r \in Refs(m1, Ds, p))

(* No entry has changed but entry i of page t. *)
SameBut(m1, m2, t, i) ==
    \A x \in Page, y \in Slot : x # t \/ y # i => m2.pt[x][y] = m1.pt[x][y]

SamePage(m1, m2, x) == m2.pt[x] = m1.pt[x]

(* The references after an entry of a page table changes. *)
LEMMA EntryRefs ==
    ASSUME NEW m1, NEW m2, NEW Ds, Ds \subseteq Page,
           NEW t \in Page, t \notin Ds, IsTable(m1, Ds, t), NEW i \in Slot,
           SameBut(m1, m2, t, i), \A x \in Page : x # t => SamePage(m1, m2, x)
    PROVE  EntryChanged(m1, m2, Ds, t, i)
  <1>0. \A x \in Page, y \in Slot : x # t \/ y # i => m2.pt[x][y] = m1.pt[x][y]
    BY DEF SameBut
  <1>1. \A d \in Ds : m2.pt[d] = m1.pt[d]
    BY DEF SamePage
  <1>2. \A x : IsTable(m2, Ds, x) <=> IsTable(m1, Ds, x)
    BY <1>1 DEF IsTable, Names
  <1>3. \A p \in Page : /\ <<t, i>> \in Refs(m1, Ds, p) <=> Names(m1, t, i, p)
                        /\ <<t, i>> \in Refs(m2, Ds, p) <=> Names(m2, t, i, p)
    BY <1>2 DEF Refs
  <1>4. ASSUME NEW p \in Page, NEW r, r # <<t, i>>
        PROVE  r \in Refs(m2, Ds, p) <=> r \in Refs(m1, Ds, p)
    <2>1. CASE r \in Page \X Slot
      <3>1. r[1] \in Page /\ r[2] \in Slot /\ (r[1] # t \/ r[2] # i)
        BY <1>4, <2>1
      <3>2. Names(m2, r[1], r[2], p) <=> Names(m1, r[1], r[2], p)
        BY <1>0, <3>1 DEF Names
      <3> QED
        BY <1>2, <2>1, <3>2 DEF Refs
    <2>2. CASE r \notin Page \X Slot
      BY <2>2 DEF Refs
    <2> QED
      BY <2>1, <2>2
  <1> QED
    BY <1>2, <1>3, <1>4 DEF EntryChanged

(* Translations differ at va in directory d only, and there the entry of   *)
(* page table t counts.                                                    *)
SameTranslations(m1, m2, Ds, d, va) ==
    \A c \in Ds, v \in VA : c # d \/ v # va => Translate(m2, c, v) = Translate(m1, c, v)

OneTranslation(m1, m2, Ds, d, va, t) ==
    /\ Translate(m2, d, va) = Deref(m2, PtePtr(t, va[2]))
    /\ SameTranslations(m1, m2, Ds, d, va)

(* The translations after an entry of a user page table changes: the       *)
(* virtual page it belongs to, in one address space, is all that changes.  *)
LEMMA EntryTranslate ==
    ASSUME NEW m1, NEW m2, NEW Ds, NEW H, NEW X, MemInv(m1, Ds, H, X),
           NEW d \in Ds, NEW va \in UserSlot \X Slot,
           NEW t, Names(m1, d, va[1], t), SameBut(m1, m2, t, va[2])
    PROVE  OneTranslation(m1, m2, Ds, d, va, t)
  <1>a. m1.pt[d][va[1]] # NULL /\ t = m1.pt[d][va[1]].ppn
    BY DEF Names
  <1> PICK s \in UserSlot, i \in Slot : va = <<s, i>>
    OBVIOUS
  <1>0. va[1] = s /\ va[2] = i
    OBVIOUS
  <1>1. /\ t \in Page /\ t \notin Ds /\ t \notin Kept(m1)
        /\ \A c \in Ds, y \in UserSlot : Names(m1, c, y, t) => c = d /\ y = s
    BY <1>0, <1>a, TableFacts
  <1>2. Ds \subseteq Page /\ UserSlot \subseteq Slot
    BY DirPages, SlotAssumption DEF MemInv, UserSlot, Slot
  <1>3. \A c \in Ds, y \in Slot : m2.pt[c][y] = m1.pt[c][y]
    BY <1>1, <1>2 DEF SameBut
  <1>4. Translate(m2, d, va) = m2.pt[t][i]
    BY <1>0, <1>a, <1>2, <1>3 DEF Translate
  <1>5. ASSUME NEW c \in Ds, NEW v \in VA, c # d \/ v # va
        PROVE  Translate(m2, c, v) = Translate(m1, c, v)
    <2>1. v[1] \in Slot /\ v[2] \in Slot /\ v = <<v[1], v[2]>>
      BY DEF VA
    <2>2. CASE m1.pt[c][v[1]] = NULL
      BY <1>3, <2>1, <2>2 DEF Translate
    <2>3. CASE m1.pt[c][v[1]] # NULL
      <3> DEFINE u == m1.pt[c][v[1]].ppn
      <3>1. /\ u \in Page
            /\ v[1] \in Slot \ UserSlot => u \in Kept(m1) \/ u = c
        BY <2>1, <2>3, WalkPage
      <3>2. u # t \/ v[2] # i
        <4>1. CASE v[1] \in UserSlot
          <5>1. u = t => c = d /\ v[1] = s
            BY <1>a, <1>1, <2>3, <4>1 DEF Names
          <5> QED
            BY <1>5, <2>1, <5>1
        <4>2. CASE v[1] \notin UserSlot
          BY <1>1, <2>1, <3>1, <4>2
        <4> QED
          BY <4>1, <4>2
      <3>3. Translate(m1, c, v) = m1.pt[u][v[2]] /\ Translate(m2, c, v) = m2.pt[u][v[2]]
        BY <1>3, <2>1, <2>3 DEF Translate
      <3> HIDE DEF u
      <3>4. \A x \in Page, y \in Slot : x # t \/ y # i => m2.pt[x][y] = m1.pt[x][y]
        BY <1>0 DEF SameBut
      <3> QED
        BY <2>1, <3>1, <3>2, <3>3, <3>4
    <2> QED
      BY <2>2, <2>3
  <1>6. SameTranslations(m1, m2, Ds, d, va)
    BY <1>5 DEF SameTranslations
  <1> QED
    BY <1>0, <1>4, <1>6 DEF Deref, PtePtr, OneTranslation

(* What a mapping, new at an entry that was empty, leaves behind. *)
AddsEntry(m, a, Ds, H, X, t, i, e) ==
    /\ MemInv(a, Ds, H \ {e.ppn}, X \ {e.ppn})
    /\ KernTables(a) = KernTables(m)
    /\ Deref(a, PtePtr(t, i)) = e /\ SameBut(m, a, t, i)
    /\ \A p \in Page : p # e.ppn => Refs(a, Ds, p) = Refs(m, Ds, p)
    /\ Refs(a, Ds, e.ppn) = Refs(m, Ds, e.ppn) \cup {<<t, i>>}
    /\ a.cr3 = m.cr3 /\ a.tlb = m.tlb

(* A page that is held and counted is mapped where nothing was, and the    *)
(* count it was held with is now that of the mapping.                      *)
LEMMA MapInv ==
    ASSUME NEW m, NEW Ds, NEW H, NEW X, MemInv(m, Ds, H, X),
           NEW q \in X, q \notin Ds,
           NEW t \in Page, IsTable(m, Ds, t), t \notin Ds, t \notin Kept(m),
           NEW i \in Slot, Deref(m, PtePtr(t, i)) = NULL,
           NEW e \in Entry, e # NULL, e.ppn = q,
           NEW m2, m2 = Store(m, PtePtr(t, i), e)
    PROVE  AddsEntry(m, m2, Ds, H, X, t, i, e)
  <1>0. /\ Ds \subseteq Page /\ q \in Page /\ kern_pgdir \in Ds
        /\ q \in H /\ q \notin Kept(m)
    BY DirPages DEF MemInv, Holders
  <1>1. e \in Entry /\ e # NULL /\ e.ppn = q
    OBVIOUS
  <1>2. MemType(m)
    BY DEF MemInv
  <1>3. /\ MemType(m2) /\ m2.pt[t][i] = e
        /\ \A x \in Page, y \in Slot : x # t \/ y # i => m2.pt[x][y] = m.pt[x][y]
        /\ \A x \in Page : x # t => m2.pt[x] = m.pt[x]
        /\ m2.pp_ref = m.pp_ref /\ m2.pp_link = m.pp_link
        /\ m2.page_free_list = m.page_free_list /\ m2.panicked = m.panicked
        /\ m2.cr3 = m.cr3 /\ m2.tlb = m.tlb
    BY <1>1, <1>2, StoreFacts
  <1>4. /\ \A x : IsTable(m2, Ds, x) <=> IsTable(m, Ds, x)
        /\ \A p \in Page : /\ <<t, i>> \in Refs(m, Ds, p) <=> Names(m, t, i, p)
                           /\ <<t, i>> \in Refs(m2, Ds, p) <=> Names(m2, t, i, p)
        /\ \A p \in Page : \A r : r # <<t, i>> => (r \in Refs(m2, Ds, p) <=> r \in Refs(m, Ds, p))
    <2>1. SameBut(m, m2, t, i) /\ \A x \in Page : x # t => SamePage(m, m2, x)
      BY <1>3 DEF SameBut, SamePage
    <2>2. Ds \subseteq Page
      BY <1>0
    <2>3. EntryChanged(m, m2, Ds, t, i)
      BY <2>1, <2>2, EntryRefs
    <2> QED
      BY <2>3 DEF EntryChanged
  <1>5. \A p : ~Names(m, t, i, p) /\ (Names(m2, t, i, p) <=> p = q)
    BY <1>1, <1>3 DEF Names, Deref, PtePtr
  <1>6. ASSUME NEW p \in Page, p # q PROVE Refs(m2, Ds, p) = Refs(m, Ds, p)
    <2>1. <<t, i>> \notin Refs(m2, Ds, p) /\ <<t, i>> \notin Refs(m, Ds, p)
      BY <1>4, <1>5, <1>6
    <2>2. \A r : r \in Refs(m2, Ds, p) <=> r \in Refs(m, Ds, p)
      BY <1>4, <2>1
    <2> QED
      BY <2>2
  <1>7. <<t, i>> \notin Refs(m, Ds, q) /\ Refs(m2, Ds, q) = Refs(m, Ds, q) \cup {<<t, i>>}
    BY <1>0, <1>4, <1>5
  <1>8. Kept(m2) = Kept(m) /\ KernTables(m2) = KernTables(m)
    <2>1. \A x \in Slot \ UserSlot : m2.pt[kern_pgdir][x] = m.pt[kern_pgdir][x]
      BY <1>0, <1>3
    <2> QED
      BY <2>1, KernTablesFrame
  <1>9. Unused(m2, Ds, H \ {q}) = Unused(m, Ds, H)
    BY <1>0, <1>6, <1>7, <1>8 DEF Unused
  <1>10. ListOK(m2, Ds, H \ {q})
    <2>1. Unused(m, Ds, H) \in SUBSET Page /\ ListOK(m, Ds, H)
      BY DEF Unused, MemInv
    <2>2. SomeFreeList(m2, Unused(m, Ds, H))
      BY <1>3, <2>1, ListFrame DEF ListOK
    <2> QED
      BY <1>3, <1>9, <2>1, <2>2 DEF ListOK, UnlinkedOutside
  <1>11. Holders(m2, Ds, H \ {q}, X \ {q})
    BY <1>8 DEF MemInv, Holders
  <1>12. KernPart(m2, Ds)
    BY <1>0, <1>3, <1>8 DEF MemInv, KernPart
  <1>13. Apart(m2, Ds, H \ {q})
    <2> SUFFICES ASSUME NEW p \in Page, NEW r \in Refs(m2, Ds, p)
                 PROVE  /\ p \notin Ds /\ p \notin Kept(m2)
                        /\ r[1] \in Ds => p \notin H \ {q} /\ Refs(m2, Ds, p) = {r}
      BY DEF Apart
    <2>1. CASE p = q
      <3>1. \A x \in Refs(m, Ds, q) : x[1] \notin Ds
        BY <1>0 DEF MemInv, Apart
      <3>2. r[1] \notin Ds
        BY <1>7, <2>1, <3>1
      <3> QED
        BY <1>0, <1>8, <2>1, <3>2
    <2>2. CASE p # q
      BY <1>6, <1>8, <2>2 DEF MemInv, Apart
    <2> QED
      BY <2>1, <2>2
  <1>14. Counts(m2, Ds, X \ {q})
    <2>1. IsFiniteSet(Refs(m, Ds, q)) /\ Cardinality(Refs(m, Ds, q)) \in Nat
      BY RefsFinite
    <2>2. Cardinality(Refs(m2, Ds, q)) = Cardinality(Refs(m, Ds, q)) + 1
      BY <1>7, <2>1, FS_AddElement
    <2>3. m.pp_ref[q] = Cardinality(Refs(m, Ds, q)) + 1
      BY <1>0 DEF MemInv, Counts, Counted
    <2>4. m2.pp_ref[q] = Cardinality(Refs(m2, Ds, q)) + Counted(X \ {q}, q)
      BY <1>3, <2>1, <2>2, <2>3 DEF Counted
    <2>5. \A p : p # q => Counted(X \ {q}, p) = Counted(X, p)
      BY DEF Counted
    <2> SUFFICES ASSUME NEW p \in Page
                 PROVE  m2.pp_ref[p] = IF p \in Kept(m2) THEN 1
                                       ELSE Cardinality(Refs(m2, Ds, p)) + Counted(X \ {q}, p)
      BY DEF Counts
    <2>6. CASE p = q
      BY <1>0, <1>8, <2>4, <2>6
    <2>7. CASE p # q
      <3>1. /\ m2.pp_ref[p] = m.pp_ref[p] /\ Refs(m2, Ds, p) = Refs(m, Ds, p)
            /\ Kept(m2) = Kept(m) /\ Counted(X \ {q}, p) = Counted(X, p)
        BY <1>3, <1>6, <1>8, <2>5, <2>7
      <3>2. m.pp_ref[p] = IF p \in Kept(m) THEN 1 ELSE Cardinality(Refs(m, Ds, p)) + Counted(X, p)
        BY DEF MemInv, Counts
      <3> QED
        BY <3>1, <3>2
    <2> QED
      BY <2>6, <2>7
  <1>15. MemInv(m2, Ds, H \ {q}, X \ {q})
    BY <1>3, <1>8, <1>10, <1>11, <1>12, <1>13, <1>14 DEF MemInv
  <1>16. Deref(m2, PtePtr(t, i)) = e /\ SameBut(m, m2, t, i)
    BY <1>3 DEF Deref, PtePtr, SameBut
  <1> QED
    BY <1>0, <1>1, <1>3, <1>6, <1>7, <1>8, <1>15, <1>16 DEF AddsEntry

(* Entry i of page table t has been cleared and its page given up. *)
EntryCleared(m, m2, Ds, H, X, t, i) ==
    /\ MemInv(m2, Ds, H, X)
    /\ KernTables(m2) = KernTables(m)
    /\ Deref(m2, PtePtr(t, i)) = NULL /\ SameBut(m, m2, t, i)
    /\ \A p \in Page : \A r : r \in Refs(m2, Ds, p) <=> r \in Refs(m, Ds, p) /\ r # <<t, i>>
    /\ m2.cr3 = m.cr3 /\ m2.tlb = m.tlb

(* A mapping is cleared and its count dropped, and the page is freed with  *)
(* the last count.                                                         *)
LEMMA UnmapInv ==
    ASSUME NEW m, NEW Ds, NEW H, NEW X, MemInv(m, Ds, H, X),
           NEW t \in Page, IsTable(m, Ds, t), t \notin Ds, t \notin Kept(m),
           NEW i \in Slot, NEW e, e = Deref(m, PtePtr(t, i)), e # NULL,
           e.ppn \in H => e.ppn \in X,
           NEW m2, m2 = page_decref(Store(m, PtePtr(t, i), NULL), e.ppn)
    PROVE  EntryCleared(m, m2, Ds, H, X, t, i)
  <1> DEFINE q  == m.pt[t][i].ppn
             n  == Store(m, PtePtr(t, i), NULL)
             d  == [n EXCEPT !.pp_ref[q] = Decremented(n.pp_ref[q])]
             F  == Unused(m, Ds, H)
  <1>a. m.pt[t][i] # NULL /\ q = e.ppn /\ (q \in H => q \in X) /\ m2 = page_decref(n, q)
    BY DEF Deref, PtePtr
  <1>0. /\ Ds \subseteq Page /\ kern_pgdir \in Ds /\ MemType(m)
        /\ F \in SUBSET Page /\ SomeFreeList(m, F) /\ UnlinkedOutside(m, F)
    BY DirPages DEF MemInv, Holders, ListOK, Unused
  <1>1. q \in Page
    BY <1>0, <1>a DEF MemType, Entry
  <1>2. m2 = IF d.pp_ref[q] = 0 THEN page_free(d, q) ELSE d
    BY <1>a DEF page_decref
  <1> HIDE DEF q
  <1>3. Names(m, t, i, q)
    BY <1>a DEF Names, q
  <1>4. NULL \in Entry
    BY DEF Entry
  <1>5. /\ MemType(n) /\ n.pt[t][i] = NULL /\ DOMAIN n = DOMAIN m
        /\ \A x \in Page, y \in Slot : x # t \/ y # i => n.pt[x][y] = m.pt[x][y]
        /\ \A x \in Page : x # t => n.pt[x] = m.pt[x]
        /\ n.pp_ref = m.pp_ref /\ n.pp_link = m.pp_link
        /\ n.page_free_list = m.page_free_list /\ n.panicked = m.panicked
        /\ n.cr3 = m.cr3 /\ n.tlb = m.tlb
    BY <1>0, <1>4, StoreFacts
  <1> HIDE DEF n
  <1>6. /\ \A x : IsTable(n, Ds, x) <=> IsTable(m, Ds, x)
        /\ \A p \in Page : /\ <<t, i>> \in Refs(m, Ds, p) <=> Names(m, t, i, p)
                           /\ <<t, i>> \in Refs(n, Ds, p) <=> Names(n, t, i, p)
        /\ \A p \in Page : \A r : r # <<t, i>> => (r \in Refs(n, Ds, p) <=> r \in Refs(m, Ds, p))
    <2> HIDE DEF d, F
    <2>1. SameBut(m, n, t, i) /\ \A x \in Page : x # t => SamePage(m, n, x)
      BY <1>5 DEF SameBut, SamePage
    <2>2. Ds \subseteq Page
      BY <1>0
    <2>3. EntryChanged(m, n, Ds, t, i)
      BY <2>1, <2>2, EntryRefs
    <2> QED
      BY <2>3 DEF EntryChanged
  <1>7. \A p : ~Names(n, t, i, p) /\ (Names(m, t, i, p) <=> p = q)
    BY <1>3, <1>5 DEF Names
  <1>8. \A p \in Page : \A r : r \in Refs(n, Ds, p) <=> r \in Refs(m, Ds, p) /\ r # <<t, i>>
    BY <1>6, <1>7
  <1>9. ASSUME NEW p \in Page, p # q PROVE Refs(n, Ds, p) = Refs(m, Ds, p)
    <2>1. <<t, i>> \notin Refs(m, Ds, p)
      BY <1>6, <1>7, <1>9
    <2>2. \A r : r \in Refs(n, Ds, p) <=> r \in Refs(m, Ds, p)
      BY <1>8, <2>1
    <2> QED
      BY <2>2
  <1>10. <<t, i>> \in Refs(m, Ds, q) /\ Refs(n, Ds, q) = Refs(m, Ds, q) \ {<<t, i>>}
    BY <1>1, <1>6, <1>7, <1>8
  <1>11. q \notin Ds /\ q \notin Kept(m) /\ (q \in H => q \in X) /\ q \notin F
    BY <1>1, <1>a, <1>10 DEF MemInv, Apart, Unused
  <1>12. Kept(n) = Kept(m) /\ KernTables(n) = KernTables(m)
    <2>1. \A x \in Slot \ UserSlot : n.pt[kern_pgdir][x] = m.pt[kern_pgdir][x]
      BY <1>0, <1>5
    <2> QED
      BY <2>1, KernTablesFrame
  <1>13. KernPart(n, Ds)
    BY <1>0, <1>5, <1>12 DEF MemInv, KernPart
  <1>14. /\ IsFiniteSet(Refs(m, Ds, q))
         /\ Cardinality(Refs(m, Ds, q)) \in Nat
         /\ Cardinality(Refs(n, Ds, q)) = Cardinality(Refs(m, Ds, q)) - 1
         /\ IsFiniteSet(Refs(n, Ds, q)) /\ Cardinality(Refs(n, Ds, q)) \in Nat
    BY <1>10, RefsFinite, FS_RemoveElement
  <1>15. m.pp_ref[q] = Cardinality(Refs(m, Ds, q)) + Counted(X, q)
    BY <1>1, <1>11 DEF MemInv, Counts
  <1>16. /\ m.pp_ref[q] \in 1 .. RefMax
         /\ m.pp_ref[q] - 1 = Cardinality(Refs(n, Ds, q)) + Counted(X, q)
    <2>1. Counted(X, q) \in {0, 1}
      BY DEF Counted
    <2>2. m.pp_ref[q] \in 0 .. RefMax
      BY <1>0, <1>1 DEF MemType
    <2> QED
      BY <1>14, <1>15, <2>1, <2>2, RefMaxAssumption
  <1>17. d = [n EXCEPT !.pp_ref[q] = m.pp_ref[q] - 1]
    BY <1>5, <1>16 DEF Decremented
  <1> HIDE DEF d
  <1>18. /\ d.pp_ref = [m.pp_ref EXCEPT ![q] = m.pp_ref[q] - 1]
         /\ d.page_free_list = m.page_free_list /\ d.pp_link = m.pp_link
         /\ d.panicked = m.panicked
         /\ d.pt = n.pt /\ d.cr3 = m.cr3 /\ d.tlb = m.tlb
         /\ DOMAIN d = DOMAIN m
    BY <1>5, <1>17 DEF MemType
  <1>19. /\ d.pp_ref[q] = m.pp_ref[q] - 1
         /\ \A p \in Page : p # q => d.pp_ref[p] = m.pp_ref[p]
    BY <1>0, <1>1, <1>18 DEF MemType
  <1>20. MemType(d)
    <2>1. m.pp_ref[q] - 1 \in 0 .. RefMax
      BY <1>16, RefMaxAssumption
    <2>2. d.pp_ref \in [Page -> 0 .. RefMax]
      BY <1>0, <1>18, <2>1 DEF MemType
    <2> QED
      BY <1>5, <1>18, <2>2 DEF MemType
  <1>21. /\ \A x : IsTable(d, Ds, x) <=> IsTable(m, Ds, x)
         /\ \A p : Refs(d, Ds, p) = Refs(n, Ds, p)
         /\ Kept(d) = Kept(m) /\ KernTables(d) = KernTables(m) /\ KernPart(d, Ds)
    <2>1. d.pt = n.pt
      BY <1>18
    <2>2. SameSpaces(n, d, Ds)
      BY <2>1, RefsFrame
    <2> QED
      BY <1>6, <1>12, <1>13, <2>2 DEF SameSpaces
  <1> DEFINE G == H \cup {q}
  <1>22. Counts(d, Ds, X)
    <2> SUFFICES ASSUME NEW p \in Page
                 PROVE  d.pp_ref[p] = IF p \in Kept(d) THEN 1
                                      ELSE Cardinality(Refs(d, Ds, p)) + Counted(X, p)
      BY DEF Counts
    <2>1. CASE p = q
      BY <1>11, <1>16, <1>19, <1>21, <2>1
    <2>2. CASE p # q
      BY <1>9, <1>19, <1>21, <2>2 DEF MemInv, Counts
    <2> QED
      BY <2>1, <2>2
  <1>23. Apart(d, Ds, H)
    <2> SUFFICES ASSUME NEW p \in Page, NEW r \in Refs(d, Ds, p)
                 PROVE  /\ p \notin Ds /\ p \notin Kept(d)
                        /\ r[1] \in Ds => p \notin H /\ Refs(d, Ds, p) = {r}
      BY DEF Apart
    <2>1. r \in Refs(m, Ds, p) /\ r # <<t, i>>
      BY <1>8, <1>21
    <2>2. p \notin Ds /\ p \notin Kept(d)
      BY <1>21, <2>1 DEF MemInv, Apart
    <2>3. ASSUME r[1] \in Ds PROVE p \notin H /\ Refs(d, Ds, p) = {r}
      <3>1. p \notin H /\ Refs(m, Ds, p) = {r}
        BY <2>1, <2>3 DEF MemInv, Apart
      <3>2. p # q
        BY <1>10, <2>1, <3>1
      <3> QED
        BY <1>9, <1>21, <3>1, <3>2
    <2> QED
      BY <2>2, <2>3
  <1>24. Holders(d, Ds, H, X)
    BY <1>21 DEF MemInv, Holders
  <1>25. SomeFreeList(d, F) /\ UnlinkedOutside(d, F)
    BY <1>0, <1>18, ListFrame DEF UnlinkedOutside
  <1>26. \A p \in Page : p # q => (p \in Unused(d, Ds, H) <=> p \in F)
    BY <1>9, <1>21 DEF Unused
  <1>27. MemInv(m2, Ds, H, X) /\ m2.pt = n.pt /\ m2.cr3 = m.cr3 /\ m2.tlb = m.tlb
    <2>1. CASE d.pp_ref[q] # 0
      <3>1. m2 = d
        BY <1>2, <2>1
      <3>2. q \notin Unused(d, Ds, H)
        <4>1. Refs(n, Ds, q) # {} \/ q \in X
          <5>1. ASSUME Refs(n, Ds, q) = {}, q \notin X PROVE FALSE
            <6>1. Cardinality(Refs(n, Ds, q)) = 0
              BY <5>1, FS_EmptySet
            <6>2. Counted(X, q) = 0
              BY <5>1 DEF Counted
            <6> QED
              BY <1>16, <1>19, <2>1, <6>1, <6>2
          <5> QED
            BY <5>1
        <4>2. q \in X => q \in H
          BY DEF MemInv, Holders
        <4> QED
          BY <1>21, <4>1, <4>2 DEF Unused
      <3>3. Unused(d, Ds, H) = F
        BY <1>0, <1>11, <1>26, <3>2 DEF Unused
      <3>4. ListOK(d, Ds, H)
        BY <1>25, <3>3 DEF ListOK
      <3>5. MemInv(d, Ds, H, X)
        BY <1>18, <1>20, <1>21, <1>22, <1>23, <1>24, <3>4 DEF MemInv
      <3> QED
        BY <1>18, <3>1, <3>5
    <2>2. CASE d.pp_ref[q] = 0
      <3>1. m2 = page_free(d, q)
        BY <1>2, <2>2
      <3>2. Refs(n, Ds, q) = {} /\ q \notin X /\ q \notin H
        <4>1. Cardinality(Refs(n, Ds, q)) = 0 /\ q \notin X
          BY <1>14, <1>16, <1>19, <2>2 DEF Counted
        <4> QED
          BY <1>11, <1>14, <4>1, FS_EmptySet
      <3>3. Unused(d, Ds, G) = F
        BY <1>0, <1>11, <1>26 DEF Unused
      <3>4. ListOK(d, Ds, G)
        BY <1>25, <3>3 DEF ListOK
      <3>5. Holders(d, Ds, G, X) /\ Apart(d, Ds, G)
        BY <1>1, <1>11, <1>21, <1>23, <1>24, <3>2 DEF Holders, Apart
      <3>6. MemInv(d, Ds, G, X)
        BY <1>18, <1>20, <1>21, <1>22, <3>4, <3>5 DEF MemInv
      <3>7. q \in G /\ G \ {q} = H /\ q \notin Ds /\ Refs(d, Ds, q) = {}
        BY <1>11, <1>21, <3>2
      <3> HIDE DEF G
      <3>8. /\ MemInv(m2, Ds, H, X)
            /\ m2.pt = d.pt /\ m2.cr3 = d.cr3 /\ m2.tlb = d.tlb
        BY <3>1, <3>2, <3>6, <3>7, FreeInv
      <3> QED
        BY <1>18, <3>8
    <2> QED
      BY <2>1, <2>2
  <1>28. /\ \A x : IsTable(m2, Ds, x) <=> IsTable(m, Ds, x)
         /\ \A p : Refs(m2, Ds, p) = Refs(n, Ds, p)
         /\ KernTables(m2) = KernTables(m)
    <2>1. m2.pt = n.pt
      BY <1>27
    <2>2. SameSpaces(n, m2, Ds)
      BY <2>1, RefsFrame
    <2> QED
      BY <1>6, <1>12, <2>2 DEF SameSpaces
  <1>29. Deref(m2, PtePtr(t, i)) = NULL /\ SameBut(m, m2, t, i)
    <2>1. m2.pt = n.pt
      BY <1>27
    <2>2. m2.pt[t][i] = NULL /\ \A x \in Page, y \in Slot : x # t \/ y # i => m2.pt[x][y] = m.pt[x][y]
      BY <1>5, <2>1
    <2>3. Deref(m2, PtePtr(t, i)) = m2.pt[t][i]
      BY DEF Deref, PtePtr
    <2>4. SameBut(m, m2, t, i)
      BY <2>2 DEF SameBut
    <2> QED
      BY <2>2, <2>3, <2>4
  <1> QED
    BY <1>5, <1>8, <1>27, <1>28, <1>29 DEF EntryCleared

-----------------------------------------------------------------------------
(* An unused page is no directory and no page table. *)
LEMMA UnusedFacts ==
    ASSUME NEW m, NEW Ds, NEW H, NEW X, MemInv(m, Ds, H, X), NEW p \in Unused(m, Ds, H)
    PROVE  /\ p \in Page /\ p \notin Ds /\ p \notin H /\ p \notin X /\ p \notin Kept(m)
           /\ ~IsTable(m, Ds, p) /\ Refs(m, Ds, p) = {}
  <1>1. /\ p \in Page /\ p \notin H /\ p \notin Kept(m) /\ Refs(m, Ds, p) = {}
        /\ Ds \subseteq Page
    BY DirPages DEF Unused, MemInv
  <1>2. p \notin Ds /\ p \notin X
    BY <1>1 DEF MemInv, Holders, Kept
  <1>3. ~IsTable(m, Ds, p)
    BY <1>1, NoTable
  <1> QED
    BY <1>1, <1>2, <1>3

(* Page p has been taken off the free list and zeroed. *)
ZeroAllocated(m, z, Ds, H, X, p) ==
    /\ p \in Unused(m, Ds, H) /\ MemInv(z, Ds, H \cup {p}, X)
    /\ z.pt = [m.pt EXCEPT ![p] = ZeroPage]
    /\ \A t : IsTable(z, Ds, t) <=> IsTable(m, Ds, t)
    /\ \A x \in Page : Refs(z, Ds, x) = Refs(m, Ds, x)
    /\ KernTables(z) = KernTables(m)
    /\ \A d \in Ds, va \in VA : Translate(z, d, va) = Translate(m, d, va)
    /\ z.cr3 = m.cr3 /\ z.tlb = m.tlb /\ z.pp_ref = m.pp_ref

(* page_alloc(ALLOC_ZERO), when there is a page: it is zeroed, and no      *)
(* address space notices.                                                  *)
LEMMA AllocZeroInv ==
    ASSUME NEW m, NEW Ds, NEW H, NEW X, MemInv(m, Ds, H, X), m.page_free_list # NULL,
           NEW p, p = page_alloc_ret(m), NEW z, z = page_alloc_zero(m)
    PROVE  ZeroAllocated(m, z, Ds, H, X, p)
  <1> DEFINE a == page_alloc(m)
  <1>1. p # NULL /\ z = WritePage(a, p, ZeroPage)
    BY DEF page_alloc_ret, page_alloc_zero, WritePage
  <1>2. /\ p \in Unused(m, Ds, H) /\ MemInv(a, Ds, H \cup {p}, X)
        /\ a.pt = m.pt /\ a.cr3 = m.cr3 /\ a.tlb = m.tlb /\ a.pp_ref = m.pp_ref
    BY <1>1, AllocInv
  <1>3. p \in Page /\ p \notin Ds /\ p \notin Kept(m) /\ ~IsTable(m, Ds, p)
    BY <1>2, UnusedFacts
  <1> HIDE DEF a
  <1>4. /\ \A t : IsTable(a, Ds, t) <=> IsTable(m, Ds, t)
        /\ \A x : Refs(a, Ds, x) = Refs(m, Ds, x)
        /\ KernTables(a) = KernTables(m) /\ Kept(a) = Kept(m)
        /\ \A d, va : Translate(a, d, va) = Translate(m, d, va)
    <2>1. a.pt = m.pt
      BY <1>2
    <2>2. SameSpaces(m, a, Ds)
      BY <2>1, RefsFrame
    <2> QED
      BY <2>2 DEF SameSpaces
  <1>5. ZeroPage \in [Slot -> Entry]
    BY DEF ZeroPage, Entry
  <1>6. /\ MemInv(z, Ds, H \cup {p}, X)
        /\ z.pt = [a.pt EXCEPT ![p] = ZeroPage]
        /\ \A t : IsTable(z, Ds, t) <=> IsTable(a, Ds, t)
        /\ \A x \in Page : Refs(z, Ds, x) = Refs(a, Ds, x)
        /\ KernTables(z) = KernTables(a)
        /\ \A d \in Ds, va \in VA : Translate(z, d, va) = Translate(a, d, va)
        /\ z.cr3 = a.cr3 /\ z.tlb = a.tlb /\ z.pp_ref = a.pp_ref
    <2>1. p \notin Kept(a) /\ ~IsTable(a, Ds, p)
      BY <1>3, <1>4
    <2> QED
      BY <1>1, <1>2, <1>3, <1>5, <2>1, WriteInv
  <1> QED
    BY <1>2, <1>4, <1>6 DEF ZeroAllocated

(* Entry s of directory d is what it was, or is new and lets the user in.  *)
PdeKept(m, a, d, s) ==
    IF m.pt[d][s] # NULL THEN a.pt[d][s] = m.pt[d][s] ELSE a.pt[d][s] # NULL => "U" \in a.pt[d][s].perm

(* pgdir_walk() with create set: it fails without a trace when there is no *)
(* page for the page table, and otherwise returns where the entry for va   *)
(* is, in a table that changes no translation of a user page and none the  *)
(* processor may have cached.                                              *)
LEMMA WalkInv ==
    ASSUME NEW m, NEW Ds, NEW H, NEW X, MemInv(m, Ds, H, X),
           NEW d \in Ds, NEW va \in UserSlot \X Slot
    PROVE  LET w == pgdir_walk(m, d, va, TRUE)
           IN  /\ MemInv(w.m, Ds, H, X)
               /\ w.pte = NULL => w.m = m /\ m.pt[d][va[1]] = NULL /\ m.page_free_list = NULL
               /\ w.pte # NULL => /\ w.m.pt[d][va[1]] # NULL
                                  /\ w.pte = PtePtr(w.m.pt[d][va[1]].ppn, va[2])
               /\ \A c \in Ds, v \in VA : v[1] \in UserSlot \/ Translate(m, c, v) # NULL
                      => Translate(w.m, c, v) = Translate(m, c, v)
               /\ KernTables(w.m) = KernTables(m)
               /\ w.m.cr3 = m.cr3 /\ w.m.tlb = m.tlb
               /\ \A p \in Page : p \notin Unused(m, Ds, H) =>
                      /\ Refs(w.m, Ds, p) = Refs(m, Ds, p)
                      /\ w.m.pp_ref[p] = m.pp_ref[p]
               /\ \A p \in Unused(m, Ds, H) : \A r \in Refs(w.m, Ds, p) : r[1] \in Ds
               /\ SteadyBut(m, w.m, Ds, d, va[1]) /\ PdeKept(m, w.m, d, va[1])
  <1> DEFINE w == pgdir_walk(m, d, va, TRUE)
  <1>0. \A p \in Unused(m, Ds, H) : Refs(m, Ds, p) = {}
    BY DEF Unused
  <1>1. CASE m.pt[d][va[1]] # NULL
    <2>1. w = [m |-> m, pte |-> PtePtr(m.pt[d][va[1]].ppn, va[2])]
      BY <1>1 DEF pgdir_walk
    <2> HIDE DEF w
    <2>2. w.m = m /\ w.pte = PtePtr(m.pt[d][va[1]].ppn, va[2])
      BY <2>1
    <2>3. w.pte # NULL
      <3>1. va[1] \in UserSlot /\ va[2] \in Slot
        OBVIOUS
      <3>2. m.pt[d][va[1]].ppn \in Page
        BY <1>1, <3>1, TableFacts
      <3> QED
        BY <2>2, <3>1, <3>2, NullEntryAssumption DEF PtePtr
    <2> QED
      BY <1>0, <1>1, <2>2, <2>3 DEF w, SteadyBut, PdeKept
  <1>2. CASE m.pt[d][va[1]] = NULL /\ m.page_free_list = NULL
    <2>1. w = [m |-> m, pte |-> NULL]
      BY <1>2 DEF pgdir_walk
    <2> HIDE DEF w
    <2>2. w.m = m /\ w.pte = NULL
      BY <2>1
    <2> QED
      BY <1>0, <1>2, <2>2 DEF w, SteadyBut, PdeKept
  <1>3. CASE m.pt[d][va[1]] = NULL /\ m.page_free_list # NULL
    <2> DEFINE q == page_alloc_ret(m)
               z == page_alloc_zero(m)
               n == AddTable(z, q, d, va[1], {"W", "U"})
    <2>1. w = [m |-> n, pte |-> PtePtr(q, va[2])]
      BY <1>3 DEF pgdir_walk, AddTable
    <2> HIDE DEF w, n
    <2>2. w.m = n /\ w.pte = PtePtr(q, va[2])
      BY <2>1
    <2>3. /\ q \in Unused(m, Ds, H) /\ MemInv(z, Ds, H \cup {q}, X)
          /\ z.pt = [m.pt EXCEPT ![q] = ZeroPage]
          /\ \A x \in Page : Refs(z, Ds, x) = Refs(m, Ds, x)
          /\ KernTables(z) = KernTables(m)
          /\ \A c \in Ds, v \in VA : Translate(z, c, v) = Translate(m, c, v)
          /\ z.cr3 = m.cr3 /\ z.tlb = m.tlb /\ z.pp_ref = m.pp_ref
      <3>1. ZeroAllocated(m, z, Ds, H, X, q)
        BY <1>3, AllocZeroInv
      <3> QED
        BY <3>1 DEF ZeroAllocated
    <2>4. /\ q \in Page /\ q \notin Ds /\ q \notin H /\ q \notin X /\ q \notin Kept(m)
          /\ Refs(m, Ds, q) = {}
      BY <2>3, UnusedFacts
    <2> HIDE DEF q, z
    <2>5. m.pt \in [Page -> [Slot -> Entry]] /\ Ds \subseteq Page
      BY DirPages DEF MemInv, MemType
    <2>6. z.pt[q] = ZeroPage /\ z.pt[d] = m.pt[d]
      BY <2>3, <2>4, <2>5
    <2>7. {"W", "U"} \in Perm /\ va[1] \in UserSlot /\ va[2] \in Slot
      BY DEF Perm
    <2>8. /\ MemInv(n, Ds, (H \cup {q}) \ {q}, X)
          /\ n.pt[d][va[1]] = [ppn |-> q, perm |-> {"W", "U"}]
          /\ \A p \in Page : p # q => Refs(n, Ds, p) = Refs(z, Ds, p)
          /\ IsTable(n, Ds, q)
          /\ KernTables(n) = KernTables(z)
          /\ \A c \in Ds, v \in VA : v[1] \in UserSlot \/ Translate(z, c, v) # NULL
                 => Translate(n, c, v) = Translate(z, c, v)
          /\ \A p \in Page : p # q => n.pp_ref[p] = z.pp_ref[p]
          /\ n.cr3 = z.cr3 /\ n.tlb = z.tlb
          /\ SteadyBut(z, n, Ds, d, va[1])
      <3>1. q \in H \cup {q} /\ Refs(z, Ds, q) = {} /\ z.pt[d][va[1]] = NULL
        BY <1>3, <2>3, <2>4, <2>6
      <3> QED
        <4> DEFINE K  == H \cup {q}
                   pm == {"W", "U"}
        <4>1. /\ MemInv(z, Ds, K, X) /\ q \in K /\ q \notin X /\ q \notin Ds
              /\ Refs(z, Ds, q) = {} /\ z.pt[q] = ZeroPage /\ va[1] \in UserSlot
              /\ Deref(z, PtePtr(d, va[1])) = NULL
              /\ pm \in Perm /\ n = AddTable(z, q, d, va[1], pm)
          BY <2>3, <2>4, <2>6, <2>7, <3>1 DEF n, Deref, PtePtr
        <4> HIDE DEF K, pm
        <4>2. /\ MemInv(n, Ds, K \ {q}, X)
              /\ n.pt[d][va[1]] = [ppn |-> q, perm |-> pm]
              /\ \A p \in Page : p # q => Refs(n, Ds, p) = Refs(z, Ds, p)
              /\ IsTable(n, Ds, q)
              /\ KernTables(n) = KernTables(z)
              /\ \A c \in Ds, v \in VA : v[1] \in UserSlot \/ Translate(z, c, v) # NULL
                     => Translate(n, c, v) = Translate(z, c, v)
              /\ \A p \in Page : p # q => n.pp_ref[p] = z.pp_ref[p]
              /\ n.cr3 = z.cr3 /\ n.tlb = z.tlb
              /\ SteadyBut(z, n, Ds, d, va[1])
          <5>1. TableAdded(z, n, Ds, K, X, q, d, va[1], pm)
            BY <4>1, TableInv
          <5>2. Deref(n, PtePtr(d, va[1])) = n.pt[d][va[1]]
            BY DEF Deref, PtePtr
          <5> QED
            BY <5>1, <5>2 DEF TableAdded
        <4> QED
          BY <4>2 DEF K, pm
    <2>9. (H \cup {q}) \ {q} = H
      BY <2>4
    <2>10. n.pt[d][va[1]] # NULL /\ n.pt[d][va[1]].ppn = q
      <3>1. [ppn |-> q, perm |-> {"W", "U"}] # NULL
        BY <2>4, <2>7, EntryOf, Zenon
      <3> QED
        BY <2>8, <3>1
    <2>11. Refs(n, Ds, q) = {<<d, va[1]>>}
      BY <2>7, <2>8, <2>10, TableFacts
    <2>12. \A p \in Unused(m, Ds, H) : \A r \in Refs(n, Ds, p) : r[1] \in Ds
      <3> SUFFICES ASSUME NEW p \in Unused(m, Ds, H), NEW r \in Refs(n, Ds, p) PROVE r[1] \in Ds
        OBVIOUS
      <3>1. CASE p = q
        BY <2>11, <3>1
      <3>2. CASE p # q
        BY <1>0, <2>3, <2>8, <3>2 DEF Unused
      <3> QED
        BY <3>1, <3>2
    <2>13. \A p \in Page : p \notin Unused(m, Ds, H) =>
                      /\ Refs(n, Ds, p) = Refs(m, Ds, p)
                      /\ n.pp_ref[p] = m.pp_ref[p]
      BY <2>3, <2>8
    <2>14. \A c \in Ds, v \in VA : v[1] \in UserSlot \/ Translate(m, c, v) # NULL
                 => Translate(n, c, v) = Translate(m, c, v)
      BY <2>3, <2>8
    <2>15. w.pte # NULL
      BY <2>2, <2>4, <2>7, NullEntryAssumption DEF PtePtr
    <2> QED
      <3>1. MemInv(n, Ds, H, X)
        BY <2>8, <2>9
      <3>2. KernTables(n) = KernTables(m) /\ n.cr3 = m.cr3 /\ n.tlb = m.tlb
        BY <2>3, <2>8
      <3>3. w.pte = PtePtr(n.pt[d][va[1]].ppn, va[2])
        BY <2>2, <2>10
      <3>4. SteadyBut(m, n, Ds, d, va[1])
        <4>1. /\ Ds \cup Kept(m) \subseteq Page /\ Kept(z) = Kept(m)
              /\ \A x \in Ds \cup Kept(m) : x # q
          BY <2>3, <2>4, <2>5, KeptPages DEF MemInv, Kept
        <4>2. \A x \in Ds \cup Kept(m) : z.pt[x] = m.pt[x]
          BY <2>3, <2>5, <4>1
        <4> QED
          BY <2>8, <4>1, <4>2 DEF SteadyBut
      <3>5. PdeKept(m, n, d, va[1])
        <4>1. n.pt[d][va[1]].perm = {"W", "U"}
          BY <2>8
        <4> QED
          BY <1>3, <4>1 DEF PdeKept
      <3> HIDE DEF w
      <3> QED
        BY <2>2, <2>10, <2>12, <2>13, <2>14, <2>15, <3>1, <3>2, <3>3, <3>4, <3>5, <1>3 DEF w
  <1> QED
    BY <1>1, <1>2, <1>3

(* What page_lookup() finds at a user page is what a page walk finds. *)
LEMMA LookupFacts ==
    ASSUME NEW m, NEW Ds, NEW H, NEW X, MemInv(m, Ds, H, X),
           NEW d \in Ds, NEW va \in UserSlot \X Slot
    PROVE  LET found == page_lookup(m, d, va)
               e     == Translate(m, d, va)
           IN  /\ e = NULL => found.pp = NULL
               /\ e # NULL => /\ m.pt[d][va[1]] # NULL
                              /\ e \in Entry /\ e.ppn \in Page /\ found.pp = e.ppn
                              /\ found.pte = PtePtr(m.pt[d][va[1]].ppn, va[2])
  <1> DEFINE w     == pgdir_walk(m, d, va, FALSE)
             found == page_lookup(m, d, va)
             e     == Translate(m, d, va)
             t     == m.pt[d][va[1]].ppn
  <1>0. va[1] \in UserSlot /\ va[2] \in Slot
    OBVIOUS
  <1>1. CASE m.pt[d][va[1]] = NULL
    <2>1. w = [m |-> m, pte |-> NULL] /\ e = NULL
      BY <1>1 DEF pgdir_walk, Translate
    <2>2. found = IF w.pte = NULL \/ Deref(m, w.pte) = NULL
                  THEN [pp |-> NULL, pte |-> NULL]
                  ELSE [pp |-> Deref(m, w.pte).ppn, pte |-> w.pte]
      BY DEF page_lookup
    <2> HIDE DEF w, found
    <2>3. found = [pp |-> NULL, pte |-> NULL]
      BY <2>1, <2>2
    <2>4. found.pp = NULL
      BY <2>3
    <2> QED
      BY <2>1, <2>4 DEF found
  <1>2. CASE m.pt[d][va[1]] # NULL
    <2>1. w = [m |-> m, pte |-> PtePtr(t, va[2])] /\ e = m.pt[t][va[2]]
      BY <1>2 DEF pgdir_walk, Translate
    <2>2. found = IF w.pte = NULL \/ Deref(m, w.pte) = NULL
                  THEN [pp |-> NULL, pte |-> NULL]
                  ELSE [pp |-> Deref(m, w.pte).ppn, pte |-> w.pte]
      BY DEF page_lookup
    <2>3. t \in Page
      BY <1>0, <1>2, TableFacts
    <2>4. PtePtr(t, va[2]) # NULL /\ Deref(m, PtePtr(t, va[2])) = e
      BY <1>0, <2>1, <2>3, NullEntryAssumption DEF PtePtr, Deref
    <2>5. e \in Entry
      BY <1>0, <2>1, <2>3 DEF MemInv, MemType
    <2>6. e # NULL => e.ppn \in Page
      BY <2>5 DEF Entry
    <2> HIDE DEF w, found, e, t
    <2>7. found = IF e = NULL THEN [pp |-> NULL, pte |-> NULL]
                  ELSE [pp |-> e.ppn, pte |-> PtePtr(t, va[2])]
      BY <2>1, <2>2, <2>4
    <2>8. /\ e = NULL => found.pp = NULL
          /\ e # NULL => found.pp = e.ppn /\ found.pte = PtePtr(t, va[2])
      BY <2>7
    <2> QED
      BY <1>2, <2>5, <2>6, <2>8 DEF found, e, t
  <1> QED
    BY <1>1, <1>2

(* The processor may forget translations. *)
LEMMA InvalidateInv ==
    ASSUME NEW m, NEW Ds, NEW H, NEW X, MemInv(m, Ds, H, X), NEW va
    PROVE  LET a == tlb_invalidate(m, va)
           IN  /\ MemInv(a, Ds, H, X)
               /\ a.pt = m.pt /\ a.cr3 = m.cr3
               /\ a.tlb = {t \in m.tlb : t.va # va}
  <1> DEFINE a == tlb_invalidate(m, va)
  <1>1. /\ a.tlb = {t \in m.tlb : t.va # va}
        /\ a.pp_ref = m.pp_ref /\ a.pp_link = m.pp_link
        /\ a.page_free_list = m.page_free_list /\ a.panicked = m.panicked
        /\ a.pt = m.pt /\ a.cr3 = m.cr3 /\ DOMAIN a = DOMAIN m
    BY DEF tlb_invalidate, MemInv, MemType
  <1> HIDE DEF a
  <1>2. a.tlb \subseteq m.tlb
    BY <1>1
  <1>3. MemType(a)
    BY <1>1, <1>2 DEF MemInv, MemType
  <1>4. /\ Kept(a) = Kept(m) /\ \A p : Refs(a, Ds, p) = Refs(m, Ds, p)
        /\ KernPart(m, Ds) => KernPart(a, Ds)
    <2>1. a.pt = m.pt
      BY <1>1
    <2>2. SameSpaces(m, a, Ds)
      BY <2>1, RefsFrame
    <2> QED
      BY <2>2 DEF SameSpaces
  <1>5. KernPart(a, Ds)
    BY <1>4 DEF MemInv
  <1>6. MemInv(a, Ds, H, X)
    BY <1>1, <1>3, <1>4, <1>5, ContentsFrame
  <1> QED
    BY <1>1, <1>6 DEF a

(* page_remove() of a user page: the page is unmapped, nothing else is,    *)
(* and the processor forgets the translation.                              *)
LEMMA RemoveInv ==
    ASSUME NEW m, NEW Ds, NEW H, NEW X, MemInv(m, Ds, H, X),
           NEW d \in Ds, NEW va \in UserSlot \X Slot,
           Translate(m, d, va) # NULL /\ Translate(m, d, va).ppn \in H
               => Translate(m, d, va).ppn \in X
    PROVE  LET a == page_remove(m, d, va)
           IN  /\ MemInv(a, Ds, H, X)
               /\ KernTables(a) = KernTables(m)
               /\ Translate(a, d, va) = NULL
               /\ \A c \in Ds, v \in VA : c # d \/ v # va => Translate(a, c, v) = Translate(m, c, v)
               /\ Steady(m, a, Ds)
               /\ \A p \in Page : Refs(a, Ds, p) \subseteq Refs(m, Ds, p)
               /\ a.cr3 = m.cr3 /\ a.tlb \subseteq m.tlb
               /\ Translate(m, d, va) # NULL => \A t \in a.tlb : t.va # va
  <1> DEFINE a     == page_remove(m, d, va)
             found == page_lookup(m, d, va)
             e     == Translate(m, d, va)
             t     == m.pt[d][va[1]].ppn
             u     == page_decref(Store(m, PtePtr(t, va[2]), NULL), e.ppn)
  <1>0. va[1] \in UserSlot /\ va[2] \in Slot /\ va = <<va[1], va[2]>>
    OBVIOUS
  <1>1. CASE e = NULL
    <2>1. found.pp = NULL
      BY <1>1, LookupFacts
    <2>2. a = m
      BY <2>1 DEF page_remove
    <2> QED
      BY <1>1, <2>2 DEF Steady
  <1>2. CASE e # NULL
    <2>1. /\ m.pt[d][va[1]] # NULL /\ found.pp = e.ppn /\ found.pp # NULL
          /\ found.pte = PtePtr(t, va[2])
      BY <1>2, LookupFacts, NullAssumption DEF Page
    <2>2. a = tlb_invalidate(u, va)
      BY <2>1 DEF page_remove
    <2>3. t \in Page /\ IsTable(m, Ds, t) /\ t \notin Ds /\ t \notin Kept(m)
      BY <1>0, <2>1, TableFacts
    <2>4. e = m.pt[t][va[2]]
      BY <2>1 DEF Translate
    <2> HIDE DEF a, found, t
    <2>5. /\ MemInv(u, Ds, H, X)
          /\ KernTables(u) = KernTables(m)
          /\ u.pt[t][va[2]] = NULL
          /\ \A x \in Page, y \in Slot : x # t \/ y # va[2] => u.pt[x][y] = m.pt[x][y]
          /\ \A p \in Page : \A r : r \in Refs(u, Ds, p) <=> r \in Refs(m, Ds, p) /\ r # <<t, va[2]>>
          /\ u.cr3 = m.cr3 /\ u.tlb = m.tlb
      <3>1. e = Deref(m, PtePtr(t, va[2]))
        BY <2>4 DEF Deref, PtePtr
      <3> HIDE DEF e
      <3>2. e.ppn \in H => e.ppn \in X
        BY <1>2 DEF e
      <3>3. u = page_decref(Store(m, PtePtr(t, va[2]), NULL), e.ppn)
        OBVIOUS
      <3> HIDE DEF u
      <3>4. EntryCleared(m, u, Ds, H, X, t, va[2])
        BY <1>0, <1>2, <2>3, <3>1, <3>2, <3>3, UnmapInv
      <3> QED
        BY <3>4 DEF EntryCleared, SameBut, Deref, PtePtr
    <2>6. /\ Translate(u, d, va) = u.pt[t][va[2]]
          /\ \A c \in Ds, v \in VA : c # d \/ v # va
                  => Translate(u, c, v) = Translate(m, c, v)
      <3> HIDE DEF u, e
      <3>1. SameBut(m, u, t, va[2])
        BY <2>5 DEF SameBut
      <3>2. Names(m, d, va[1], t)
        BY <2>1 DEF t, Names
      <3>3. OneTranslation(m, u, Ds, d, va, t)
        BY <3>1, <3>2, EntryTranslate
      <3> QED
        BY <3>3 DEF OneTranslation, SameTranslations, Deref, PtePtr
    <2> HIDE DEF u, e
    <2>7. /\ MemInv(a, Ds, H, X) /\ a.pt = u.pt /\ a.cr3 = u.cr3
          /\ a.tlb = {x \in u.tlb : x.va # va}
      BY <2>2, <2>5, InvalidateInv
    <2>8. /\ KernTables(a) = KernTables(u)
          /\ \A p : Refs(a, Ds, p) = Refs(u, Ds, p)
          /\ \A c, v : Translate(a, c, v) = Translate(u, c, v)
      <3>1. a.pt = u.pt
        BY <2>7
      <3>2. SameSpaces(u, a, Ds)
        BY <3>1, RefsFrame
      <3> QED
        BY <3>2 DEF SameSpaces
    <2>9. Steady(m, a, Ds)
      <3>1. Ds \cup Kept(m) \subseteq Page
        BY DirPages, KeptPages DEF MemInv
      <3> QED
        BY <2>3, <2>5, <2>7, <3>1 DEF Steady
    <2>10. Translate(a, d, va) = NULL
      BY <1>0, <2>5, <2>6, <2>8
    <2>11. \A c \in Ds, v \in VA : c # d \/ v # va => Translate(a, c, v) = Translate(m, c, v)
      BY <1>0, <2>6, <2>8
    <2>12. \A p \in Page : Refs(a, Ds, p) \subseteq Refs(m, Ds, p)
      BY <2>5, <2>8
    <2>13. a.tlb \subseteq m.tlb /\ \A x \in a.tlb : x.va # va
      BY <2>5, <2>7
    <2> QED
      BY <2>5, <2>7, <2>8, <2>9, <2>10, <2>11, <2>12, <2>13 DEF a
  <1> QED
    BY <1>1, <1>2

(* What a page_insert() that succeeds leaves behind: e at va, every other  *)
(* translation as it was (but pages of the window at UVPT may have become  *)
(* readable), no new reference to a page somebody uses, and nothing stale  *)
(* in the processor.                                                       *)
Inserted(m, a, Ds, H, d, va, e) ==
    /\ Translate(a, d, va) = e
    /\ \A c \in Ds, v \in VA :
           (c # d \/ v # va) /\ (v[1] \in UserSlot \/ Translate(m, c, v) # NULL)
               => Translate(a, c, v) = Translate(m, c, v)
    /\ KernTables(a) = KernTables(m)
    /\ \A p \in Page : p # e.ppn /\ p \notin Unused(m, Ds, H) => Refs(a, Ds, p) \subseteq Refs(m, Ds, p)
    /\ a.cr3 = m.cr3 /\ a.tlb \subseteq m.tlb
    /\ Translate(m, d, va) # NULL => \A t \in a.tlb : t.va # va
    /\ \A p \in Unused(m, Ds, H) : \A r \in Refs(a, Ds, p) : r[1] \in Ds
    /\ \E r : Refs(a, Ds, e.ppn) \subseteq Refs(m, Ds, e.ppn) \cup {r}
    /\ SteadyBut(m, a, Ds, d, va[1]) /\ PdeKept(m, a, d, va[1])

(* page_insert() of a page that is held uncounted, or mapped already, at a *)
(* user address: it fails and changes nothing, and then nothing was mapped *)
(* there, or the page is mapped.                                           *)
LEMMA InsertInv ==
    ASSUME NEW m, NEW Ds, NEW H, NEW X, MemInv(m, Ds, H, X),
           NEW d \in Ds, NEW va \in UserSlot \X Slot,
           NEW pp \in Page, pp \notin X, pp \notin Ds, pp \notin Kept(m), pp \notin Unused(m, Ds, H),
           \A r \in Refs(m, Ds, pp) : r[1] \notin Ds,
           m.pp_ref[pp] < RefMax, NEW pm \in Perm,
           Translate(m, d, va) # NULL /\ Translate(m, d, va).ppn \in H
               => Translate(m, d, va).ppn \in X \cup {pp}
    PROVE  LET res == page_insert(m, d, pp, va, pm)
           IN  /\ res.r # 0 => /\ res.r = -E_NO_MEM /\ res.m = m
                               /\ Translate(m, d, va) = NULL /\ m.page_free_list = NULL
               /\ res.r = 0 => /\ MemInv(res.m, Ds, H \ {pp}, X)
                               /\ Inserted(m, res.m, Ds, H, d, va, [ppn |-> pp, perm |-> pm])
  <1> DEFINE res     == page_insert(m, d, pp, va, pm)
             w       == pgdir_walk(m, d, va, TRUE)
             old     == Translate(m, d, va)
             counted == page_incref(w.m, pp)
             t       == w.m.pt[d][va[1]].ppn
             cleared == IF Deref(counted, w.pte) # NULL
                        THEN page_remove(counted, d, va) ELSE counted
             e       == [ppn |-> pp, perm |-> pm]
             a       == Store(cleared, w.pte, e)
             HH      == H \cup {pp}
             XX      == X \cup {pp}
  <1>0. va[1] \in UserSlot /\ va[2] \in Slot /\ va \in VA
    BY SlotAssumption DEF VA, UserSlot, Slot
  <1>1. /\ MemInv(w.m, Ds, H, X)
        /\ w.pte = NULL => w.m = m /\ m.pt[d][va[1]] = NULL /\ m.page_free_list = NULL
        /\ w.pte # NULL => w.m.pt[d][va[1]] # NULL /\ w.pte = PtePtr(t, va[2])
        /\ \A c \in Ds, v \in VA : v[1] \in UserSlot \/ Translate(m, c, v) # NULL
               => Translate(w.m, c, v) = Translate(m, c, v)
        /\ KernTables(w.m) = KernTables(m)
        /\ w.m.cr3 = m.cr3 /\ w.m.tlb = m.tlb
        /\ \A p \in Page : p \notin Unused(m, Ds, H) =>
               Refs(w.m, Ds, p) = Refs(m, Ds, p) /\ w.m.pp_ref[p] = m.pp_ref[p]
        /\ \A p \in Unused(m, Ds, H) : \A r \in Refs(w.m, Ds, p) : r[1] \in Ds
        /\ SteadyBut(m, w.m, Ds, d, va[1]) /\ PdeKept(m, w.m, d, va[1])
    <2>1. /\ MemInv(w.m, Ds, H, X)
          /\ w.pte = NULL => w.m = m /\ m.pt[d][va[1]] = NULL /\ m.page_free_list = NULL
          /\ w.pte # NULL => /\ w.m.pt[d][va[1]] # NULL
                             /\ w.pte = PtePtr(w.m.pt[d][va[1]].ppn, va[2])
          /\ \A c \in Ds, v \in VA : v[1] \in UserSlot \/ Translate(m, c, v) # NULL
                 => Translate(w.m, c, v) = Translate(m, c, v)
          /\ KernTables(w.m) = KernTables(m)
          /\ w.m.cr3 = m.cr3 /\ w.m.tlb = m.tlb
          /\ \A p \in Page : p \notin Unused(m, Ds, H) =>
                 /\ Refs(w.m, Ds, p) = Refs(m, Ds, p)
                 /\ w.m.pp_ref[p] = m.pp_ref[p]
          /\ \A p \in Unused(m, Ds, H) : \A r \in Refs(w.m, Ds, p) : r[1] \in Ds
          /\ SteadyBut(m, w.m, Ds, d, va[1]) /\ PdeKept(m, w.m, d, va[1])
      BY WalkInv
    <2> HIDE DEF w
    <2> QED
      BY <2>1 DEF t
  <1>2. res = IF w.pte = NULL THEN [m |-> w.m, r |-> -E_NO_MEM] ELSE [m |-> a, r |-> 0]
    BY DEF page_insert
  <1> HIDE DEF w
  <1>3. CASE w.pte = NULL
    <2>1. res.m = m /\ res.r = -E_NO_MEM
      BY <1>1, <1>2, <1>3
    <2>2. old = NULL
      BY <1>1, <1>3 DEF Translate
    <2> QED
      BY <1>1, <1>3, <2>1, <2>2 DEF E_NO_MEM
  <1>4. CASE w.pte # NULL
    <2>0. e \in Entry /\ e # NULL /\ e.ppn = pp
      BY EntryOf
    <2> HIDE DEF e, a, counted, t, HH, XX
    <2>1. res.m = a /\ res.r = 0
      BY <1>2, <1>4
    <2>2. w.m.pt[d][va[1]] # NULL /\ w.pte = PtePtr(t, va[2]) /\ t = w.m.pt[d][va[1]].ppn
      BY <1>1, <1>4 DEF t
    <2>3. Kept(w.m) = Kept(m)
      BY <1>1 DEF Kept
    <2>4. /\ pp \notin Kept(w.m) /\ pp \notin Unused(w.m, Ds, H)
          /\ \A r \in Refs(w.m, Ds, pp) : r[1] \notin Ds
          /\ w.m.pp_ref[pp] < RefMax
      BY <1>1, <2>3 DEF Unused
    <2>5. /\ MemInv(counted, Ds, HH, XX)
          /\ counted.pt = w.m.pt /\ counted.cr3 = w.m.cr3 /\ counted.tlb = w.m.tlb
      <3> DEFINE u == w.m
      <3>1. counted = page_incref(u, pp)
        BY DEF counted
      <3>2. /\ MemInv(u, Ds, H, X) /\ pp \notin Kept(u) /\ pp \notin Unused(u, Ds, H)
            /\ \A r \in Refs(u, Ds, pp) : r[1] \notin Ds
            /\ u.pp_ref[pp] < RefMax
        BY <1>1, <2>4
      <3> HIDE DEF u
      <3>3. /\ MemInv(counted, Ds, H \cup {pp}, X \cup {pp})
            /\ counted.pt = u.pt /\ counted.cr3 = u.cr3 /\ counted.tlb = u.tlb
        BY <3>1, <3>2, IncrefInv, SMTT(20)
      <3> QED
        BY <3>3 DEF u, HH, XX
    <2>6. /\ \A p : Refs(counted, Ds, p) = Refs(w.m, Ds, p)
          /\ KernTables(counted) = KernTables(w.m)
          /\ \A c, v : Translate(counted, c, v) = Translate(w.m, c, v)
      <3>1. counted.pt = w.m.pt
        BY <2>5
      <3>2. SameSpaces(w.m, counted, Ds)
        BY <3>1, RefsFrame
      <3> QED
        BY <3>2 DEF SameSpaces
    <2>7. Translate(counted, d, va) = old /\ Deref(counted, w.pte) = old
      <3>1. Translate(counted, d, va) = old
        BY <1>0, <1>1, <2>6
      <3>2. Deref(counted, w.pte) = counted.pt[t][va[2]]
        BY <2>2 DEF Deref, PtePtr
      <3>3. Translate(w.m, d, va) = w.m.pt[t][va[2]]
        BY <2>2 DEF Translate
      <3>4. counted.pt = w.m.pt
        BY <2>5
      <3> QED
        BY <2>6, <3>1, <3>2, <3>3, <3>4
    <2> HIDE DEF old
    <2>8. /\ MemInv(cleared, Ds, HH, XX)
          /\ KernTables(cleared) = KernTables(m)
          /\ cleared.pt[d][va[1]] # NULL /\ cleared.pt[d][va[1]].ppn = t
          /\ cleared.pt[t][va[2]] = NULL
          /\ \A c \in Ds, v \in VA : c # d \/ v # va => Translate(cleared, c, v) = Translate(w.m, c, v)
          /\ \A p \in Page : Refs(cleared, Ds, p) \subseteq Refs(w.m, Ds, p)
          /\ cleared.cr3 = m.cr3 /\ cleared.tlb \subseteq m.tlb
          /\ old # NULL => \A x \in cleared.tlb : x.va # va
          /\ Steady(w.m, cleared, Ds)
      <3>1. CASE old = NULL
        <4>1. cleared = counted
          BY <2>7, <3>1
        <4>2. counted.pt[t][va[2]] = NULL
          <5>1. Deref(counted, w.pte) = counted.pt[t][va[2]]
            BY <2>2 DEF Deref, PtePtr
          <5> QED
            BY <2>7, <3>1, <5>1
        <4> HIDE DEF cleared
        <4>3. MemInv(cleared, Ds, HH, XX) /\ KernTables(cleared) = KernTables(m)
          BY <1>1, <2>5, <2>6, <4>1
        <4>4. cleared.pt[d][va[1]] # NULL /\ cleared.pt[d][va[1]].ppn = t /\ cleared.pt[t][va[2]] = NULL
          BY <2>2, <2>5, <4>1, <4>2
        <4>5. /\ \A c \in Ds, v \in VA : c # d \/ v # va => Translate(cleared, c, v) = Translate(w.m, c, v)
              /\ \A p \in Page : Refs(cleared, Ds, p) \subseteq Refs(w.m, Ds, p)
          BY <2>6, <4>1
        <4>6. cleared.cr3 = m.cr3 /\ cleared.tlb \subseteq m.tlb
          BY <1>1, <2>5, <4>1
        <4>7. Steady(w.m, cleared, Ds)
          BY <2>5, <4>1 DEF Steady
        <4> QED
          BY <3>1, <4>3, <4>4, <4>5, <4>6, <4>7
      <3>2. CASE old # NULL
        <4>1. cleared = page_remove(counted, d, va)
          BY <2>7, <3>2
        <4>2. Translate(counted, d, va) # NULL /\ Translate(counted, d, va).ppn \in HH
                  => Translate(counted, d, va).ppn \in XX
          BY <2>7 DEF old, HH, XX
        <4> HIDE DEF cleared
        <4>3. /\ MemInv(cleared, Ds, HH, XX)
              /\ KernTables(cleared) = KernTables(counted)
              /\ Translate(cleared, d, va) = NULL
              /\ \A c \in Ds, v \in VA : c # d \/ v # va
                     => Translate(cleared, c, v) = Translate(counted, c, v)
              /\ Steady(counted, cleared, Ds)
              /\ \A p \in Page : Refs(cleared, Ds, p) \subseteq Refs(counted, Ds, p)
              /\ cleared.cr3 = counted.cr3 /\ cleared.tlb \subseteq counted.tlb
              /\ Translate(counted, d, va) # NULL => \A x \in cleared.tlb : x.va # va
          BY <2>5, <4>1, <4>2, RemoveInv
        <4>4. cleared.pt[d][va[1]] # NULL /\ cleared.pt[d][va[1]].ppn = t
          <5>1. va[1] \in Slot
            BY <1>0, SlotAssumption DEF UserSlot, Slot
          <5> QED
            BY <2>2, <2>5, <4>3, <5>1 DEF Steady
        <4>5. cleared.pt[t][va[2]] = NULL
          BY <4>3, <4>4 DEF Translate
        <4>6. KernTables(cleared) = KernTables(m)
          BY <1>1, <2>6, <4>3
        <4>7. /\ \A c \in Ds, v \in VA : c # d \/ v # va => Translate(cleared, c, v) = Translate(w.m, c, v)
              /\ \A p \in Page : Refs(cleared, Ds, p) \subseteq Refs(w.m, Ds, p)
          BY <2>6, <4>3
        <4>8. cleared.cr3 = m.cr3 /\ cleared.tlb \subseteq m.tlb
          BY <1>1, <2>5, <4>3
        <4>9. \A x \in cleared.tlb : x.va # va
          BY <2>7, <3>2, <4>3
        <4>10. Steady(w.m, cleared, Ds)
          <5>1. Kept(counted) = Kept(w.m)
            BY <2>6 DEF Kept
          <5> QED
            BY <2>5, <4>3, <5>1 DEF Steady
        <4> QED
          BY <4>3, <4>4, <4>5, <4>6, <4>7, <4>8, <4>9, <4>10
      <3> QED
        BY <3>1, <3>2
    <2> HIDE DEF cleared
    <2>9. t \in Page /\ IsTable(cleared, Ds, t) /\ t \notin Ds /\ t \notin Kept(cleared)
      BY <1>0, <2>8, TableFacts
    <2>10. pp \in XX
      BY DEF XX
    <2>11. a = Store(cleared, PtePtr(t, va[2]), e)
      BY <2>2 DEF a
    <2>12. /\ MemInv(a, Ds, HH \ {pp}, XX \ {pp})
           /\ KernTables(a) = KernTables(cleared)
           /\ Deref(a, PtePtr(t, va[2])) = e
           /\ SameBut(cleared, a, t, va[2])
           /\ \A p \in Page : p # pp => Refs(a, Ds, p) = Refs(cleared, Ds, p)
           /\ Refs(a, Ds, pp) = Refs(cleared, Ds, pp) \cup {<<t, va[2]>>}
           /\ a.cr3 = cleared.cr3 /\ a.tlb = cleared.tlb
      <3>1. Deref(cleared, PtePtr(t, va[2])) = NULL
        BY <2>8 DEF Deref, PtePtr
      <3>2. MemInv(cleared, Ds, HH, XX)
        BY <2>8
      <3> QED
        <4>1. AddsEntry(cleared, a, Ds, HH, XX, t, va[2], e)
          <5>1. pp \notin Ds /\ va[2] \in Slot
            BY <1>0
          <5> QED
            BY <2>0, <2>9, <2>10, <2>11, <3>1, <3>2, <5>1, MapInv
        <4> QED
          BY <2>0, <4>1 DEF AddsEntry
    <2>13. HH \ {pp} = H \ {pp} /\ XX \ {pp} = X
      BY DEF HH, XX
    <2>14. Translate(a, d, va) = e /\ SameTranslations(cleared, a, Ds, d, va)
      <3>1. Names(cleared, d, va[1], t) /\ MemInv(cleared, Ds, HH, XX)
        BY <2>8 DEF Names
      <3>2. SameBut(cleared, a, t, va[2])
        BY <2>12
      <3>3. OneTranslation(cleared, a, Ds, d, va, t)
        BY <3>1, <3>2, EntryTranslate
      <3> QED
        BY <2>12, <3>3 DEF OneTranslation
    <2>15. \A c \in Ds, v \in VA :
               (c # d \/ v # va) /\ (v[1] \in UserSlot \/ Translate(m, c, v) # NULL)
                   => Translate(a, c, v) = Translate(m, c, v)
      BY <1>1, <2>8, <2>14 DEF SameTranslations
    <2>16. e.ppn = pp
      BY DEF e
    <2>17. \A p \in Page : p # e.ppn /\ p \notin Unused(m, Ds, H) => Refs(a, Ds, p) \subseteq Refs(m, Ds, p)
      BY <1>1, <2>8, <2>12, <2>16
    <2>21. SteadyBut(m, a, Ds, d, va[1]) /\ PdeKept(m, a, d, va[1])
      <3>1. Kept(cleared) = Kept(m) /\ va[1] \in Slot
        BY <1>0, <2>8, SlotAssumption DEF Kept, UserSlot, Slot
      <3>2. \A x \in Ds \cup Kept(m), s \in Slot : cleared.pt[x][s] = w.m.pt[x][s]
        BY <2>3, <2>8 DEF Steady
      <3>3. Ds \cup Kept(m) \subseteq Page
        BY DirPages, KeptPages DEF MemInv
      <3>4. \A x \in Ds \cup Kept(m), s \in Slot : a.pt[x][s] = cleared.pt[x][s]
        BY <2>9, <2>12, <3>1, <3>3 DEF SameBut
      <3>5. SteadyBut(m, a, Ds, d, va[1])
        BY <1>1, <3>2, <3>4 DEF SteadyBut
      <3>6. a.pt[d][va[1]] = w.m.pt[d][va[1]]
        BY <3>1, <3>2, <3>4
      <3> QED
        BY <1>1, <3>5, <3>6 DEF PdeKept
    <2>22. \A p \in Unused(m, Ds, H) : \A r \in Refs(a, Ds, p) : r[1] \in Ds
      BY <1>1, <2>8, <2>12 DEF Unused
    <2>23. \E r : Refs(a, Ds, e.ppn) \subseteq Refs(m, Ds, e.ppn) \cup {r}
      <3>1. Refs(a, Ds, pp) \subseteq Refs(m, Ds, pp) \cup {<<t, va[2]>>}
        BY <1>1, <2>8, <2>12
      <3> QED
        BY <2>16, <3>1
    <2>18. Inserted(m, a, Ds, H, d, va, e)
      BY <2>8, <2>12, <2>14, <2>15, <2>17, <2>21, <2>22, <2>23 DEF Inserted, old
    <2>19. MemInv(a, Ds, H \ {pp}, X) /\ Inserted(m, a, Ds, H, d, va, [ppn |-> pp, perm |-> pm])
      BY <2>12, <2>13, <2>18 DEF e
    <2>20. res.m = a /\ res.r = 0 => MemInv(res.m, Ds, H \ {pp}, X)
               /\ Inserted(m, res.m, Ds, H, d, va, [ppn |-> pp, perm |-> pm])
      BY <2>19
    <2> QED
      BY <2>1, <2>20
  <1> QED
    BY <1>3, <1>4

-----------------------------------------------------------------------------
(* Which pages page_init() links: base memory but page 0, and what lies    *)
(* past the kernel.                                                        *)
LEMMA InitiallyFreeOrReserved ==
    ASSUME NEW p \in Page
    PROVE  /\ p \in ReservedPages <=> p = 0 \/ ~InitiallyFree(p)
           /\ InitiallyFree(p) <=> p < NPagesBasemem \/ FirstFree <= p
  BY LayoutAssumption, NPagesAssumption DEF InitiallyFree, ReservedPages, Page

(* The last page linked once page_init()'s loop has been at page i, and    *)
(* pages[] and the list at that point.                                     *)
LastLinked(i) ==
    IF FirstFree <= i \/ i \in 1 .. NPagesBasemem - 1 THEN i
    ELSE IF 1 < NPagesBasemem /\ NPagesBasemem <= i THEN NPagesBasemem - 1
    ELSE NULL

InitiallyLinked(i) == {p \in Page : 0 < p /\ p <= i /\ InitiallyFree(p)}

AfterPage(m, i) ==
    /\ {"pp_ref", "pp_link", "page_free_list", "panicked"} \subseteq DOMAIN m
    /\ m.pp_ref = [p \in Page |-> IF p = 0 \/ (p <= i /\ ~InitiallyFree(p)) THEN 1 ELSE 0]
    /\ m.pp_link = [p \in Page |-> IF p \in InitiallyLinked(i) THEN LastLinked(p - 1) ELSE NULL]
    /\ m.page_free_list = LastLinked(i)
    /\ m.panicked = FALSE

(* LastLinked() moves to each page the loop links and stays over the       *)
(* others.                                                                 *)
LEMMA LastLinkedFacts ==
    ASSUME NEW i \in Nat
    PROVE  /\ i \in Page => LastLinked(i) \in PageOrNull
           /\ LastLinked(0) = NULL
           /\ i + 1 \in Page => LastLinked(i + 1) = IF InitiallyFree(i + 1) THEN i + 1 ELSE LastLinked(i)
  <1>1. FirstFree \in Nat /\ NPagesBasemem \in Nat /\ NPages \in Nat
        /\ 0 < FirstFree /\ NPagesBasemem <= FirstFree /\ FirstFree < NPages
    BY LayoutAssumption, KernAssumption, NPagesAssumption
  <1>2. i \in Page => LastLinked(i) \in PageOrNull
    BY <1>1 DEF LastLinked, PageOrNull, Page
  <1>3. LastLinked(0) = NULL
    BY <1>1 DEF LastLinked
  <1>4. i + 1 \in Page => (InitiallyFree(i + 1) <=> i + 1 < NPagesBasemem \/ FirstFree <= i + 1)
    BY InitiallyFreeOrReserved
  <1>5. ASSUME i + 1 \in Page
        PROVE  LastLinked(i + 1) = IF InitiallyFree(i + 1) THEN i + 1 ELSE LastLinked(i)
    <2>1. CASE InitiallyFree(i + 1)
      <3>1. FirstFree <= i + 1 \/ i + 1 \in 1 .. NPagesBasemem - 1
        BY <1>1, <1>4, <1>5, <2>1
      <3>2. LastLinked(i + 1) = i + 1
        BY <3>1 DEF LastLinked
      <3> QED
        BY <2>1, <3>2
    <2>2. CASE ~InitiallyFree(i + 1)
      <3>1. NPagesBasemem <= i + 1 /\ ~(FirstFree <= i + 1) /\ ~(FirstFree <= i)
        BY <1>1, <1>4, <1>5, <2>2
      <3>2. CASE 1 < NPagesBasemem
        <4>1. LastLinked(i + 1) = NPagesBasemem - 1
          <5>1. i + 1 \notin 1 .. NPagesBasemem - 1
            BY <1>1, <3>1
          <5> QED
            BY <3>1, <3>2, <5>1 DEF LastLinked
        <4>2. LastLinked(i) = NPagesBasemem - 1
          <5>1. CASE i = NPagesBasemem - 1
            <6>1. i \in 1 .. NPagesBasemem - 1
              BY <1>1, <3>2, <5>1
            <6> QED
              BY <5>1, <6>1 DEF LastLinked
          <5>2. CASE i # NPagesBasemem - 1
            <6>1. i \notin 1 .. NPagesBasemem - 1 /\ NPagesBasemem <= i
              BY <1>1, <3>1, <5>2
            <6> QED
              BY <3>1, <3>2, <6>1 DEF LastLinked
          <5> QED
            BY <5>1, <5>2
        <4> QED
          BY <2>2, <4>1, <4>2
      <3>3. CASE ~(1 < NPagesBasemem)
        <4>1. LastLinked(i + 1) = NULL
          BY <1>1, <3>1, <3>3 DEF LastLinked
        <4>2. LastLinked(i) = NULL
          BY <1>1, <3>1, <3>3 DEF LastLinked
        <4> QED
          BY <2>2, <4>1, <4>2
      <3> QED
        BY <3>2, <3>3
    <2> QED
      BY <2>1, <2>2
  <1> QED
    BY <1>2, <1>3, <1>5

(* One iteration of the loop. *)
LEMMA AfterFirst == AfterPage(PagesBeforeLoop, 0)
  <1>1. InitiallyLinked(0) = {}
    BY DEF InitiallyLinked, Page
  <1>2. LastLinked(0) = NULL
    BY LastLinkedFacts
  <1>3. \A p \in Page : p <= 0 => p = 0
    BY DEF Page
  <1>4. [p \in Page |-> IF p = 0 \/ (p <= 0 /\ ~InitiallyFree(p)) THEN 1 ELSE 0]
            = [[p \in Page |-> 0] EXCEPT ![0] = 1]
    BY <1>3
  <1>5. [p \in Page |-> IF p \in InitiallyLinked(0) THEN LastLinked(p - 1) ELSE NULL]
            = [p \in Page |-> NULL]
    BY <1>1
  <1> DEFINE r == [[p \in Page |-> 0] EXCEPT ![0] = 1]
             k == [p \in Page |-> NULL]
  <1>6. PagesBeforeLoop = [pp_ref |-> r, pp_link |-> k, page_free_list |-> NULL, panicked |-> FALSE]
    BY DEF PagesBeforeLoop
  <1> HIDE DEF r, k
  <1>7. /\ {"pp_ref", "pp_link", "page_free_list", "panicked"} \subseteq DOMAIN PagesBeforeLoop
        /\ PagesBeforeLoop.pp_ref = r /\ PagesBeforeLoop.pp_link = k
        /\ PagesBeforeLoop.page_free_list = NULL /\ PagesBeforeLoop.panicked = FALSE
    BY <1>6
  <1> QED
    BY <1>2, <1>4, <1>5, <1>7 DEF AfterPage, r, k

(* One round of page_init()'s loop. *)
LEMMA AfterStep ==
    ASSUME NEW i \in Nat, i + 1 \in Page, NEW m, AfterPage(m, i)
    PROVE  AfterPage(page_init_step(m, i + 1), i + 1)
  <1> DEFINE n == i + 1
             a == page_init_step(m, n)
             r == [p \in Page |-> IF p = 0 \/ (p <= i /\ ~InitiallyFree(p)) THEN 1 ELSE 0]
             s == [p \in Page |-> IF p = 0 \/ (p <= n /\ ~InitiallyFree(p)) THEN 1 ELSE 0]
             k == [p \in Page |-> IF p \in InitiallyLinked(i) THEN LastLinked(p - 1) ELSE NULL]
             l == [p \in Page |-> IF p \in InitiallyLinked(n) THEN LastLinked(p - 1) ELSE NULL]
  <1>1. n \in Page /\ n # 0 /\ n - 1 = i /\ ~(n <= i)
    OBVIOUS
  <1>2. \A p \in Page : p <= n <=> p <= i \/ p = n
    BY <1>1 DEF Page
  <1>3. LastLinked(n) = IF InitiallyFree(n) THEN n ELSE LastLinked(i)
    BY <1>1, LastLinkedFacts
  <1>4. s = [r EXCEPT ![n] = IF InitiallyFree(n) THEN 0 ELSE 1]
    <2> HIDE DEF n
    <2> QED
      BY <1>1, <1>2
  <1>5. l = [k EXCEPT ![n] = IF InitiallyFree(n) THEN LastLinked(i) ELSE NULL]
    <2>1. \A p \in Page : p \in InitiallyLinked(n) <=>
              p \in InitiallyLinked(i) \/ (p = n /\ InitiallyFree(n))
      BY <1>1, <1>2 DEF InitiallyLinked
    <2>2. n \notin InitiallyLinked(i)
      BY <1>1 DEF InitiallyLinked
    <2> HIDE DEF n
    <2>3. ASSUME NEW p \in Page
          PROVE  l[p] = [k EXCEPT ![n] = IF InitiallyFree(n) THEN LastLinked(i) ELSE NULL][p]
      <3>1. CASE p = n
        BY <1>1, <2>1, <2>2, <3>1
      <3>2. CASE p # n
        BY <2>1, <3>2
      <3> QED
        BY <3>1, <3>2
    <2> QED
      BY <1>1, <2>3
  <1> HIDE DEF r, s, k, l, n
  <1>6. /\ {"pp_ref", "pp_link", "page_free_list", "panicked"} \subseteq DOMAIN m
        /\ m.pp_ref = r /\ m.pp_link = k
        /\ m.page_free_list = LastLinked(i) /\ m.panicked = FALSE
    BY DEF AfterPage, r, k
  <1>7. CASE InitiallyFree(n)
    <2>1. a = [m EXCEPT !.pp_ref[n] = 0, !.pp_link[n] = m.page_free_list, !.page_free_list = n]
      BY <1>7 DEF page_init_step
    <2> HIDE DEF a
    <2>2. /\ DOMAIN a = DOMAIN m
          /\ a.pp_ref = [r EXCEPT ![n] = 0] /\ a.pp_link = [k EXCEPT ![n] = LastLinked(i)]
          /\ a.page_free_list = n /\ a.panicked = m.panicked
      BY <1>6, <2>1
    <2>3. a.pp_ref = s /\ a.pp_link = l /\ a.page_free_list = LastLinked(n)
      BY <1>3, <1>4, <1>5, <1>7, <2>2
    <2> QED
      BY <1>6, <2>2, <2>3 DEF AfterPage, s, l, a, n
  <1>8. CASE ~InitiallyFree(n)
    <2>1. a = [m EXCEPT !.pp_ref[n] = 1, !.pp_link[n] = NULL]
      BY <1>8 DEF page_init_step
    <2> HIDE DEF a
    <2>2. /\ DOMAIN a = DOMAIN m
          /\ a.pp_ref = [r EXCEPT ![n] = 1] /\ a.pp_link = [k EXCEPT ![n] = NULL]
          /\ a.page_free_list = m.page_free_list /\ a.panicked = m.panicked
      BY <1>6, <2>1
    <2>3. a.pp_ref = s /\ a.pp_link = l /\ a.page_free_list = LastLinked(n)
      BY <1>3, <1>4, <1>5, <1>6, <1>8, <2>2
    <2> QED
      BY <1>6, <2>2, <2>3 DEF AfterPage, s, l, a, n
  <1> QED
    BY <1>7, <1>8

(* A run of the loop for n rounds: its state after each. *)
Loop(g, n) ==
    /\ g[0] = PagesBeforeLoop
    /\ \A i \in 1 .. n : g[i] = page_init_step(g[i - 1], i)

(* There is such a run of the loop for every number of rounds (by          *)
(* induction on the number).                                               *)
LEMMA LoopRuns ==
    ASSUME NEW n \in Nat
    PROVE  \E g : Loop(g, n)
  <1> DEFINE S == {k \in Nat : \E g : Loop(g, k)}
  <1>1. 0 \in S
    <2>1. Loop([i \in {0} |-> PagesBeforeLoop], 0)
      BY DEF Loop
    <2> QED
      BY <2>1
  <1>2. ASSUME NEW k \in Nat, k \in S PROVE k + 1 \in S
    <2>1. PICK g : Loop(g, k)
      BY <1>2
    <2> DEFINE h == [i \in 0 .. k + 1 |-> IF i = k + 1 THEN page_init_step(g[k], k + 1) ELSE g[i]]
    <2>2. h[0] = PagesBeforeLoop
      BY <2>1 DEF Loop
    <2>3. ASSUME NEW i \in 1 .. k + 1
          PROVE  h[i] = page_init_step(h[i - 1], i)
      <3>1. i - 1 \in 0 .. k + 1 /\ i - 1 # k + 1 /\ h[i - 1] = g[i - 1]
        OBVIOUS
      <3>2. CASE i = k + 1
        <4>1. i - 1 = k /\ h[i] = page_init_step(g[k], k + 1)
          BY <3>2
        <4> QED
          BY <3>1, <3>2, <4>1
      <3>3. CASE i # k + 1
        <4>1. i \in 1 .. k /\ h[i] = g[i]
          BY <3>3
        <4> QED
          BY <2>1, <3>1, <4>1 DEF Loop
      <3> QED
        BY <3>2, <3>3
    <2> HIDE DEF h
    <2>4. Loop(h, k + 1)
      BY <2>2, <2>3 DEF Loop
    <2> QED
      BY <2>4
  <1> HIDE DEF S
  <1>3. Nat \subseteq S
    BY <1>1, <1>2, SetInduction
  <1> QED
    BY <1>3 DEF S

(* page_init() run to its end. *)
LEMMA PageInitRuns == AfterPage(page_init, NPages - 1)
  <1> DEFINE Is(g)  == g = [i \in Page |-> IF i = 0 THEN PagesBeforeLoop
                                           ELSE page_init_step(g[i - 1], i)]
             after  == CHOOSE g : Is(g)
  <1>0. NPages - 1 \in Nat /\ NPages - 1 \in Page /\ 0 \in Page
    BY NPagesAssumption DEF Page
  <1>1. PICK f : Loop(f, NPages - 1)
    BY <1>0, LoopRuns
  <1> DEFINE path == [i \in Page |-> f[i]]
  <1>2. Is(path)
    <2>1. ASSUME NEW i \in Page
          PROVE  f[i] = IF i = 0 THEN PagesBeforeLoop ELSE page_init_step(path[i - 1], i)
      <3>1. CASE i = 0
        BY <1>1, <3>1 DEF Loop
      <3>2. CASE i # 0
        <4>1. i - 1 \in Page /\ i \in 1 .. NPages - 1
          BY <3>2, NPagesAssumption DEF Page
        <4>2. path[i - 1] = f[i - 1]
          BY <4>1
        <4> HIDE DEF path
        <4> QED
          BY <1>1, <3>2, <4>1, <4>2 DEF Loop
      <3> QED
        BY <3>1, <3>2
    <2> QED
      BY <2>1
  <1> HIDE DEF path
  <1>3. Is(after)
    BY <1>2
  <1> HIDE DEF after
  <1> DEFINE S == {i \in Nat : i \in Page => AfterPage(after[i], i)}
  <1>4. 0 \in S
    <2>1. after[0] = PagesBeforeLoop
      BY <1>0, <1>3
    <2> QED
      BY <2>1, AfterFirst
  <1>5. ASSUME NEW i \in Nat, i \in S PROVE i + 1 \in S
    <2> SUFFICES ASSUME i + 1 \in Page PROVE AfterPage(after[i + 1], i + 1)
      OBVIOUS
    <2>1. i \in Page /\ i + 1 # 0 /\ (i + 1) - 1 = i
      BY NPagesAssumption DEF Page
    <2>2. AfterPage(after[i], i)
      BY <1>5, <2>1
    <2>3. after[i + 1] = page_init_step(after[i], i + 1)
      BY <1>3, <2>1
    <2> QED
      BY <2>2, <2>3, AfterStep
  <1> HIDE DEF S
  <1>6. Nat \subseteq S
    BY <1>4, <1>5, SetInduction
  <1>7. AfterPage(after[NPages - 1], NPages - 1)
    BY <1>0, <1>6 DEF S
  <1> QED
    BY <1>7 DEF page_init, after

(* The links page_init() leaves spell out the free list. *)
LEMMA PageInitList ==
    ASSUME NEW m, AfterPage(m, NPages - 1)
    PROVE  /\ SomeFreeList(m, InitiallyLinked(NPages - 1))
           /\ UnlinkedOutside(m, InitiallyLinked(NPages - 1))
           /\ InitiallyLinked(NPages - 1) = Page \ ReservedPages
           /\ m.pp_ref = [p \in Page |-> IF p \in ReservedPages THEN 1 ELSE 0]
           /\ m.page_free_list = NPages - 1 /\ NPages - 1 \in Page \ ReservedPages
  <1> DEFINE e    == NPages - 1
             at(i) == [page_free_list |-> LastLinked(i), pp_link |-> m.pp_link]
  <1>1. /\ e \in Nat /\ e \in Page /\ 0 \in Page /\ FirstFree <= e /\ 0 < FirstFree
        /\ \A p \in Page : p <= e
    BY NPagesAssumption, KernAssumption, LayoutAssumption DEF Page
  <1>2. m.pp_link = [p \in Page |-> IF p \in InitiallyLinked(e) THEN LastLinked(p - 1) ELSE NULL]
    BY DEF AfterPage
  <1>3. InitiallyLinked(e) = Page \ ReservedPages
    BY <1>1, InitiallyFreeOrReserved DEF InitiallyLinked, Page
  <1>4. \A i \in Nat : at(i).page_free_list = LastLinked(i) /\ at(i).pp_link = m.pp_link
    OBVIOUS
  <1> DEFINE S == {i \in Nat : i \in Page => SomeFreeList(at(i), InitiallyLinked(i))}
  <1> HIDE DEF at
  <1>5. 0 \in S
    <2>1. InitiallyLinked(0) = {}
      BY DEF InitiallyLinked, Page
    <2>2. at(0).page_free_list = NULL
      BY <1>4, LastLinkedFacts
    <2> DEFINE s == [j \in 1 .. 0 |-> 0]
    <2>3. s \in [1 .. 0 -> {}]
      OBVIOUS
    <2>4. IsFreeList(at(0), {}, 0, s)
      BY <2>2, <2>3 DEF IsFreeList
    <2> HIDE DEF s
    <2>5. SomeFreeList(at(0), {})
      BY <2>3, <2>4 DEF SomeFreeList
    <2> QED
      BY <2>1, <2>5
  <1>6. ASSUME NEW i \in Nat, i \in S PROVE i + 1 \in S
    <2> SUFFICES ASSUME i + 1 \in Page PROVE SomeFreeList(at(i + 1), InitiallyLinked(i + 1))
      OBVIOUS
    <2> DEFINE n == i + 1
    <2>1. i \in Page /\ n # 0 /\ n - 1 = i /\ n \in Page /\ n \in Nat /\ ~(n <= i)
      BY NPagesAssumption DEF Page
    <2>2. SomeFreeList(at(i), InitiallyLinked(i)) /\ InitiallyLinked(i) \in SUBSET Page
      BY <1>6, <2>1 DEF InitiallyLinked
    <2>3. at(n).page_free_list = IF InitiallyFree(n) THEN n ELSE LastLinked(i)
      BY <1>4, <2>1, LastLinkedFacts
    <2>4. at(n).pp_link = at(i).pp_link
      BY <1>4, <2>1
    <2>5. \A p \in Page : p <= n <=> p <= i \/ p = n
      BY <2>1 DEF Page
    <2> HIDE DEF n
    <2>6. CASE InitiallyFree(n)
      <3>1. InitiallyLinked(n) = InitiallyLinked(i) \cup {n}
        BY <2>1, <2>5, <2>6 DEF InitiallyLinked, Page
      <3>2. n \in Page \ InitiallyLinked(i)
        BY <2>1 DEF InitiallyLinked
      <3>3. at(n).pp_link[n] = at(i).page_free_list
        <4>1. n \in InitiallyLinked(e)
          BY <1>1, <2>1, <2>6 DEF InitiallyLinked, Page
        <4> QED
          BY <1>2, <1>4, <2>1, <4>1
      <3>4. SomeFreeList(at(n), InitiallyLinked(i) \cup {n})
        BY <2>2, <2>3, <2>4, <2>6, <3>2, <3>3, ListPush
      <3> QED
        BY <3>1, <3>4 DEF n
    <2>7. CASE ~InitiallyFree(n)
      <3>1. InitiallyLinked(n) = InitiallyLinked(i)
        BY <2>1, <2>5, <2>7 DEF InitiallyLinked
      <3>2. SomeFreeList(at(n), InitiallyLinked(i))
        BY <1>4, <2>2, <2>3, <2>4, <2>7, ListFrame
      <3> QED
        BY <3>1, <3>2 DEF n
    <2> QED
      BY <2>6, <2>7
  <1> HIDE DEF S
  <1>7. Nat \subseteq S
    BY <1>5, <1>6, SetInduction
  <1>8. SomeFreeList(at(e), InitiallyLinked(e))
    BY <1>1, <1>7 DEF S
  <1>9. SomeFreeList(m, InitiallyLinked(e))
    <2>1. InitiallyLinked(e) \in SUBSET Page
      BY DEF InitiallyLinked
    <2>2. m.page_free_list = at(e).page_free_list /\ m.pp_link = at(e).pp_link
      BY <1>1, <1>4 DEF AfterPage
    <2> QED
      BY <1>8, <2>1, <2>2, ListFrame
  <1>10. UnlinkedOutside(m, InitiallyLinked(e))
    BY <1>2 DEF UnlinkedOutside
  <1>11. m.pp_ref = [p \in Page |-> IF p \in ReservedPages THEN 1 ELSE 0]
    BY <1>1, InitiallyFreeOrReserved DEF AfterPage
  <1>12. m.page_free_list = e /\ e \notin ReservedPages
    BY <1>1, InitiallyFreeOrReserved, LayoutAssumption DEF AfterPage, LastLinked, ReservedPages
  <1> QED
    BY <1>1, <1>3, <1>9, <1>10, <1>11, <1>12

(* One entry has changed and nothing else. *)
Stored(m, a, t, i, e) ==
    /\ MemType(a) /\ a.pt[t][i] = e
    /\ \A x \in Page, y \in Slot : x # t \/ y # i => a.pt[x][y] = m.pt[x][y]
    /\ a.pp_ref = m.pp_ref /\ a.pp_link = m.pp_link
    /\ a.page_free_list = m.page_free_list /\ a.panicked = m.panicked
    /\ a.cr3 = m.cr3 /\ a.tlb = m.tlb

(* A store through a pte_t pointer does that. *)
LEMMA StoreStored ==
    ASSUME NEW m, MemType(m), NEW t \in Page, NEW i \in Slot, NEW e \in Entry,
           NEW a, a = Store(m, PtePtr(t, i), e)
    PROVE  Stored(m, a, t, i, e)
  BY StoreFacts DEF Stored

(* What mem_init() leaves: the kernel's directory is the only one, nobody  *)
(* holds a page, nothing is mapped at user addresses, and what is mapped   *)
(* above, other than the directory itself, is not for the user.            *)
LEMMA MemInit ==
    /\ MemInv(mem_init, {kern_pgdir}, {}, {})
    /\ mem_init.cr3 = kern_pgdir /\ mem_init.tlb = {} /\ mem_init.panicked = FALSE
    /\ \A s \in UserSlot : mem_init.pt[kern_pgdir][s] = NULL
    /\ mem_init.pt[kern_pgdir][UVPTSlot] = [ppn |-> kern_pgdir, perm |-> {"U"}]
    /\ \A s \in (Slot \ UserSlot) \ {UVPTSlot}, i \in Slot :
           LET e == Translate(mem_init, kern_pgdir, <<s, i>>)
           IN  e # NULL => "U" \notin e.perm
  <1> DEFINE K  == kern_pgdir
             q  == NPages - 1
             E1 == [ppn |-> kern_pgdir, perm |-> {"U"}]
             E2 == [ppn |-> q, perm |-> {"W", "U"}]
             E3 == [ppn |-> 0, perm |-> {"W"}]
             pi == page_init
             m0 == [pp_ref |-> pi.pp_ref, pp_link |-> pi.pp_link,
                    page_free_list |-> pi.page_free_list, panicked |-> pi.panicked,
                    pt |-> [p \in Page |-> ZeroPage], cr3 |-> kern_pgdir, tlb |-> {}]
             m1 == Store(m0, PtePtr(K, UVPTSlot), E1)
             l  == page_alloc(m1)
             z  == page_alloc_zero(m1)
             b  == page_incref(z, q)
             c  == Store(b, PtePtr(K, KernSlot), E2)
             f  == Store(c, PtePtr(q, 0), E3)
             F  == Page \ ReservedPages
  <1>1. /\ K \in Page /\ K \in ReservedPages /\ 0 \in Page
        /\ q \in F /\ q \in Page /\ q # K /\ F \in SUBSET Page
    <2>1. q \in F
      BY PageInitRuns, PageInitList
    <2> QED
      BY <2>1, KernPgdir, NPagesAssumption DEF Page
  <1>2. /\ UVPTSlot \in Slot /\ KernSlot \in Slot /\ UVPTSlot # KernSlot /\ 0 \in Slot
        /\ UVPTSlot \notin UserSlot /\ KernSlot \notin UserSlot /\ UserSlot \subseteq Slot
        /\ KernSlot \in (UTopSlot .. NSlots - 1) \ {UVPTSlot}
        /\ (UTopSlot .. NSlots - 1) \subseteq Slot
    BY SlotAssumption DEF Slot, UserSlot
  <1>3. /\ E1 \in Entry /\ E1 # NULL /\ E1.ppn = K
        /\ E2 \in Entry /\ E2 # NULL /\ E2.ppn = q
        /\ E3 \in Entry /\ E3 # NULL /\ E3.ppn = 0
    BY <1>1, EntryOf DEF Perm
  <1> HIDE DEF E1, E2, E3, K
  <1>4. ZeroPage \in [Slot -> Entry] /\ \A i \in Slot : ZeroPage[i] = NULL
    BY DEF ZeroPage, Entry
  <1>5. /\ SomeFreeList(pi, F) /\ UnlinkedOutside(pi, F)
        /\ pi.pp_ref = [p \in Page |-> IF p \in ReservedPages THEN 1 ELSE 0]
        /\ pi.page_free_list = q /\ pi.panicked = FALSE
        /\ pi.pp_link \in [Page -> PageOrNull]
    <2>1. /\ pi.pp_link = [p \in Page |-> IF p \in InitiallyLinked(q) THEN LastLinked(p - 1) ELSE NULL]
          /\ pi.panicked = FALSE
      BY PageInitRuns DEF AfterPage
    <2>2. \A p \in InitiallyLinked(q) : p - 1 \in Nat /\ p - 1 \in Page
      BY NPagesAssumption DEF InitiallyLinked, Page
    <2>3. \A p \in InitiallyLinked(q) : LastLinked(p - 1) \in PageOrNull
      BY <2>2, LastLinkedFacts
    <2>4. NULL \in PageOrNull
      BY DEF PageOrNull
    <2>5. pi.pp_link \in [Page -> PageOrNull]
      BY <2>1, <2>3, <2>4
    <2> QED
      BY <2>1, <2>5, PageInitRuns, PageInitList
  <1> HIDE DEF pi, F, q
  <1>6. /\ MemType(m0) /\ m0.panicked = FALSE
        /\ m0.pp_ref = pi.pp_ref /\ m0.pp_link = pi.pp_link
        /\ m0.page_free_list = q /\ m0.pt = [p \in Page |-> ZeroPage]
        /\ m0.cr3 = K /\ m0.tlb = {}
    <2>1. pi.pp_ref \in [Page -> 0 .. RefMax]
      BY <1>5, RefMaxAssumption
    <2>2. [p \in Page |-> ZeroPage] \in [Page -> [Slot -> Entry]]
      BY <1>4
    <2>3. q \in PageOrNull
      BY <1>1 DEF PageOrNull
    <2> DEFINE r == pi.pp_ref
               k == pi.pp_link
               h == pi.page_free_list
               x == pi.panicked
               t == [p \in Page |-> ZeroPage]
    <2>4. m0 = [pp_ref |-> r, pp_link |-> k, page_free_list |-> h, panicked |-> x,
                pt |-> t, cr3 |-> K, tlb |-> {}]
      BY DEF K
    <2> HIDE DEF r, k, h, x, t, m0
    <2>5. /\ m0.pp_ref = r /\ m0.pp_link = k /\ m0.page_free_list = h /\ m0.panicked = x
          /\ m0.pt = t /\ m0.cr3 = K /\ m0.tlb = {}
          /\ {"pp_ref", "pp_link", "page_free_list", "panicked", "pt", "cr3", "tlb"} \subseteq DOMAIN m0
      BY <2>4
    <2>6. MemType(m0)
      BY <1>1, <1>5, <2>1, <2>2, <2>3, <2>5 DEF MemType, r, k, h, t
    <2> QED
      BY <1>5, <2>5, <2>6 DEF r, k, h, x, t
  <1> HIDE DEF m0
  <1>7. /\ MemType(m1) /\ m1.pt[K][UVPTSlot] = E1
        /\ \A x \in Page, y \in Slot : x # K \/ y # UVPTSlot => m1.pt[x][y] = NULL
        /\ m1.pp_ref = m0.pp_ref /\ m1.pp_link = m0.pp_link
        /\ m1.page_free_list = m0.page_free_list /\ m1.panicked = m0.panicked
        /\ m1.cr3 = m0.cr3 /\ m1.tlb = m0.tlb
    <2>1. Stored(m0, m1, K, UVPTSlot, E1)
      BY <1>1, <1>2, <1>3, <1>6, StoreStored
    <2>2. \A x \in Page, y \in Slot : m0.pt[x][y] = NULL
      BY <1>4, <1>6
    <2> QED
      BY <2>1, <2>2 DEF Stored
  <1> HIDE DEF m1
  <1>8. q # NULL
    BY <1>1, NullAssumption DEF Page
  <1>9. /\ MemType(l)
        /\ l.pt = m1.pt /\ l.pp_ref = m1.pp_ref /\ l.panicked = m1.panicked
        /\ l.cr3 = m1.cr3 /\ l.tlb = m1.tlb
        /\ l.page_free_list = m1.pp_link[q] /\ l.pp_link = [m1.pp_link EXCEPT ![q] = NULL]
    <2>1. l = [m1 EXCEPT !.pp_link[q] = NULL, !.page_free_list = m1.pp_link[q]]
      BY <1>6, <1>7, <1>8 DEF page_alloc
    <2> HIDE DEF l
    <2>2. /\ l.pt = m1.pt /\ l.pp_ref = m1.pp_ref /\ l.panicked = m1.panicked
          /\ l.cr3 = m1.cr3 /\ l.tlb = m1.tlb /\ DOMAIN l = DOMAIN m1
          /\ l.page_free_list = m1.pp_link[q] /\ l.pp_link = [m1.pp_link EXCEPT ![q] = NULL]
      BY <1>7, <2>1 DEF MemType
    <2>3. l.page_free_list \in PageOrNull /\ l.pp_link \in [Page -> PageOrNull]
      BY <1>1, <1>7, <2>2 DEF MemType, PageOrNull
    <2> QED
      BY <1>7, <2>2, <2>3 DEF MemType
  <1>10. z = WritePage(l, q, ZeroPage)
    BY <1>6, <1>7, <1>8 DEF page_alloc_zero, WritePage
  <1> HIDE DEF l, z
  <1>11. /\ MemType(z) /\ z.pt = [m1.pt EXCEPT ![q] = ZeroPage]
         /\ z.pp_ref = l.pp_ref /\ z.panicked = l.panicked
         /\ z.cr3 = l.cr3 /\ z.tlb = l.tlb
         /\ z.page_free_list = l.page_free_list /\ z.pp_link = l.pp_link
    <2>1. /\ z.pt = [l.pt EXCEPT ![q] = ZeroPage]
          /\ z.pp_ref = l.pp_ref /\ z.panicked = l.panicked /\ DOMAIN z = DOMAIN l
          /\ z.cr3 = l.cr3 /\ z.tlb = l.tlb
          /\ z.page_free_list = l.page_free_list /\ z.pp_link = l.pp_link
      BY <1>9, <1>10 DEF WritePage, MemType
    <2>2. z.pt \in [Page -> [Slot -> Entry]]
      BY <1>1, <1>4, <1>9, <2>1 DEF MemType
    <2> QED
      BY <1>9, <2>1, <2>2 DEF MemType
  <1>12. /\ MemType(b) /\ b.pt = z.pt
         /\ b.pp_ref = [z.pp_ref EXCEPT ![q] = 1] /\ b.panicked = z.panicked
         /\ b.cr3 = z.cr3 /\ b.tlb = z.tlb
         /\ b.page_free_list = z.page_free_list /\ b.pp_link = z.pp_link
    <2>1. q \notin ReservedPages
      BY <1>1 DEF F
    <2>2. z.pp_ref[q] = 0
      BY <1>1, <1>5, <1>6, <1>7, <1>9, <1>11, <2>1
    <2>3. Incremented(z.pp_ref[q]) = 1
      BY <2>2, RefMaxAssumption DEF Incremented
    <2>4. b = [z EXCEPT !.pp_ref[q] = 1]
      BY <2>3 DEF page_incref
    <2> HIDE DEF b
    <2>5. /\ b.pt = z.pt /\ DOMAIN b = DOMAIN z
          /\ b.pp_ref = [z.pp_ref EXCEPT ![q] = 1] /\ b.panicked = z.panicked
          /\ b.cr3 = z.cr3 /\ b.tlb = z.tlb
          /\ b.page_free_list = z.page_free_list /\ b.pp_link = z.pp_link
      BY <1>11, <2>4 DEF MemType
    <2>6. b.pp_ref \in [Page -> 0 .. RefMax]
      BY <1>11, <2>5, RefMaxAssumption DEF MemType
    <2> QED
      BY <1>11, <2>5, <2>6 DEF MemType
  <1> HIDE DEF b
  <1>13. Stored(b, c, K, KernSlot, E2)
    BY <1>1, <1>2, <1>3, <1>12, StoreStored
  <1>14. Stored(c, f, q, 0, E3)
    BY <1>1, <1>2, <1>3, <1>13, StoreStored DEF Stored
  <1> HIDE DEF c
  <1>15. mem_init = f
    <2> DEFINE va == <<KernSlot, 0>>
               w  == pgdir_walk(m1, K, va, TRUE)
    <2>1. va[1] = KernSlot /\ va[2] = 0
      OBVIOUS
    <2> HIDE DEF va
    <2>2. m1.pt[K][va[1]] = NULL /\ m1.page_free_list = q
      BY <1>1, <1>2, <1>6, <1>7, <2>1
    <2>3. w = [m |-> c, pte |-> PtePtr(q, 0)]
      BY <1>8, <2>1, <2>2 DEF pgdir_walk, page_alloc_ret, c, b, z, E2
    <2> HIDE DEF w
    <2>4. w.m = c /\ w.pte = PtePtr(q, 0)
      BY <2>3
    <2>5. mem_init = boot_map_page(m1, K, va, 0, {"W"})
      BY DEF mem_init, m1, m0, pi, K, E1, va
    <2> QED
      BY <2>4, <2>5 DEF boot_map_page, w, E3
  <1> HIDE DEF f
  <1>16. /\ \A y \in Slot : /\ y # UVPTSlot /\ y # KernSlot => f.pt[K][y] = NULL
                            /\ y = UVPTSlot => f.pt[K][y] = E1
                            /\ y = KernSlot => f.pt[K][y] = E2
    BY <1>1, <1>2, <1>7, <1>11, <1>12, <1>13, <1>14 DEF MemType, Stored
  <1>a. \A y \in Slot : y # 0 => f.pt[q][y] = NULL
    BY <1>1, <1>4, <1>7, <1>11, <1>12, <1>13, <1>14 DEF MemType, Stored
  <1>b. f.pt[K][UVPTSlot] = E1
    BY <1>2, <1>16
  <1>c. ASSUME NEW s \in (Slot \ UserSlot) \ {UVPTSlot}, NEW i \in Slot,
               Translate(f, K, <<s, i>>) # NULL
        PROVE  Translate(f, K, <<s, i>>) = E3
    <2>1. Translate(f, K, <<s, i>>) = IF f.pt[K][s] = NULL THEN NULL
                                      ELSE f.pt[f.pt[K][s].ppn][i]
      BY DEF Translate
    <2>2. f.pt[K][s] # NULL /\ Translate(f, K, <<s, i>>) = f.pt[f.pt[K][s].ppn][i]
      BY <1>c, <2>1
    <2>3. s = KernSlot /\ f.pt[K][s] = E2
      BY <1>16, <2>2
    <2>4. Translate(f, K, <<s, i>>) = f.pt[q][i]
      BY <1>3, <2>2, <2>3
    <2> QED
      BY <1>14, <1>a, <1>c, <2>4 DEF Stored
  <1>d. E3.perm = {"W"}
    BY DEF E3
  <1>17. KernTables(f) = {q}
    BY <1>2, <1>3, <1>16 DEF KernTables, K
  <1>18. \A s \in UserSlot : f.pt[K][s] = NULL
    BY <1>2, <1>16
  <1>19. \A p : Refs(f, {K}, p) = {}
    <2>1. \A t : ~IsTable(f, {K}, t)
      BY <1>18 DEF IsTable, Names
    <2> QED
      BY <1>18, <2>1 DEF Refs, Names
  <1>20. Kept(f) = ReservedPages \cup {q}
    BY <1>17 DEF Kept
  <1>21. KernPart(f, {K})
    BY <1>3, <1>16, <1>20 DEF KernPart
  <1>22. Holders(f, {K}, {}, {})
    BY <1>1 DEF Holders, K
  <1>23. Apart(f, {K}, {})
    BY <1>19 DEF Apart
  <1>24. Counts(f, {K}, {})
    <2>1. f.pp_ref = [pi.pp_ref EXCEPT ![q] = 1]
      BY <1>6, <1>7, <1>9, <1>11, <1>12, <1>13, <1>14 DEF Stored
    <2>2. Cardinality({}) = 0
      BY FS_EmptySet
    <2> QED
      BY <1>1, <1>5, <1>19, <1>20, <2>1, <2>2 DEF Counts, Counted
  <1>25. ListOK(f, {K}, {})
    <2>1. Unused(f, {K}, {}) = F \ {q}
      BY <1>19, <1>20 DEF Unused, F
    <2>2. f.page_free_list = pi.pp_link[q] /\ f.pp_link = [pi.pp_link EXCEPT ![q] = NULL]
      BY <1>6, <1>7, <1>9, <1>11, <1>12, <1>13, <1>14 DEF Stored
    <2>3. SomeFreeList(f, F \ {q})
      BY <1>1, <1>5, <1>8, <2>2, ListPop
    <2>4. UnlinkedOutside(f, F \ {q})
      BY <1>1, <1>5, <2>2 DEF UnlinkedOutside
    <2> QED
      BY <2>1, <2>3, <2>4 DEF ListOK
  <1>26. f.panicked = FALSE /\ f.cr3 = K /\ f.tlb = {}
    BY <1>6, <1>7, <1>9, <1>11, <1>12, <1>13, <1>14 DEF Stored
  <1>27. MemInv(f, {K}, {}, {})
    BY <1>14, <1>21, <1>22, <1>23, <1>24, <1>25, <1>26 DEF MemInv, Stored
  <1>28. \A s \in (Slot \ UserSlot) \ {UVPTSlot}, i \in Slot :
             LET e == Translate(f, K, <<s, i>>)
             IN  e # NULL => "U" \notin e.perm
    BY <1>c, <1>d
  <1> QED
    BY <1>15, <1>18, <1>26, <1>27, <1>28, <1>b DEF K, E1

-----------------------------------------------------------------------------
(* Whatever else changes in the record, as long as counts, list and        *)
(* contents do not.                                                        *)
LEMMA MemFrame ==
    ASSUME NEW m1, NEW m2, NEW Ds, NEW H, NEW X, MemInv(m1, Ds, H, X),
           MemType(m2), m2.panicked = m1.panicked,
           m2.pp_ref = m1.pp_ref, m2.pp_link = m1.pp_link,
           m2.page_free_list = m1.page_free_list, m2.pt = m1.pt
    PROVE  MemInv(m2, Ds, H, X) /\ SameSpaces(m1, m2, Ds)
  <1>1. SameSpaces(m1, m2, Ds)
    BY RefsFrame
  <1>2. KernPart(m2, Ds) /\ Kept(m2) = Kept(m1) /\ \A p : Refs(m2, Ds, p) = Refs(m1, Ds, p)
    BY <1>1 DEF SameSpaces, MemInv
  <1> QED
    BY <1>1, <1>2, ContentsFrame

(* page_decref() of a page that somebody held, counted, and that nothing   *)
(* else refers to: the count was 1 and the page is free.                   *)
LEMMA DecrefHeld ==
    ASSUME NEW m, NEW Ds, NEW H, NEW X, MemInv(m, Ds, H, X),
           NEW q \in X, q \notin Ds, Refs(m, Ds, q) = {},
           NEW a, a = page_decref(m, q)
    PROVE  /\ MemInv(a, Ds, H \ {q}, X \ {q})
           /\ a.pt = m.pt /\ a.cr3 = m.cr3 /\ a.tlb = m.tlb
  <1> DEFINE d == [m EXCEPT !.pp_ref[q] = Decremented(m.pp_ref[q])]
  <1>1. q \in H /\ q \in Page /\ q \notin Kept(m)
    BY DEF MemInv, Holders
  <1>2. m.pp_ref[q] = 1
    <2>1. Cardinality(Refs(m, Ds, q)) = 0 /\ Counted(X, q) = 1
      BY FS_EmptySet DEF Counted
    <2> QED
      BY <1>1, <2>1 DEF MemInv, Counts
  <1>3. d = [m EXCEPT !.pp_ref[q] = 0]
    BY <1>2, RefMaxAssumption DEF Decremented
  <1>4. a = IF d.pp_ref[q] = 0 THEN page_free(d, q) ELSE d
    BY DEF page_decref
  <1> HIDE DEF d
  <1>5. /\ d.pp_ref = [m.pp_ref EXCEPT ![q] = 0]
        /\ d.page_free_list = m.page_free_list /\ d.pp_link = m.pp_link
        /\ d.panicked = m.panicked
        /\ d.pt = m.pt /\ d.cr3 = m.cr3 /\ d.tlb = m.tlb
        /\ DOMAIN d = DOMAIN m
    BY <1>3 DEF MemInv, MemType
  <1>6. d.pp_ref[q] = 0 /\ \A x \in Page \ {q} : d.pp_ref[x] = m.pp_ref[x]
    BY <1>1, <1>5 DEF MemInv, MemType
  <1>7. MemType(d)
    <2>1. 0 \in 0 .. RefMax
      BY RefMaxAssumption
    <2>2. d.pp_ref \in [Page -> 0 .. RefMax]
      BY <1>5, <2>1 DEF MemInv, MemType
    <2> QED
      BY <1>5, <2>2 DEF MemInv, MemType
  <1>8. /\ Kept(d) = Kept(m) /\ KernPart(d, Ds)
        /\ \A x : Refs(d, Ds, x) = Refs(m, Ds, x)
    <2>1. SameSpaces(m, d, Ds)
      BY <1>5, RefsFrame
    <2> QED
      BY <2>1 DEF SameSpaces, MemInv
  <1>9. ListOK(d, Ds, H)
    <2>1. Unused(d, Ds, H) = Unused(m, Ds, H) /\ Unused(m, Ds, H) \in SUBSET Page
      BY <1>8 DEF Unused
    <2>2. SomeFreeList(d, Unused(m, Ds, H))
      BY <1>5, <2>1, ListFrame DEF MemInv, ListOK
    <2> QED
      BY <1>5, <2>1, <2>2 DEF MemInv, ListOK, UnlinkedOutside
  <1>10. Holders(d, Ds, H, X \ {q}) /\ Apart(d, Ds, H)
    BY <1>8 DEF MemInv, Holders, Apart
  <1>11. Counts(d, Ds, X \ {q})
    <2> SUFFICES ASSUME NEW p \in Page
                 PROVE  d.pp_ref[p] = IF p \in Kept(d) THEN 1
                                      ELSE Cardinality(Refs(d, Ds, p)) + Counted(X \ {q}, p)
      BY DEF Counts
    <2>1. CASE p = q
      <3>1. Cardinality(Refs(d, Ds, q)) = 0 /\ Counted(X \ {q}, q) = 0
        BY <1>8, FS_EmptySet DEF Counted
      <3> QED
        BY <1>1, <1>6, <1>8, <2>1, <3>1
    <2>2. CASE p # q
      <3>1. Counted(X \ {q}, p) = Counted(X, p) /\ Refs(d, Ds, p) = Refs(m, Ds, p)
            /\ d.pp_ref[p] = m.pp_ref[p] /\ Kept(d) = Kept(m)
        BY <1>6, <1>8, <2>2 DEF Counted
      <3>2. m.pp_ref[p] = IF p \in Kept(m) THEN 1
                          ELSE Cardinality(Refs(m, Ds, p)) + Counted(X, p)
        BY DEF MemInv, Counts
      <3> QED
        BY <3>1, <3>2
    <2> QED
      BY <2>1, <2>2
  <1>12. MemInv(d, Ds, H, X \ {q})
    BY <1>5, <1>7, <1>8, <1>9, <1>10, <1>11 DEF MemInv
  <1>13. Refs(d, Ds, q) = {} /\ q \notin X \ {q}
    BY <1>8
  <1>14. a = page_free(d, q)
    BY <1>4, <1>6
  <1>15. /\ MemInv(a, Ds, H \ {q}, X \ {q})
         /\ a.pt = d.pt /\ a.cr3 = d.cr3 /\ a.tlb = d.tlb
    BY <1>1, <1>12, <1>13, <1>14, FreeInv
  <1> QED
    BY <1>5, <1>15

(* A directory without user entries makes no difference to what refers to  *)
(* a page.                                                                 *)
LEMMA DirRefs ==
    ASSUME NEW m, NEW D1, NEW D2, NEW p, \A s \in UserSlot : m.pt[p][s] = NULL,
           \A d : d \in D1 <=> d \in D2 \/ d = p
    PROVE  /\ \A t : IsTable(m, D1, t) <=> IsTable(m, D2, t)
           /\ \A x : Refs(m, D1, x) = Refs(m, D2, x)
  <1>1. \A t, s : s \in UserSlot => ~Names(m, p, s, t)
    BY DEF Names
  <1>2. \A t : IsTable(m, D1, t) <=> IsTable(m, D2, t)
    BY <1>1 DEF IsTable
  <1>3. ASSUME NEW x, NEW r \in Page \X Slot
        PROVE  r \in Refs(m, D1, x) <=> r \in Refs(m, D2, x)
    <2>1. CASE r[1] = p /\ r[2] \in UserSlot
      <3>1. ~Names(m, r[1], r[2], x)
        BY <1>1, <2>1
      <3> QED
        BY <3>1 DEF Refs
    <2>2. CASE ~(r[1] = p /\ r[2] \in UserSlot)
      BY <1>2, <2>2 DEF Refs
    <2> QED
      BY <2>1, <2>2
  <1>4. ASSUME NEW x PROVE Refs(m, D1, x) = Refs(m, D2, x)
    <2>1. Refs(m, D1, x) \subseteq Page \X Slot /\ Refs(m, D2, x) \subseteq Page \X Slot
      BY DEF Refs
    <2> QED
      BY <1>3, <2>1
  <1> QED
    BY <1>2, <1>4

(* A page without user entries whose kernel entries are those of a         *)
(* directory.                                                              *)
BareDir(m, p) ==
    /\ \A s \in UserSlot : m.pt[p][s] = NULL
    /\ \A s \in Slot \ UserSlot : m.pt[p][s] # NULL => m.pt[p][s].ppn \in Kept(m) \cup {p}

(* Taking it for one changes no reference. *)
DirAdded(m, Ds, E, H, X) ==
    /\ MemInv(m, E, H, X)
    /\ \A x : Refs(m, E, x) = Refs(m, Ds, x)

(* A page that somebody holds, filled in, becomes a directory of its own   *)
(* as soon as that is what it is taken for.                                *)
LEMMA AddDir ==
    ASSUME NEW m, NEW Ds, NEW H, NEW X, MemInv(m, Ds, H, X),
           NEW p \in H, p \notin Ds, Refs(m, Ds, p) = {}, BareDir(m, p),
           NEW E, E = Ds \cup {p}
    PROVE  DirAdded(m, Ds, E, H, X)
  <1> DEFINE D2 == Ds \cup {p}
  <1>0. \A d : d \in D2 <=> d \in Ds \/ d = p
    OBVIOUS
  <1> HIDE DEF D2
  <1>1. /\ \A x : Refs(m, D2, x) = Refs(m, Ds, x)
        /\ \A t : IsTable(m, D2, t) <=> IsTable(m, Ds, t)
    <2>1. \A s \in UserSlot : m.pt[p][s] = NULL
      BY DEF BareDir
    <2> QED
      BY <1>0, <2>1, DirRefs
  <1>2. ~IsTable(m, Ds, p) /\ ~IsTable(m, D2, p)
    <2>1. Ds \subseteq Page
      BY DirPages DEF MemInv
    <2> QED
      BY <1>1, <2>1, NoTable
  <1>3. \A x : \A r \in Refs(m, D2, x) : r[1] # p
    BY <1>1, <1>2 DEF Refs, D2
  <1>4. Unused(m, D2, H) = Unused(m, Ds, H)
    BY <1>1 DEF Unused
  <1>5. ListOK(m, D2, H) /\ Counts(m, D2, X)
    BY <1>1, <1>4 DEF MemInv, ListOK, Counts
  <1>6. Holders(m, D2, H, X) /\ KernPart(m, D2)
    BY DEF MemInv, Holders, KernPart, D2, BareDir
  <1>7. Apart(m, D2, H)
    <2> SUFFICES ASSUME NEW x \in Page, NEW r \in Refs(m, D2, x)
                 PROVE  /\ x \notin D2 /\ x \notin Kept(m)
                        /\ r[1] \in D2 => x \notin H /\ Refs(m, D2, x) = {r}
      BY DEF Apart
    <2>1. r \in Refs(m, Ds, x) /\ x # p /\ r[1] # p
      BY <1>1, <1>3
    <2> QED
      BY <1>1, <2>1 DEF MemInv, Apart, D2
  <1>8. MemInv(m, D2, H, X)
    BY <1>5, <1>6, <1>7 DEF MemInv
  <1> QED
    BY <1>1, <1>8 DEF D2, DirAdded

(* And a directory without user entries may be taken for a page again.     *)
LEMMA DropDir ==
    ASSUME NEW m, NEW Ds, NEW H, NEW X, MemInv(m, Ds, H, X),
           NEW d \in Ds, d # kern_pgdir, \A s \in UserSlot : m.pt[d][s] = NULL
    PROVE  /\ MemInv(m, Ds \ {d}, H, X)
           /\ \A x : Refs(m, Ds \ {d}, x) = Refs(m, Ds, x)
  <1> DEFINE D2 == Ds \ {d}
  <1>0. \A c : c \in Ds <=> c \in D2 \/ c = d
    OBVIOUS
  <1> HIDE DEF D2
  <1>a. \A x : Refs(m, Ds, x) = Refs(m, D2, x)
    BY <1>0, DirRefs
  <1>1. \A x : Refs(m, D2, x) = Refs(m, Ds, x)
    BY <1>a
  <1>2. Unused(m, D2, H) = Unused(m, Ds, H)
    BY <1>1 DEF Unused
  <1>3. ListOK(m, D2, H) /\ Counts(m, D2, X)
    BY <1>1, <1>2 DEF MemInv, ListOK, Counts
  <1>4. Holders(m, D2, H, X) /\ KernPart(m, D2)
    BY DEF MemInv, Holders, KernPart, D2
  <1>5. Apart(m, D2, H)
    BY <1>1 DEF MemInv, Apart, D2
  <1>6. MemInv(m, D2, H, X)
    BY <1>3, <1>4, <1>5 DEF MemInv
  <1> QED
    BY <1>1, <1>6 DEF D2

(* Page table q of slot s of directory d, which mapped nothing, has been   *)
(* taken out: somebody holds it now, counted.                              *)
TableDropped(m, m2, Ds, H, X, q, d, s) ==
    /\ MemInv(m2, Ds, H \cup {q}, X \cup {q})
    /\ q \in Page /\ q \notin H /\ q \notin Ds /\ q \notin Kept(m)
    /\ Refs(m2, Ds, q) = {} /\ \A p \in Page : p # q => Refs(m2, Ds, p) = Refs(m, Ds, p)
    /\ m2.pt[d][s] = NULL /\ SteadyBut(m, m2, Ds, d, s)
    /\ \A c \in Ds, va \in VA : c # d => Translate(m2, c, va) = Translate(m, c, va)
    /\ m2.cr3 = m.cr3 /\ m2.tlb = m.tlb

(* What env_free() does to a directory entry once the table is empty. *)
LEMMA DropTable ==
    ASSUME NEW m, NEW Ds, NEW H, NEW X, MemInv(m, Ds, H, X),
           NEW d \in Ds, d \notin Kept(m), NEW s \in UserSlot, m.pt[d][s] # NULL,
           NEW q, q = m.pt[d][s].ppn, \A y \in Slot : m.pt[q][y] = NULL,
           NEW m2, m2 = Store(m, PtePtr(d, s), NULL)
    PROVE  TableDropped(m, m2, Ds, H, X, q, d, s)
  <1>0. /\ Ds \subseteq Page /\ UserSlot \subseteq Slot /\ kern_pgdir \in Ds
        /\ NULL \in Entry /\ d # kern_pgdir /\ MemType(m)
    <2>1. Ds \subseteq Page /\ kern_pgdir \in Ds /\ MemType(m)
      BY DirPages DEF MemInv, Holders
    <2>2. d # kern_pgdir
      BY KernPgdir DEF Kept
    <2> QED
      BY <2>1, <2>2, SlotAssumption DEF UserSlot, Slot, Entry
  <1>1. /\ q \in Page /\ q \notin Ds /\ q \notin Kept(m) /\ q \notin H
        /\ Refs(m, Ds, q) = {<<d, s>>}
    BY TableFacts
  <1>2. /\ MemType(m2) /\ m2.pt[d][s] = NULL
        /\ \A x \in Page, y \in Slot : x # d \/ y # s => m2.pt[x][y] = m.pt[x][y]
        /\ \A x \in Page : x # d => m2.pt[x] = m.pt[x]
        /\ m2.pp_ref = m.pp_ref /\ m2.pp_link = m.pp_link
        /\ m2.page_free_list = m.page_free_list /\ m2.panicked = m.panicked
        /\ m2.cr3 = m.cr3 /\ m2.tlb = m.tlb
    BY <1>0, StoreFacts, SMTT(20)
  <1>3. Refs(m2, Ds, q) = {}
    <2> SUFFICES ASSUME NEW r \in Refs(m2, Ds, q) PROVE FALSE
      OBVIOUS
    <2>1. PICK x \in Page, y \in Slot : r = <<x, y>>
      BY DEF Refs
    <2>2. Names(m2, x, y, q) /\ ((x \in Ds /\ y \in UserSlot) \/ IsTable(m2, Ds, x))
      BY <2>1 DEF Refs
    <2>3. x # d \/ y # s
      BY <1>2, <2>2 DEF Names
    <2>4. Names(m, x, y, q)
      BY <1>2, <2>2, <2>3 DEF Names
    <2>5. IsTable(m2, Ds, x) => IsTable(m, Ds, x)
      <3>1. \A c \in Ds, i \in UserSlot : Names(m2, c, i, x) => Names(m, c, i, x)
        BY <1>0, <1>2 DEF Names
      <3> QED
        BY <3>1 DEF IsTable
    <2>6. <<x, y>> \in Refs(m, Ds, q)
      BY <2>2, <2>4, <2>5 DEF Refs
    <2> QED
      BY <1>1, <2>3, <2>6
  <1>4. /\ \A t \in Page : IsTable(m, Ds, t) <=> IsTable(m2, Ds, t) \/ t = q
        /\ \A p \in Page : p # q => Refs(m, Ds, p) = Refs(m2, Ds, p)
    <2>1. \A y \in Slot : m2.pt[q][y] = NULL
      BY <1>1, <1>2
    <2>2. \A x \in Page, y \in Slot : x # d \/ y # s => m.pt[x][y] = m2.pt[x][y]
      BY <1>2
    <2> QED
      BY <1>0, <1>1, <1>2, <1>3, <2>1, <2>2, TableRefs
  <1>5. KernTables(m2) = KernTables(m) /\ Kept(m2) = Kept(m)
    <2>1. \A x \in Slot \ UserSlot : m2.pt[kern_pgdir][x] = m.pt[kern_pgdir][x]
      BY <1>0, <1>2
    <2> QED
      BY <2>1, KernTablesFrame
  <1>6. Unused(m2, Ds, H \cup {q}) = Unused(m, Ds, H)
    BY <1>1, <1>3, <1>4, <1>5 DEF Unused
  <1>7. ListOK(m2, Ds, H \cup {q})
    <2>1. Unused(m, Ds, H) \in SUBSET Page /\ ListOK(m, Ds, H)
      BY DEF Unused, MemInv
    <2>2. SomeFreeList(m2, Unused(m, Ds, H))
      BY <1>2, <2>1, ListFrame DEF ListOK
    <2> QED
      BY <1>2, <1>6, <2>1, <2>2 DEF ListOK, UnlinkedOutside
  <1>8. Holders(m2, Ds, H \cup {q}, X \cup {q})
    BY <1>1, <1>5 DEF MemInv, Holders
  <1>9. KernPart(m2, Ds)
    BY <1>0, <1>2, <1>5 DEF MemInv, KernPart
  <1>10. Apart(m2, Ds, H \cup {q})
    <2> SUFFICES ASSUME NEW p \in Page, NEW r \in Refs(m2, Ds, p)
                 PROVE  /\ p \notin Ds /\ p \notin Kept(m2)
                        /\ r[1] \in Ds => p \notin H \cup {q} /\ Refs(m2, Ds, p) = {r}
      BY DEF Apart
    <2>1. p # q
      BY <1>3
    <2> QED
      BY <1>4, <1>5, <2>1 DEF MemInv, Apart
  <1>11. Counts(m2, Ds, X \cup {q})
    <2> SUFFICES ASSUME NEW p \in Page
                 PROVE  m2.pp_ref[p] = IF p \in Kept(m2) THEN 1
                                       ELSE Cardinality(Refs(m2, Ds, p)) + Counted(X \cup {q}, p)
      BY DEF Counts
    <2>1. m.pp_ref[p] = IF p \in Kept(m) THEN 1
                        ELSE Cardinality(Refs(m, Ds, p)) + Counted(X, p)
      BY DEF MemInv, Counts
    <2>2. CASE p = q
      <3>1. Refs(m2, Ds, p) = {} /\ Refs(m, Ds, p) = {<<d, s>>}
        BY <1>1, <1>3, <2>2
      <3>2. Cardinality(Refs(m2, Ds, p)) = 0 /\ Cardinality(Refs(m, Ds, p)) = 1
        BY <3>1, FS_EmptySet, FS_Singleton
      <3>3. Counted(X, p) = 0 /\ Counted(X \cup {q}, p) = 1
        BY <1>1, <2>2 DEF Counted, MemInv, Holders
      <3>4. p \notin Kept(m) /\ p \notin Kept(m2) /\ m2.pp_ref[p] = m.pp_ref[p]
        BY <1>1, <1>2, <1>5, <2>2
      <3> QED
        BY <2>1, <3>2, <3>3, <3>4
    <2>3. CASE p # q
      <3>1. Counted(X \cup {q}, p) = Counted(X, p)
        BY <2>3 DEF Counted
      <3> QED
        BY <1>2, <1>4, <1>5, <2>1, <2>3, <3>1
    <2> QED
      BY <2>2, <2>3
  <1>12. MemInv(m2, Ds, H \cup {q}, X \cup {q})
    BY <1>2, <1>7, <1>8, <1>9, <1>10, <1>11 DEF MemInv
  <1>13. SteadyBut(m, m2, Ds, d, s)
    <2>1. Ds \cup Kept(m) \subseteq Page
      BY <1>0, KeptPages
    <2> QED
      BY <1>2, <2>1 DEF SteadyBut
  <1>14. ASSUME NEW c \in Ds, NEW va \in VA, c # d
         PROVE  Translate(m2, c, va) = Translate(m, c, va)
    <2>0. va[1] \in Slot /\ va[2] \in Slot
      BY DEF VA
    <2>1. m2.pt[c] = m.pt[c]
      BY <1>0, <1>2, <1>14
    <2>2. CASE m.pt[c][va[1]] = NULL
      BY <2>1, <2>2 DEF Translate
    <2>3. CASE m.pt[c][va[1]] # NULL
      <3> DEFINE t == m.pt[c][va[1]].ppn
      <3>1. /\ t \in Page
            /\ va[1] \in Slot \ UserSlot => t \in Kept(m) \/ t = c
            /\ va[1] \in UserSlot => t \notin Ds
        BY <2>0, <2>3, WalkPage
      <3>2. t # d
        BY <1>14, <2>0, <3>1
      <3>3. Translate(m, c, va) = m.pt[t][va[2]] /\ Translate(m2, c, va) = m2.pt[t][va[2]]
        BY <2>1, <2>3 DEF Translate
      <3> HIDE DEF t
      <3> QED
        BY <1>2, <3>1, <3>2, <3>3
    <2> QED
      BY <2>2, <2>3
  <1>15. \A p \in Page : p # q => Refs(m2, Ds, p) = Refs(m, Ds, p)
    BY <1>4
  <1> QED
    BY <1>1, <1>2, <1>3, <1>12, <1>13, <1>14, <1>15 DEF TableDropped

-----------------------------------------------------------------------------

EnvRecord == [env_id : 0 .. IdMax, env_parent_id : 0 .. IdMax, env_status : Status,
              env_pgdir : PageOrNull, env_link : EnvIdx \cup {NULL}]

(* The kernel's states. *)
Kernels ==
    [pp_ref : [Page -> 0 .. RefMax],
     pp_link : [Page -> PageOrNull],
     page_free_list : PageOrNull,
     panicked : BOOLEAN,
     pt : [Page -> [Slot -> Entry]],
     cr3 : Page,
     tlb : SUBSET [va : VA, ppn : Page, perm : Perm],
     envs : [EnvIdx -> EnvRecord],
     env_free_list : EnvIdx \cup {NULL},
     curenv : EnvIdx \cup {NULL},
     faulted : BOOLEAN]

(* Nothing about the environments differs. *)
SameEnvs(k1, k2) ==
    /\ k2.envs = k1.envs /\ k2.env_free_list = k1.env_free_list /\ k2.curenv = k1.curenv

(* A function of pmap.c has gone from state k1 to k2. *)
MemStep(k1, k2) == k2 \in Kernels /\ SameEnvs(k1, k2) /\ k2.faulted = k1.faulted

-----------------------------------------------------------------------------
(* The functions of pmap.c leave the environments alone. *)
LEMMA StoreStep ==
    ASSUME NEW ks \in Kernels, NEW t \in Page, NEW i \in Slot, NEW e \in Entry
    PROVE  MemStep(ks, Store(ks, PtePtr(t, i), e))
  BY DEF MemStep, SameEnvs, Kernels, Store, PtePtr

(* The counters keep their width. *)
LEMMA RefCounter ==
    ASSUME NEW n \in 0 .. RefMax
    PROVE  Incremented(n) \in 0 .. RefMax /\ Decremented(n) \in 0 .. RefMax
  BY RefMaxAssumption DEF Incremented, Decremented

(* Setting a count leaves the environments alone. *)
LEMMA CountStep ==
    ASSUME NEW ks \in Kernels, NEW pp \in Page, NEW n \in 0 .. RefMax
    PROVE  MemStep(ks, [ks EXCEPT !.pp_ref[pp] = n])
  BY DEF MemStep, SameEnvs, Kernels

(* So does counting a reference. *)
LEMMA IncrefStep ==
    ASSUME NEW ks \in Kernels, NEW pp \in Page
    PROVE  MemStep(ks, page_incref(ks, pp))
  <1>1. ks.pp_ref[pp] \in 0 .. RefMax
    BY DEF Kernels
  <1> QED
    BY <1>1, RefCounter, CountStep DEF page_incref

(* So does page_alloc(). *)
LEMMA AllocStep ==
    ASSUME NEW ks \in Kernels
    PROVE  MemStep(ks, page_alloc(ks))
  BY NullAssumption DEF MemStep, SameEnvs, Kernels, page_alloc, PageOrNull

(* So does page_alloc() with ALLOC_ZERO. *)
LEMMA AllocZeroStep ==
    ASSUME NEW ks \in Kernels
    PROVE  MemStep(ks, page_alloc_zero(ks))
  BY NullAssumption DEF MemStep, SameEnvs, Kernels, page_alloc, page_alloc_zero, PageOrNull, ZeroPage, Entry

(* So does page_free(). *)
LEMMA FreeStep ==
    ASSUME NEW ks \in Kernels, NEW pp \in Page
    PROVE  MemStep(ks, page_free(ks, pp))
  BY NullAssumption DEF MemStep, SameEnvs, Kernels, page_free, PageOrNull

(* So does page_decref(). *)
LEMMA DecrefStep ==
    ASSUME NEW ks \in Kernels, NEW pp \in Page
    PROVE  MemStep(ks, page_decref(ks, pp))
  <1> DEFINE d == [ks EXCEPT !.pp_ref[pp] = Decremented(ks.pp_ref[pp])]
  <1>1. ks.pp_ref[pp] \in 0 .. RefMax
    BY DEF Kernels
  <1>2. MemStep(ks, d)
    BY <1>1, RefCounter, CountStep
  <1>3. page_decref(ks, pp) = IF d.pp_ref[pp] = 0 THEN page_free(d, pp) ELSE d
    BY DEF page_decref
  <1> HIDE DEF d
  <1>4. MemStep(d, page_free(d, pp))
    BY <1>2, FreeStep DEF MemStep
  <1> QED
    BY <1>2, <1>3, <1>4 DEF MemStep, SameEnvs

(* So does tlb_invalidate(). *)
LEMMA InvalidateStep ==
    ASSUME NEW ks \in Kernels, NEW va
    PROVE  MemStep(ks, tlb_invalidate(ks, va))
  BY DEF MemStep, SameEnvs, Kernels, tlb_invalidate

(* So does lcr3(). *)
LEMMA Lcr3Step ==
    ASSUME NEW ks \in Kernels, NEW d \in Page
    PROVE  MemStep(ks, lcr3(ks, d))
  BY DEF MemStep, SameEnvs, Kernels, lcr3

(* pgdir_walk() returns a pointer into a page. *)
LEMMA WalkStep ==
    ASSUME NEW ks \in Kernels, NEW d \in Page, NEW va \in VA, NEW create \in BOOLEAN
    PROVE  LET w == pgdir_walk(ks, d, va, create)
           IN  /\ MemStep(ks, w.m)
               /\ w.pte # NULL => w.pte \in Page \X Slot
               /\ ~create => w.m = ks
  <1> DEFINE w == pgdir_walk(ks, d, va, create)
  <1>0. va[1] \in Slot /\ va[2] \in Slot
    BY DEF VA
  <1>1. CASE ks.pt[d][va[1]] # NULL
    <2>1. w = [m |-> ks, pte |-> PtePtr(ks.pt[d][va[1]].ppn, va[2])]
      BY <1>1 DEF pgdir_walk
    <2>2. ks.pt[d][va[1]] \in Entry
      BY <1>0 DEF Kernels
    <2>3. ks.pt[d][va[1]].ppn \in Page
      BY <1>1, <2>2 DEF Entry
    <2> HIDE DEF w
    <2>4. w.m = ks /\ w.pte = PtePtr(ks.pt[d][va[1]].ppn, va[2])
      BY <2>1
    <2> QED
      BY <1>0, <2>3, <2>4 DEF w, PtePtr, MemStep, SameEnvs
  <1>2. CASE ks.pt[d][va[1]] = NULL /\ (~create \/ ks.page_free_list = NULL)
    <2>1. w = [m |-> ks, pte |-> NULL]
      BY <1>2 DEF pgdir_walk
    <2> HIDE DEF w
    <2>2. w.m = ks /\ w.pte = NULL
      BY <2>1
    <2> QED
      BY <2>2 DEF w, MemStep, SameEnvs
  <1>3. CASE ks.pt[d][va[1]] = NULL /\ create /\ ks.page_free_list # NULL
    <2> DEFINE q == page_alloc_ret(ks)
               z == page_alloc_zero(ks)
               i == page_incref(z, q)
               e == [ppn |-> q, perm |-> {"W", "U"}]
               n == Store(i, PtePtr(d, va[1]), e)
    <2>1. w = [m |-> n, pte |-> PtePtr(q, va[2])]
      BY <1>3 DEF pgdir_walk
    <2>2. q \in Page
      BY <1>3 DEF Kernels, page_alloc_ret, PageOrNull
    <2>3. MemStep(ks, z)
      BY AllocZeroStep
    <2> HIDE DEF w, q, z, n
    <2>4. MemStep(z, i)
      BY <2>2, <2>3, IncrefStep DEF MemStep
    <2>5. e \in Entry
      <3>1. {"W", "U"} \in Perm
        BY DEF Perm
      <3> QED
        BY <2>2, <3>1, EntryOf
    <2> HIDE DEF i, e
    <2>6. MemStep(i, n)
      BY <1>0, <2>4, <2>5, StoreStep DEF MemStep, n
    <2>7. w.m = n /\ w.pte = PtePtr(q, va[2])
      BY <2>1
    <2>8. MemStep(ks, n)
      BY <2>3, <2>4, <2>6 DEF MemStep, SameEnvs
    <2>9. MemStep(ks, w.m) /\ w.pte \in Page \X Slot
      BY <1>0, <2>2, <2>7, <2>8 DEF PtePtr
    <2> QED
      BY <1>3, <2>9 DEF w
  <1> QED
    BY <1>1, <1>2, <1>3

(* page_remove() leaves the environments alone. *)
LEMMA RemoveMemStep ==
    ASSUME NEW ks \in Kernels, NEW d \in Page, NEW va \in VA
    PROVE  MemStep(ks, page_remove(ks, d, va))
  <1> DEFINE pte   == pgdir_walk(ks, d, va, FALSE).pte
             found == page_lookup(ks, d, va)
             a     == page_remove(ks, d, va)
  <1>1. found = IF pte = NULL \/ Deref(ks, pte) = NULL
                THEN [pp |-> NULL, pte |-> NULL]
                ELSE [pp |-> Deref(ks, pte).ppn, pte |-> pte]
    BY DEF page_lookup
  <1>2. pte # NULL => pte \in Page \X Slot
    BY WalkStep
  <1> HIDE DEF pte
  <1>3. CASE pte = NULL \/ Deref(ks, pte) = NULL
    <2>1. found.pp = NULL
      BY <1>1, <1>3
    <2>2. a = ks
      BY <2>1 DEF page_remove
    <2> QED
      BY <2>2 DEF MemStep, SameEnvs
  <1>4. CASE ~(pte = NULL \/ Deref(ks, pte) = NULL)
    <2> DEFINE q == Deref(ks, pte).ppn
               s == Store(ks, pte, NULL)
               u == page_decref(s, q)
    <2>1. found.pp = q /\ found.pte = pte
      BY <1>1, <1>4
    <2>2. PICK t \in Page, i \in Slot : pte = PtePtr(t, i)
      BY <1>2, <1>4 DEF PtePtr
    <2>3. Deref(ks, pte) \in Entry
      BY <2>2 DEF Deref, PtePtr, Kernels
    <2>4. q \in Page
      BY <1>4, <2>3 DEF Entry
    <2>5. q # NULL
      BY <2>4, NullAssumption DEF Page
    <2>6. a = tlb_invalidate(u, va)
      BY <2>1, <2>5 DEF page_remove
    <2> HIDE DEF q, found, a
    <2>7. NULL \in Entry
      BY DEF Entry
    <2>8. MemStep(ks, s)
      BY <2>2, <2>7, StoreStep
    <2> HIDE DEF s
    <2>9. MemStep(s, u)
      BY <2>4, <2>8, DecrefStep DEF MemStep
    <2> HIDE DEF u
    <2>10. MemStep(u, a)
      BY <2>6, <2>9, InvalidateStep DEF MemStep
    <2> QED
      BY <2>8, <2>9, <2>10 DEF MemStep, SameEnvs, a
  <1> QED
    BY <1>3, <1>4

(* page_insert() leaves the environments alone. *)
LEMMA InsertMemStep ==
    ASSUME NEW ks \in Kernels, NEW d \in Page, NEW pp \in Page, NEW va \in VA, NEW pm \in Perm
    PROVE  MemStep(ks, page_insert(ks, d, pp, va, pm).m)
  <1> DEFINE res     == page_insert(ks, d, pp, va, pm)
             w       == pgdir_walk(ks, d, va, TRUE)
             counted == page_incref(w.m, pp)
             cleared == IF Deref(counted, w.pte) # NULL
                        THEN page_remove(counted, d, va) ELSE counted
             e       == [ppn |-> pp, perm |-> pm]
             a       == Store(cleared, w.pte, e)
  <1>1. res = IF w.pte = NULL THEN [m |-> w.m, r |-> -E_NO_MEM] ELSE [m |-> a, r |-> 0]
    BY DEF page_insert
  <1>2. MemStep(ks, w.m) /\ (w.pte # NULL => w.pte \in Page \X Slot)
    BY WalkStep
  <1> HIDE DEF w
  <1>3. MemStep(w.m, counted)
    BY <1>2, IncrefStep DEF MemStep
  <1> HIDE DEF counted
  <1>4. MemStep(counted, page_remove(counted, d, va))
    BY <1>3, RemoveMemStep DEF MemStep
  <1>5. MemStep(counted, cleared)
    BY <1>3, <1>4 DEF MemStep, SameEnvs
  <1> HIDE DEF cleared
  <1>6. e \in Entry
    BY EntryOf
  <1> HIDE DEF e
  <1>7. CASE w.pte = NULL
    BY <1>1, <1>2, <1>7
  <1>8. CASE w.pte # NULL
    <2>1. PICK t \in Page, i \in Slot : w.pte = PtePtr(t, i)
      BY <1>2, <1>8 DEF PtePtr
    <2>2. MemStep(cleared, a)
      BY <1>5, <1>6, <2>1, StoreStep DEF MemStep
    <2> HIDE DEF a, res
    <2>3. res.m = a
      BY <1>1, <1>8
    <2> QED
      BY <1>2, <1>3, <1>5, <2>2, <2>3 DEF MemStep, SameEnvs, res
  <1> QED
    BY <1>7, <1>8

-----------------------------------------------------------------------------
(* A set of numbers that holds 0 and, with a number below n, the next one, *)
(* holds all up to n.                                                      *)
LEMMA BoundedInduction ==
    ASSUME NEW n \in Nat, NEW S, 0 \in S, \A i \in 1 .. n : i - 1 \in S => i \in S
    PROVE  \A i \in 0 .. n : i \in S
  <1> DEFINE T == {i \in Nat : i <= n => i \in S}
  <1>1. 0 \in T
    OBVIOUS
  <1>2. ASSUME NEW i \in Nat, i \in T PROVE i + 1 \in T
    <2> SUFFICES ASSUME i + 1 <= n PROVE i + 1 \in S
      OBVIOUS
    <2>1. i + 1 \in 1 .. n /\ (i + 1) - 1 = i /\ i \in S
      BY <1>2
    <2> QED
      BY <2>1
  <1> HIDE DEF T
  <1>3. Nat \subseteq T
    BY <1>1, <1>2, SetInduction
  <1> QED
    BY <1>3 DEF T

(* g is a run of n rounds through K from a, where round i does f[i].       *)
IsRun(g, n, K, a, f) ==
    g \in [0 .. n -> K] /\ g[0] = a /\ \A i \in 1 .. n : g[i] = f[<<i, g[i - 1]>>]

(* A loop of n rounds whose rounds stay within a set has a run. *)
LEMMA RunExists ==
    ASSUME NEW n \in Nat, NEW K, NEW a \in K, NEW f \in [(1 .. n) \X K -> K]
    PROVE  \E g : IsRun(g, n, K, a, f)
  <1> DEFINE Is(g, j) == g[0] = a /\ \A i \in 1 .. j : g[i] = f[<<i, g[i - 1]>>]
             S == {j \in Nat : j <= n => \E g \in [0 .. j -> K] : Is(g, j)}
  <1>1. 0 \in S
    <2>1. [i \in 0 .. 0 |-> a] \in [0 .. 0 -> K] /\ Is([i \in 0 .. 0 |-> a], 0)
      OBVIOUS
    <2> QED
      BY <2>1
  <1>2. ASSUME NEW j \in Nat, j \in S PROVE j + 1 \in S
    <2> SUFFICES ASSUME j + 1 <= n PROVE \E g \in [0 .. j + 1 -> K] : Is(g, j + 1)
      OBVIOUS
    <2>1. PICK g \in [0 .. j -> K] : Is(g, j)
      BY <1>2
    <2> DEFINE b == f[<<j + 1, g[j]>>]
               h == [i \in 0 .. j + 1 |-> IF i = j + 1 THEN b ELSE g[i]]
    <2>2. b \in K
      <3>1. g[j] \in K /\ j + 1 \in 1 .. n
        BY <2>1
      <3>2. <<j + 1, g[j]>> \in (1 .. n) \X K
        BY <3>1
      <3> HIDE DEF b
      <3> QED
        BY <3>2 DEF b
    <2>3. h \in [0 .. j + 1 -> K]
      BY <2>1, <2>2
    <2>4. h[0] = a
      BY <2>1
    <2>5. ASSUME NEW i \in 1 .. j + 1 PROVE h[i] = f[<<i, h[i - 1]>>]
      <3>1. i - 1 \in 0 .. j + 1 /\ i - 1 # j + 1 /\ h[i - 1] = g[i - 1]
        OBVIOUS
      <3>2. CASE i = j + 1
        <4>1. i - 1 = j /\ h[i] = b
          BY <3>2
        <4> QED
          BY <3>1, <3>2, <4>1
      <3>3. CASE i # j + 1
        <4>1. i \in 1 .. j /\ h[i] = g[i]
          BY <3>3
        <4> QED
          BY <2>1, <3>1, <4>1
      <3> QED
        BY <3>2, <3>3
    <2> HIDE DEF h
    <2> QED
      BY <2>3, <2>4, <2>5
  <1> HIDE DEF S
  <1>3. Nat \subseteq S
    BY <1>1, <1>2, SetInduction
  <1>4. n \in S
    BY <1>3
  <1> QED
    BY <1>4 DEF S, IsRun

(* Whatever makes the same rounds is the same run. *)
LEMMA RunUnique ==
    ASSUME NEW n \in Nat, NEW K, NEW a, NEW f, NEW g, IsRun(g, n, K, a, f),
           NEW h, h[0] = a, \A i \in 1 .. n : h[i - 1] \in K => h[i] = f[<<i, h[i - 1]>>]
    PROVE  h[n] = g[n]
  <1> DEFINE S == {i \in Nat : h[i] = g[i]}
  <1>1. 0 \in S
    BY DEF IsRun
  <1>2. ASSUME NEW i \in 1 .. n, i - 1 \in S PROVE i \in S
    <2>1. i - 1 \in 0 .. n /\ h[i - 1] = g[i - 1]
      BY <1>2
    <2>2. g[i - 1] \in K /\ g[i] = f[<<i, g[i - 1]>>]
      BY <2>1 DEF IsRun
    <2>3. h[i] = f[<<i, h[i - 1]>>]
      BY <2>1, <2>2
    <2>4. h[i] = g[i]
      BY <2>1, <2>2, <2>3
    <2> QED
      BY <2>4
  <1> HIDE DEF S
  <1>3. \A i \in 0 .. n : i \in S
    BY <1>1, <1>2, BoundedInduction
  <1>4. n \in S
    BY <1>3
  <1> QED
    BY <1>4 DEF S

(* The states that have the environments of k. *)
Like(ks) == {s \in Kernels : SameEnvs(ks, s)}

(* g is the run of a loop from state k, for the rounds 1 .. n. *)
Starts(g, ks, n) == g \in [0 .. n -> Like(ks)] /\ g[0] = ks

(* The rounds of the loops stay within these states. *)
LEMMA RegionStep ==
    ASSUME NEW ks \in Kernels, NEW e \in EnvIdx, ks.envs[e].env_pgdir \in Page, NEW va \in VA
    PROVE  region_alloc_page(ks, e, va) \in Like(ks)
  <1> DEFINE p == page_alloc_ret(ks)
             a == page_alloc(ks)
             n == page_insert(a, ks.envs[e].env_pgdir, p, va, {"W", "U"}).m
  <1>1. CASE p = NULL
    BY <1>1 DEF region_alloc_page, Like, SameEnvs, Kernels
  <1>2. CASE p # NULL
    <2>1. region_alloc_page(ks, e, va) = n
      BY <1>2 DEF region_alloc_page
    <2>2. p \in Page
      BY <1>2 DEF Kernels, page_alloc_ret, PageOrNull
    <2>3. MemStep(ks, a)
      BY AllocStep
    <2> HIDE DEF p, a
    <2>4. {"W", "U"} \in Perm
      BY DEF Perm
    <2>5. MemStep(a, n)
      BY <2>2, <2>3, <2>4, InsertMemStep DEF MemStep
    <2> QED
      BY <2>1, <2>3, <2>5 DEF MemStep, SameEnvs, Like
  <1> QED
    BY <1>1, <1>2

(* The store of a whole page stays within these states. *)
LEMMA FillStep ==
    ASSUME NEW ks \in Kernels, NEW p \in Page
    PROVE  [ks EXCEPT !.pt[p] = DataPage] \in Like(ks)
  <1>1. DataPage \in [Slot -> Entry]
    <2>1. 0 \in Page /\ {"W", "U"} \in Perm
      BY NPagesAssumption DEF Page, Perm
    <2>2. [ppn |-> 0, perm |-> {"W", "U"}] \in Entry
      BY <2>1, EntryOf
    <2> QED
      BY <2>2 DEF DataPage
  <1> HIDE DEF DataPage
  <1> QED
    BY <1>1 DEF Like, SameEnvs, Kernels

(* What a page walk finds is an entry. *)
LEMMA TranslateType ==
    ASSUME NEW ks \in Kernels, NEW d \in Page, NEW va \in VA
    PROVE  Translate(ks, d, va) \in Entry
  <1>1. va[1] \in Slot /\ va[2] \in Slot
    BY DEF VA
  <1>2. ks.pt[d][va[1]] \in Entry
    BY <1>1 DEF Kernels
  <1>3. CASE ks.pt[d][va[1]] = NULL
    BY <1>3 DEF Translate, Entry
  <1>4. CASE ks.pt[d][va[1]] # NULL
    <2>1. ks.pt[d][va[1]].ppn \in Page
      BY <1>2, <1>4 DEF Entry
    <2> QED
      BY <1>1, <1>4, <2>1 DEF Translate, Kernels
  <1> QED
    BY <1>3, <1>4

(* The copy of a page of a program stays within these states. *)
LEMMA CopyStep ==
    ASSUME NEW ks \in Kernels, NEW va \in VA
    PROVE  write_page(ks, va) \in Like(ks)
  <1>1. CASE Translate(ks, ks.cr3, va) = NULL
    BY <1>1 DEF write_page, Like, SameEnvs, Kernels
  <1>2. CASE Translate(ks, ks.cr3, va) # NULL
    <2>1. ks.cr3 \in Page
      BY DEF Kernels
    <2>2. Translate(ks, ks.cr3, va).ppn \in Page
      BY <1>2, <2>1, TranslateType DEF Entry
    <2> QED
      BY <1>2, <2>2, FillStep DEF write_page
  <1> QED
    BY <1>1, <1>2

(* The pages of a segment are user pages. *)
LEMMA UserPages ==
    ASSUME NEW pages \in Seq(UserSlot \X Slot), NEW i \in 1 .. Len(pages)
    PROVE  pages[i] \in VA /\ pages[i] \in UserSlot \X Slot
  BY SlotAssumption DEF VA, UserSlot, Slot

(* The inner loop of env_free(): unmap what a page table maps. *)
UnmapTable(ks, d, pdeno) ==
    LET Unmap(s, pteno) == page_remove(s, d, <<pdeno, pteno>>)
    IN  ForEach(ks, [i \in 1 .. NSlots |-> i - 1], Unmap)

(* It is a run. *)
LEMMA UnmapRun ==
    ASSUME NEW ks \in Kernels, NEW d \in Page, NEW pdeno \in Slot
    PROVE  \E g : /\ Starts(g, ks, NSlots)
                  /\ \A i \in 1 .. NSlots :
                         g[i] = IF Stopped(g[i - 1]) THEN g[i - 1]
                                ELSE page_remove(g[i - 1], d, <<pdeno, i - 1>>)
                  /\ UnmapTable(ks, d, pdeno) = g[NSlots]
  <1> DEFINE n     == NSlots
             seq   == [i \in 1 .. n |-> i - 1]
             Round(i, s) == IF Stopped(s) THEN s ELSE page_remove(s, d, <<pdeno, seq[i]>>)
             f     == [x \in (1 .. n) \X Like(ks) |-> Round(x[1], x[2])]
             Is(h) == h = [i \in 0 .. Len(seq) |-> IF i = 0 THEN ks
                               ELSE IF Stopped(h[i - 1]) THEN h[i - 1]
                               ELSE page_remove(h[i - 1], d, <<pdeno, seq[i]>>)]
             after == CHOOSE h : Is(h)
  <1>1. n \in Nat /\ Len(seq) = n /\ ks \in Like(ks)
    BY SlotAssumption DEF Like, SameEnvs
  <1>2. UnmapTable(ks, d, pdeno) = after[Len(seq)]
    BY DEF UnmapTable, ForEach
  <1>3. ASSUME NEW i \in 1 .. n, NEW s \in Like(ks) PROVE Round(i, s) \in Like(ks)
    <2>1. s \in Kernels /\ SameEnvs(ks, s)
      BY DEF Like
    <2>2. <<pdeno, seq[i]>> \in VA
      BY SlotAssumption DEF VA, Slot
    <2>3. MemStep(s, page_remove(s, d, <<pdeno, seq[i]>>))
      BY <2>1, <2>2, RemoveMemStep
    <2> QED
      BY <2>1, <2>3 DEF MemStep, Like, SameEnvs
  <1> HIDE DEF seq, n
  <1>4. /\ f \in [(1 .. n) \X Like(ks) -> Like(ks)]
        /\ \A i \in 1 .. n, s \in Like(ks) : f[<<i, s>>] = Round(i, s)
    <2> HIDE DEF Round
    <2> QED
      BY <1>3
  <1> HIDE DEF f
  <1>5. PICK g : IsRun(g, n, Like(ks), ks, f)
    BY <1>1, <1>4, RunExists
  <1>6. g \in [0 .. n -> Like(ks)] /\ g[0] = ks
    BY <1>5 DEF IsRun
  <1>7. ASSUME NEW i \in 1 .. n PROVE i - 1 \in 0 .. n /\ g[i] = Round(i, g[i - 1])
    <2> HIDE DEF Round
    <2>1. i - 1 \in 0 .. n /\ g[i - 1] \in Like(ks)
      BY <1>1, <1>6
    <2> QED
      BY <1>4, <1>5, <2>1 DEF IsRun
  <1>8. Is(g)
    BY <1>1, <1>6, <1>7
  <1>9. Is(after)
    BY <1>8
  <1> HIDE DEF after
  <1>10. after[0] = ks /\ \A i \in 1 .. n : after[i] = Round(i, after[i - 1])
    BY <1>1, <1>9
  <1>11. after[n] = g[n]
    <2> HIDE DEF Round
    <2>1. \A i \in 1 .. n : after[i - 1] \in Like(ks) => after[i] = f[<<i, after[i - 1]>>]
      BY <1>4, <1>10
    <2> QED
      BY <1>1, <1>5, <1>10, <2>1, RunUnique
  <1>12. \A i \in 1 .. n : g[i] = IF Stopped(g[i - 1]) THEN g[i - 1]
                                  ELSE page_remove(g[i - 1], d, <<pdeno, i - 1>>)
    BY <1>7 DEF seq, n
  <1> QED
    BY <1>1, <1>2, <1>6, <1>11, <1>12 DEF Starts, n

(* region_alloc() of a segment's pages. *)
RegionLoop(ks, e, pages) ==
    LET Region(s, va) == region_alloc_page(s, e, va)
    IN  ForEach(ks, pages, Region)

(* It is a run. *)
LEMMA RegionRun ==
    ASSUME NEW ks \in Kernels, NEW e \in EnvIdx, ks.envs[e].env_pgdir \in Page,
           NEW pages \in Seq(UserSlot \X Slot)
    PROVE  \E g : /\ Starts(g, ks, Len(pages))
                  /\ \A i \in 1 .. Len(pages) :
                         g[i] = IF Stopped(g[i - 1]) THEN g[i - 1]
                                ELSE region_alloc_page(g[i - 1], e, pages[i])
                  /\ RegionLoop(ks, e, pages) = g[Len(pages)]
  <1> DEFINE n     == Len(pages)
             seq   == pages
             Round(i, s) == IF Stopped(s) THEN s ELSE region_alloc_page(s, e, seq[i])
             f     == [x \in (1 .. n) \X Like(ks) |-> Round(x[1], x[2])]
             Is(h) == h = [i \in 0 .. Len(seq) |-> IF i = 0 THEN ks
                               ELSE IF Stopped(h[i - 1]) THEN h[i - 1]
                               ELSE region_alloc_page(h[i - 1], e, seq[i])]
             after == CHOOSE h : Is(h)
  <1>1. n \in Nat /\ Len(seq) = n /\ ks \in Like(ks)
    BY DEF Like, SameEnvs
  <1>2. RegionLoop(ks, e, pages) = after[Len(seq)]
    BY DEF RegionLoop, ForEach
  <1>3. ASSUME NEW i \in 1 .. n, NEW s \in Like(ks) PROVE Round(i, s) \in Like(ks)
    <2>1. s \in Kernels /\ SameEnvs(ks, s)
      BY DEF Like
    <2>2. seq[i] \in VA
      BY UserPages
    <2>3. region_alloc_page(s, e, seq[i]) \in Like(s)
      BY <2>1, <2>2, RegionStep DEF SameEnvs
    <2> QED
      BY <2>1, <2>3 DEF Like, SameEnvs
  <1> HIDE DEF seq, n
  <1>4. /\ f \in [(1 .. n) \X Like(ks) -> Like(ks)]
        /\ \A i \in 1 .. n, s \in Like(ks) : f[<<i, s>>] = Round(i, s)
    <2> HIDE DEF Round
    <2> QED
      BY <1>3
  <1> HIDE DEF f
  <1>5. PICK g : IsRun(g, n, Like(ks), ks, f)
    BY <1>1, <1>4, RunExists
  <1>6. g \in [0 .. n -> Like(ks)] /\ g[0] = ks
    BY <1>5 DEF IsRun
  <1>7. ASSUME NEW i \in 1 .. n PROVE i - 1 \in 0 .. n /\ g[i] = Round(i, g[i - 1])
    <2> HIDE DEF Round
    <2>1. i - 1 \in 0 .. n /\ g[i - 1] \in Like(ks)
      BY <1>1, <1>6
    <2> QED
      BY <1>4, <1>5, <2>1 DEF IsRun
  <1>8. Is(g)
    BY <1>1, <1>6, <1>7
  <1>9. Is(after)
    BY <1>8
  <1> HIDE DEF after
  <1>10. after[0] = ks /\ \A i \in 1 .. n : after[i] = Round(i, after[i - 1])
    BY <1>1, <1>9
  <1>11. after[n] = g[n]
    <2> HIDE DEF Round
    <2>1. \A i \in 1 .. n : after[i - 1] \in Like(ks) => after[i] = f[<<i, after[i - 1]>>]
      BY <1>4, <1>10
    <2> QED
      BY <1>1, <1>5, <1>10, <2>1, RunUnique
  <1>12. \A i \in 1 .. n : g[i] = IF Stopped(g[i - 1]) THEN g[i - 1]
                                  ELSE region_alloc_page(g[i - 1], e, pages[i])
    BY <1>7 DEF seq, n
  <1> QED
    BY <1>1, <1>2, <1>6, <1>11, <1>12 DEF Starts, n

(* The copy of a segment's pages. *)
CopyLoop(ks, pages) == ForEach(ks, pages, write_page)

(* It is a run. *)
LEMMA CopyRun ==
    ASSUME NEW ks \in Kernels, NEW pages \in Seq(UserSlot \X Slot)
    PROVE  \E g : /\ Starts(g, ks, Len(pages))
                  /\ \A i \in 1 .. Len(pages) :
                         g[i] = IF Stopped(g[i - 1]) THEN g[i - 1]
                                ELSE write_page(g[i - 1], pages[i])
                  /\ CopyLoop(ks, pages) = g[Len(pages)]
  <1> DEFINE n     == Len(pages)
             seq   == pages
             Round(i, s) == IF Stopped(s) THEN s ELSE write_page(s, seq[i])
             f     == [x \in (1 .. n) \X Like(ks) |-> Round(x[1], x[2])]
             Is(h) == h = [i \in 0 .. Len(seq) |-> IF i = 0 THEN ks
                               ELSE IF Stopped(h[i - 1]) THEN h[i - 1]
                               ELSE write_page(h[i - 1], seq[i])]
             after == CHOOSE h : Is(h)
  <1>1. n \in Nat /\ Len(seq) = n /\ ks \in Like(ks)
    BY DEF Like, SameEnvs
  <1>2. CopyLoop(ks, pages) = after[Len(seq)]
    BY DEF CopyLoop, ForEach
  <1>3. ASSUME NEW i \in 1 .. n, NEW s \in Like(ks) PROVE Round(i, s) \in Like(ks)
    <2>1. s \in Kernels /\ SameEnvs(ks, s)
      BY DEF Like
    <2>2. seq[i] \in VA
      BY UserPages
    <2>3. write_page(s, seq[i]) \in Like(s)
      BY <2>1, <2>2, CopyStep
    <2> QED
      BY <2>1, <2>3 DEF Like, SameEnvs
  <1> HIDE DEF seq, n
  <1>4. /\ f \in [(1 .. n) \X Like(ks) -> Like(ks)]
        /\ \A i \in 1 .. n, s \in Like(ks) : f[<<i, s>>] = Round(i, s)
    <2> HIDE DEF Round
    <2> QED
      BY <1>3
  <1> HIDE DEF f
  <1>5. PICK g : IsRun(g, n, Like(ks), ks, f)
    BY <1>1, <1>4, RunExists
  <1>6. g \in [0 .. n -> Like(ks)] /\ g[0] = ks
    BY <1>5 DEF IsRun
  <1>7. ASSUME NEW i \in 1 .. n PROVE i - 1 \in 0 .. n /\ g[i] = Round(i, g[i - 1])
    <2> HIDE DEF Round
    <2>1. i - 1 \in 0 .. n /\ g[i - 1] \in Like(ks)
      BY <1>1, <1>6
    <2> QED
      BY <1>4, <1>5, <2>1 DEF IsRun
  <1>8. Is(g)
    BY <1>1, <1>6, <1>7
  <1>9. Is(after)
    BY <1>8
  <1> HIDE DEF after
  <1>10. after[0] = ks /\ \A i \in 1 .. n : after[i] = Round(i, after[i - 1])
    BY <1>1, <1>9
  <1>11. after[n] = g[n]
    <2> HIDE DEF Round
    <2>1. \A i \in 1 .. n : after[i - 1] \in Like(ks) => after[i] = f[<<i, after[i - 1]>>]
      BY <1>4, <1>10
    <2> QED
      BY <1>1, <1>5, <1>10, <2>1, RunUnique
  <1>12. \A i \in 1 .. n : g[i] = IF Stopped(g[i - 1]) THEN g[i - 1]
                                  ELSE write_page(g[i - 1], pages[i])
    BY <1>7 DEF seq, n
  <1> QED
    BY <1>1, <1>2, <1>6, <1>11, <1>12 DEF Starts, n

(* load_segment() is these two loops, one after the other. *)
LEMMA SegmentStep ==
    ASSUME NEW ks \in Kernels, NEW e \in EnvIdx, ks.envs[e].env_pgdir \in Page,
           NEW pages \in Seq(UserSlot \X Slot)
    PROVE  /\ load_segment(ks, e, pages) = CopyLoop(RegionLoop(ks, e, pages), pages)
           /\ RegionLoop(ks, e, pages) \in Like(ks)
           /\ load_segment(ks, e, pages) \in Like(ks)
  <1>1. load_segment(ks, e, pages) = CopyLoop(RegionLoop(ks, e, pages), pages)
    BY DEF load_segment, CopyLoop, RegionLoop
  <1> DEFINE r == RegionLoop(ks, e, pages)
             c == CopyLoop(r, pages)
  <1>0. Len(pages) \in Nat
    OBVIOUS
  <1>2. r \in Like(ks)
    <2>1. PICK g : Starts(g, ks, Len(pages)) /\ r = g[Len(pages)]
      BY RegionRun
    <2> QED
      BY <1>0, <2>1 DEF Starts
  <1> HIDE DEF r
  <1>3. c \in Like(r)
    <2>1. r \in Kernels
      BY <1>2 DEF Like
    <2>2. PICK g : Starts(g, r, Len(pages)) /\ c = g[Len(pages)]
      BY <2>1, CopyRun
    <2> QED
      BY <1>0, <2>2 DEF Starts
  <1> HIDE DEF c
  <1>4. c \in Like(ks)
    BY <1>2, <1>3 DEF Like, SameEnvs
  <1> QED
    BY <1>1, <1>2, <1>4 DEF r, c

(* load_icode()'s loop over the segments of a program. *)
SegmentLoop(ks, e, binary) ==
    LET Segment(s, pages) == load_segment(s, e, pages)
    IN  ForEach(ks, binary, Segment)

(* It is a run. *)
LEMMA SegmentRun ==
    ASSUME NEW ks \in Kernels, NEW e \in EnvIdx, ks.envs[e].env_pgdir \in Page,
           NEW binary \in Seq(Seq(UserSlot \X Slot))
    PROVE  \E g : /\ Starts(g, ks, Len(binary))
                  /\ \A i \in 1 .. Len(binary) :
                         g[i] = IF Stopped(g[i - 1]) THEN g[i - 1]
                                ELSE load_segment(g[i - 1], e, binary[i])
                  /\ SegmentLoop(ks, e, binary) = g[Len(binary)]
  <1> DEFINE n     == Len(binary)
             seq   == binary
             Round(i, s) == IF Stopped(s) THEN s ELSE load_segment(s, e, seq[i])
             f     == [x \in (1 .. n) \X Like(ks) |-> Round(x[1], x[2])]
             Is(h) == h = [i \in 0 .. Len(seq) |-> IF i = 0 THEN ks
                               ELSE IF Stopped(h[i - 1]) THEN h[i - 1]
                               ELSE load_segment(h[i - 1], e, seq[i])]
             after == CHOOSE h : Is(h)
  <1>1. n \in Nat /\ Len(seq) = n /\ ks \in Like(ks)
    BY DEF Like, SameEnvs
  <1>2. SegmentLoop(ks, e, binary) = after[Len(seq)]
    BY DEF SegmentLoop, ForEach
  <1>3. ASSUME NEW i \in 1 .. n, NEW s \in Like(ks) PROVE Round(i, s) \in Like(ks)
    <2>1. s \in Kernels /\ SameEnvs(ks, s)
      BY DEF Like
    <2>2. seq[i] \in Seq(UserSlot \X Slot)
      OBVIOUS
    <2>3. load_segment(s, e, seq[i]) \in Like(s)
      BY <2>1, <2>2, SegmentStep DEF SameEnvs
    <2> QED
      BY <2>1, <2>3 DEF Like, SameEnvs
  <1> HIDE DEF seq, n
  <1>4. /\ f \in [(1 .. n) \X Like(ks) -> Like(ks)]
        /\ \A i \in 1 .. n, s \in Like(ks) : f[<<i, s>>] = Round(i, s)
    <2> HIDE DEF Round
    <2> QED
      BY <1>3
  <1> HIDE DEF f
  <1>5. PICK g : IsRun(g, n, Like(ks), ks, f)
    BY <1>1, <1>4, RunExists
  <1>6. g \in [0 .. n -> Like(ks)] /\ g[0] = ks
    BY <1>5 DEF IsRun
  <1>7. ASSUME NEW i \in 1 .. n PROVE i - 1 \in 0 .. n /\ g[i] = Round(i, g[i - 1])
    <2> HIDE DEF Round
    <2>1. i - 1 \in 0 .. n /\ g[i - 1] \in Like(ks)
      BY <1>1, <1>6
    <2> QED
      BY <1>4, <1>5, <2>1 DEF IsRun
  <1>8. Is(g)
    BY <1>1, <1>6, <1>7
  <1>9. Is(after)
    BY <1>8
  <1> HIDE DEF after
  <1>10. after[0] = ks /\ \A i \in 1 .. n : after[i] = Round(i, after[i - 1])
    BY <1>1, <1>9
  <1>11. after[n] = g[n]
    <2> HIDE DEF Round
    <2>1. \A i \in 1 .. n : after[i - 1] \in Like(ks) => after[i] = f[<<i, after[i - 1]>>]
      BY <1>4, <1>10
    <2> QED
      BY <1>1, <1>5, <1>10, <2>1, RunUnique
  <1>12. \A i \in 1 .. n : g[i] = IF Stopped(g[i - 1]) THEN g[i - 1]
                                  ELSE load_segment(g[i - 1], e, binary[i])
    BY <1>7 DEF seq, n
  <1> QED
    BY <1>1, <1>2, <1>6, <1>11, <1>12 DEF Starts, n

(* free_table() stays within these states. *)
LEMMA FreeTableStep ==
    ASSUME NEW ks \in Kernels, NEW e \in EnvIdx, ks.envs[e].env_pgdir \in Page,
           NEW pdeno \in UserSlot
    PROVE  free_table(ks, e, pdeno) \in Like(ks)
  <1> DEFINE d == ks.envs[e].env_pgdir
             t == ks.pt[d][pdeno].ppn
             u == UnmapTable(ks, d, pdeno)
             s == Store(u, PtePtr(d, pdeno), NULL)
             a == page_decref(s, t)
  <1>0. pdeno \in Slot
    BY SlotAssumption DEF UserSlot, Slot
  <1>1. CASE ks.pt[d][pdeno] = NULL
    <2>1. free_table(ks, e, pdeno) = ks
      BY <1>1 DEF free_table
    <2> QED
      BY <2>1 DEF Like, SameEnvs
  <1>2. CASE ks.pt[d][pdeno] # NULL
    <2>1. free_table(ks, e, pdeno) = a
      BY <1>2 DEF free_table, UnmapTable
    <2>2. t \in Page
      <3>1. ks.pt[d][pdeno] \in Entry
        BY <1>0 DEF Kernels
      <3> QED
        BY <1>2, <3>1 DEF Entry
    <2>3. u \in Like(ks)
      <3>1. PICK g : Starts(g, ks, NSlots) /\ u = g[NSlots]
        BY <1>0, UnmapRun
      <3> QED
        BY <3>1, SlotAssumption DEF Starts
    <2> HIDE DEF t, u
    <2>4. MemStep(u, s)
      <3>1. NULL \in Entry
        BY DEF Entry
      <3> QED
        BY <1>0, <2>3, <3>1, StoreStep DEF Like
    <2> HIDE DEF s
    <2>5. MemStep(s, a)
      BY <2>2, <2>4, DecrefStep DEF MemStep
    <2> QED
      BY <2>1, <2>3, <2>4, <2>5 DEF MemStep, SameEnvs, Like
  <1> QED
    BY <1>1, <1>2

(* env_free()'s loop over the page tables. *)
TableLoop(ks, e) ==
    LET FreeTable(s, pdeno) == free_table(s, e, pdeno)
    IN  ForEach(ks, [i \in 1 .. UTopSlot |-> i - 1], FreeTable)

(* It is a run. *)
LEMMA TableRun ==
    ASSUME NEW ks \in Kernels, NEW e \in EnvIdx, ks.envs[e].env_pgdir \in Page
    PROVE  \E g : /\ Starts(g, ks, UTopSlot)
                  /\ \A i \in 1 .. UTopSlot :
                         g[i] = IF Stopped(g[i - 1]) THEN g[i - 1]
                                ELSE free_table(g[i - 1], e, i - 1)
                  /\ TableLoop(ks, e) = g[UTopSlot]
  <1> DEFINE n     == UTopSlot
             seq   == [i \in 1 .. n |-> i - 1]
             Round(i, s) == IF Stopped(s) THEN s ELSE free_table(s, e, seq[i])
             f     == [x \in (1 .. n) \X Like(ks) |-> Round(x[1], x[2])]
             Is(h) == h = [i \in 0 .. Len(seq) |-> IF i = 0 THEN ks
                               ELSE IF Stopped(h[i - 1]) THEN h[i - 1]
                               ELSE free_table(h[i - 1], e, seq[i])]
             after == CHOOSE h : Is(h)
  <1>1. n \in Nat /\ Len(seq) = n /\ ks \in Like(ks)
    BY SlotAssumption DEF Like, SameEnvs
  <1>2. TableLoop(ks, e) = after[Len(seq)]
    BY DEF TableLoop, ForEach
  <1>3. ASSUME NEW i \in 1 .. n, NEW s \in Like(ks) PROVE Round(i, s) \in Like(ks)
    <2>1. s \in Kernels /\ SameEnvs(ks, s)
      BY DEF Like
    <2>2. seq[i] \in UserSlot
      BY SlotAssumption DEF UserSlot
    <2>3. free_table(s, e, seq[i]) \in Like(s)
      BY <2>1, <2>2, FreeTableStep DEF SameEnvs
    <2> QED
      BY <2>1, <2>3 DEF Like, SameEnvs
  <1> HIDE DEF seq, n
  <1>4. /\ f \in [(1 .. n) \X Like(ks) -> Like(ks)]
        /\ \A i \in 1 .. n, s \in Like(ks) : f[<<i, s>>] = Round(i, s)
    <2> HIDE DEF Round
    <2> QED
      BY <1>3
  <1> HIDE DEF f
  <1>5. PICK g : IsRun(g, n, Like(ks), ks, f)
    BY <1>1, <1>4, RunExists
  <1>6. g \in [0 .. n -> Like(ks)] /\ g[0] = ks
    BY <1>5 DEF IsRun
  <1>7. ASSUME NEW i \in 1 .. n PROVE i - 1 \in 0 .. n /\ g[i] = Round(i, g[i - 1])
    <2> HIDE DEF Round
    <2>1. i - 1 \in 0 .. n /\ g[i - 1] \in Like(ks)
      BY <1>1, <1>6
    <2> QED
      BY <1>4, <1>5, <2>1 DEF IsRun
  <1>8. Is(g)
    BY <1>1, <1>6, <1>7
  <1>9. Is(after)
    BY <1>8
  <1> HIDE DEF after
  <1>10. after[0] = ks /\ \A i \in 1 .. n : after[i] = Round(i, after[i - 1])
    BY <1>1, <1>9
  <1>11. after[n] = g[n]
    <2> HIDE DEF Round
    <2>1. \A i \in 1 .. n : after[i - 1] \in Like(ks) => after[i] = f[<<i, after[i - 1]>>]
      BY <1>4, <1>10
    <2> QED
      BY <1>1, <1>5, <1>10, <2>1, RunUnique
  <1>12. \A i \in 1 .. n : g[i] = IF Stopped(g[i - 1]) THEN g[i - 1]
                                  ELSE free_table(g[i - 1], e, i - 1)
    BY <1>7 DEF seq, n
  <1> QED
    BY <1>1, <1>2, <1>6, <1>11, <1>12 DEF Starts, n

-----------------------------------------------------------------------------
(* % and \div are determined by the quotient and the remainder. *)
LEMMA DivMod ==
    ASSUME NEW N \in Nat \ {0}, NEW b \in Int, NEW r \in 0 .. N - 1
    PROVE  (b * N + r) % N = r /\ (b * N + r) \div N = b
  <1> DEFINE a == b * N + r
             q == a \div N
             s == a % N
             d == b - q
  <1>1. a \in Int /\ q \in Int /\ s \in 0 .. N - 1 /\ a = q * N + s
    OBVIOUS
  <1>2. d \in Int /\ d * N = s - r
    BY <1>1
  <1>3. ASSUME d >= 1 PROVE FALSE
    <2>1. d * N >= N
      BY <1>2, <1>3
    <2> QED
      BY <1>1, <1>2, <2>1
  <1>4. ASSUME d <= -1 PROVE FALSE
    <2>1. (-d) * N >= N /\ (-d) * N = r - s
      BY <1>1, <1>2, <1>4
    <2> QED
      BY <1>1, <1>2, <2>1
  <1>5. d = 0
    BY <1>2, <1>3, <1>4
  <1> HIDE DEF q, s
  <1>6. s = r /\ q = b
    BY <1>1, <1>2, <1>5
  <1> QED
    BY <1>6 DEF q, s

(* A generation is a multiple of NENV at or below the number, and adding   *)
(* multiples leaves the remainder alone.                                   *)
LEMMA Generation ==
    ASSUME NEW x \in Int
    PROVE  /\ ENVX(x) \in EnvIdx
           /\ GenerationOf(x) \in Int
           /\ GenerationOf(x) = x - ENVX(x)
           /\ ENVX(x + GenStep) = ENVX(x)
           /\ \A e \in EnvIdx : ENVX(GenerationOf(x) + e) = e /\ ENVX(GenStep + e) = e
  <1> DEFINE N == NENV
             q == x \div N
             s == x % N
             g == GenStep \div N
  <1>0. N \in Nat \ {0} /\ GenStep \in Nat \ {0} /\ GenStep % N = 0
    BY EnvAssumption
  <1> HIDE DEF N
  <1>1. q \in Int /\ s \in 0 .. N - 1 /\ x = q * N + s
    BY <1>0
  <1>2. g \in Int /\ GenStep = g * N
    BY <1>0
  <1> HIDE DEF q, s, g
  <1>3. GenerationOf(x) = q * N /\ ENVX(x) = s
    BY DEF GenerationOf, ENVX, q, s, N
  <1>4. q * N \in Int /\ (q + g) * N = q * N + g * N
    BY <1>0, <1>1, <1>2
  <1>5. x + GenStep = (q + g) * N + s
    BY <1>0, <1>1, <1>2, <1>4
  <1>6. (x + GenStep) % N = s
    <2>1. q + g \in Int
      BY <1>1, <1>2
    <2>2. ASSUME NEW c \in Int PROVE (c * N + s) % N = s
      BY <1>0, <1>1, DivMod
    <2>3. ((q + g) * N + s) % N = s
      BY <2>1, <2>2
    <2> QED
      BY <1>5, <2>3
  <1>7. ASSUME NEW e \in 0 .. N - 1 PROVE (q * N + e) % N = e /\ (GenStep + e) % N = e
    BY <1>0, <1>1, <1>2, DivMod
  <1>8. ENVX(x) \in EnvIdx /\ ENVX(x + GenStep) = ENVX(x)
    <2>1. s \in EnvIdx /\ ENVX(x + GenStep) = s
      BY <1>1, <1>6 DEF ENVX, EnvIdx, N
    <2> QED
      BY <1>3, <2>1
  <1>9. GenerationOf(x) \in Int /\ GenerationOf(x) = x - ENVX(x)
    <2>1. ASSUME NEW p \in Int, x = p + s PROVE p = x - s
      BY <1>1, <2>1
    <2> QED
      BY <1>1, <1>3, <1>4, <2>1
  <1>10. ASSUME NEW e \in EnvIdx PROVE ENVX(GenerationOf(x) + e) = e /\ ENVX(GenStep + e) = e
    <2>1. e \in 0 .. N - 1
      BY DEF EnvIdx, N
    <2> QED
      BY <1>3, <1>7, <2>1 DEF ENVX, N
  <1> QED
    BY <1>8, <1>9, <1>10

(* env_alloc() gives an Env an id that names it, greater than its last one *)
(* until its generations are used up.                                      *)
LEMMA IdOf ==
    ASSUME NEW e \in EnvIdx, NEW old \in 0 .. IdMax, old = 0 \/ ENVX(old) = e
    PROVE  LET id == NextEnvId(old, e)
           IN  /\ id \in 1 .. IdMax
               /\ ENVX(id) = e
               /\ old + GenStep <= IdMax => old < id
  <1> DEFINE x == WrapId(old + GenStep)
             g == GenerationOf(x)
             id == NextEnvId(old, e)
  <1>0. /\ NENV \in Nat \ {0} /\ GenStep \in Nat \ {0} /\ IdMax \in Nat
        /\ IdMax >= GenStep + NENV /\ e \in 0 .. NENV - 1 /\ old \in Nat
    BY EnvAssumption DEF EnvIdx
  <1>1. x \in Int
    BY <1>0 DEF WrapId
  <1>2. id = (IF g <= 0 THEN GenStep ELSE g) + e
    BY DEF NextEnvId
  <1>3. g \in Int /\ g = x - ENVX(x) /\ ENVX(x) \in EnvIdx /\ ENVX(g + e) = e /\ ENVX(GenStep + e) = e
    BY <1>1, Generation
  <1>4. ENVX(id) = e
    BY <1>2, <1>3
  <1>5. CASE old + GenStep <= IdMax
    <2>1. x = old + GenStep
      BY <1>0, <1>5 DEF WrapId
    <2>2. old \in Int /\ ENVX(old + GenStep) = ENVX(old) /\ ENVX(0 + GenStep) = ENVX(0)
      BY <1>0, Generation
    <2>3. ENVX(0) = 0
      BY <1>0 DEF ENVX
    <2>4. ENVX(x) = IF old = 0 THEN 0 ELSE e
      BY <2>1, <2>2, <2>3
    <2> HIDE DEF x, g, id
    <2>5. CASE old = 0
      <3>1. g = GenStep
        BY <1>0, <1>3, <2>1, <2>4, <2>5
      <3>2. id = GenStep + e
        BY <1>2, <1>0, <3>1
      <3> QED
        BY <1>0, <1>4, <2>5, <3>2 DEF id
    <2>6. CASE old # 0
      <3>1. g + e = old + GenStep
        BY <1>0, <1>3, <2>1, <2>4, <2>6
      <3>2. g > 0
        <4>1. old >= e
          <5>1. old = (old \div NENV) * NENV + e /\ old \div NENV \in Int
            BY <1>0, <2>6 DEF ENVX
          <5>2. old \div NENV >= 0
            BY <1>0
          <5>3. (old \div NENV) * NENV >= 0
            BY <1>0, <5>1, <5>2
          <5> QED
            BY <1>0, <5>1, <5>3
        <4> QED
          BY <1>0, <1>3, <3>1, <4>1
      <3>3. id = old + GenStep
        BY <1>0, <1>2, <1>3, <3>1, <3>2
      <3> QED
        BY <1>0, <1>4, <1>5, <3>3 DEF id
    <2> QED
      BY <2>5, <2>6
  <1>6. CASE ~(old + GenStep <= IdMax)
    <2>1. x = old + GenStep - 2 * (IdMax + 1)
      BY <1>0, <1>6 DEF WrapId
    <2> HIDE DEF x, g, id
    <2>2. g <= 0
      BY <1>0, <1>3, <2>1 DEF EnvIdx
    <2>3. id = GenStep + e
      BY <1>2, <2>2
    <2> QED
      BY <1>0, <1>4, <1>6, <2>3 DEF id
  <1> QED
    BY <1>5, <1>6

-----------------------------------------------------------------------------
(* The list of free Envs, as a list in the links of an array. *)
EnvList(ks) ==
    [page_free_list |-> ks.env_free_list, pp_link |-> [e \in EnvIdx |-> ks.envs[e].env_link]]

(* The table of environments. *)
EnvTable(ks) ==
    /\ \A e \in EnvIdx :
          /\ ks.envs[e].env_id = 0 \/ ENVX(ks.envs[e].env_id) = e
          /\ e \in Live(ks) => ks.envs[e].env_id # 0 /\ ks.envs[e].env_pgdir \in Page
          /\ ks.envs[e].env_status = "ENV_RUNNING" <=> ks.curenv = e
    /\ SomeFreeList(EnvList(ks), EnvIdx \ Live(ks))

(* No id of a destroyed environment is later than the last id of its slot, *)
(* or that of a live environment.                                          *)
PastIds(ks, gone) ==
    /\ gone \subseteq 1 .. IdMax
    /\ \A id \in gone : LET e == ENVX(id)
                         IN  /\ id <= ks.envs[e].env_id
                             /\ e \in Live(ks) => id # ks.envs[e].env_id

(* Both only depend on the environments. *)
LEMMA TableFrame ==
    ASSUME NEW ks, NEW k2, NEW gone, SameEnvs(ks, k2)
    PROVE  /\ Live(k2) = Live(ks) /\ EnvList(k2) = EnvList(ks)
           /\ EnvTable(ks) => EnvTable(k2)
           /\ PastIds(ks, gone) => PastIds(k2, gone)
  <1>1. Live(k2) = Live(ks) /\ EnvList(k2) = EnvList(ks)
    BY DEF SameEnvs, Live, EnvList
  <1>2. k2.envs = ks.envs /\ k2.curenv = ks.curenv
    BY DEF SameEnvs
  <1> QED
    BY <1>1, <1>2 DEF EnvTable, PastIds

(* The running environment is live, and a free Env is not. *)
LEMMA TableUse ==
    ASSUME NEW ks \in Kernels, EnvTable(ks)
    PROVE  /\ ks.curenv # NULL => ks.curenv \in Live(ks)
           /\ ks.env_free_list # NULL => ks.env_free_list \in EnvIdx \ Live(ks)
           /\ CurenvId(ks) \in 0 .. IdMax
  <1>1. ks.curenv \in EnvIdx \cup {NULL} /\ ks.envs \in [EnvIdx -> EnvRecord]
    BY DEF Kernels
  <1>2. ks.curenv # NULL => ks.curenv \in Live(ks)
    BY <1>1 DEF EnvTable, Live
  <1>3. NULL \notin EnvIdx
    BY EnvAssumption DEF EnvIdx
  <1>4. EnvList(ks).page_free_list # NULL => EnvList(ks).page_free_list \in EnvIdx \ Live(ks)
    BY <1>3, ListHead DEF EnvTable
  <1>5. EnvList(ks).page_free_list = ks.env_free_list
    BY DEF EnvList
  <1>6. CurenvId(ks) \in 0 .. IdMax
    BY <1>1, EnvAssumption DEF CurenvId, EnvRecord
  <1> QED
    BY <1>2, <1>4, <1>5, <1>6

(* What env_alloc() has done when it gave the free Env e away. *)
GivesEnv(ks, m, e, parent_id) ==
    /\ m \in Kernels /\ m.faulted = ks.faulted
    /\ e = ks.env_free_list /\ e \in EnvIdx
    /\ m.envs[e].env_status = "ENV_RUNNABLE" /\ m.envs[e].env_pgdir \in Page
    /\ m.envs[e].env_id = NextEnvId(ks.envs[e].env_id, e)
    /\ \A i \in EnvIdx : i # e => m.envs[i] = ks.envs[i]
    /\ m.env_free_list = ks.envs[e].env_link /\ m.curenv = ks.curenv

(* env_setup_vm() gives the Env a directory, or does nothing. *)
LEMMA SetupStep ==
    ASSUME NEW ks \in Kernels, NEW e \in EnvIdx
    PROVE  LET vm == env_setup_vm(ks, e)
           IN  \/ vm.r = -E_NO_MEM /\ vm.m = ks
               \/ \E d \in Page :
                     /\ vm.r = 0 /\ vm.m \in Kernels
                     /\ vm.m.faulted = ks.faulted
                     /\ vm.m.envs = [ks.envs EXCEPT ![e].env_pgdir = d]
                     /\ vm.m.env_free_list = ks.env_free_list /\ vm.m.curenv = ks.curenv
  <1> DEFINE vm == env_setup_vm(ks, e)
             d  == page_alloc_ret(ks)
             z  == page_incref(page_alloc_zero(ks), d)
             t  == [ks.pt[kern_pgdir] EXCEPT ![UVPTSlot] = [ppn |-> d, perm |-> {"U"}]]
             n  == [z EXCEPT !.envs[e].env_pgdir = d, !.pt[d] = t]
  <1>1. CASE d = NULL
    <2>1. vm = [m |-> ks, r |-> -E_NO_MEM]
      BY <1>1 DEF env_setup_vm
    <2> HIDE DEF vm
    <2>2. vm.m = ks /\ vm.r = -E_NO_MEM
      BY <2>1
    <2> QED
      BY <2>2 DEF vm
  <1>2. CASE d # NULL
    <2>1. vm = [m |-> n, r |-> 0]
      BY <1>2 DEF env_setup_vm
    <2>2. d \in Page
      BY <1>2 DEF Kernels, page_alloc_ret, PageOrNull
    <2>3. MemStep(ks, page_alloc_zero(ks))
      BY AllocZeroStep
    <2>4. MemStep(page_alloc_zero(ks), z)
      BY <2>2, <2>3, IncrefStep DEF MemStep
    <2>5. t \in [Slot -> Entry]
      <3>1. ks.pt[kern_pgdir] \in [Slot -> Entry]
        BY KernPgdir DEF Kernels
      <3>2. [ppn |-> d, perm |-> {"U"}] \in Entry
        <4>1. {"U"} \in Perm
          BY DEF Perm
        <4> HIDE DEF d
        <4> QED
          BY <2>2, <4>1, EntryOf
      <3> QED
        BY <3>1, <3>2
    <2>6. z \in Kernels /\ SameEnvs(ks, z) /\ z.faulted = ks.faulted
      BY <2>3, <2>4 DEF MemStep, SameEnvs
    <2> HIDE DEF vm, d, z, t
    <2>7. n \in Kernels /\ n.faulted = z.faulted
          /\ n.envs = [z.envs EXCEPT ![e].env_pgdir = d]
          /\ n.env_free_list = z.env_free_list /\ n.curenv = z.curenv
      <3> DEFINE E == [z.envs EXCEPT ![e].env_pgdir = d]
                 P == [z.pt EXCEPT ![d] = t]
      <3>1. n = [z EXCEPT !.envs = E, !.pt = P]
        BY <2>6 DEF Kernels
      <3>2. E \in [EnvIdx -> EnvRecord]
        <4> DEFINE r == [z.envs[e] EXCEPT !.env_pgdir = d]
        <4>1. z.envs \in [EnvIdx -> EnvRecord] /\ z.envs[e] \in EnvRecord
          BY <2>6 DEF Kernels
        <4>2. d \in PageOrNull
          BY <2>2 DEF PageOrNull
        <4>3. r \in EnvRecord
          BY <4>1, <4>2 DEF EnvRecord
        <4>4. E = [z.envs EXCEPT ![e] = r]
          BY <4>1
        <4> QED
          BY <4>1, <4>3, <4>4
      <3>3. P \in [Page -> [Slot -> Entry]]
        BY <2>5, <2>6 DEF Kernels
      <3> HIDE DEF E, P, n
      <3>4. n \in Kernels /\ n.envs = E /\ n.faulted = z.faulted
            /\ n.env_free_list = z.env_free_list /\ n.curenv = z.curenv
        BY <2>6, <3>1, <3>2, <3>3 DEF Kernels
      <3> QED
        BY <3>4 DEF E
    <2> HIDE DEF n
    <2>8. vm.m = n /\ vm.r = 0
      BY <2>1
    <2> QED
      BY <2>2, <2>6, <2>7, <2>8 DEF SameEnvs, vm
  <1> QED
    BY <1>1, <1>2

(* env_alloc() gives the first free Env away, or does nothing and says so. *)
LEMMA EnvAllocStep ==
    ASSUME NEW ks \in Kernels, EnvTable(ks), NEW parent_id \in 0 .. IdMax
    PROVE  LET res == env_alloc(ks, parent_id)
           IN  \/ res.r < 0 /\ res.m = ks
               \/ res.r = 0 /\ GivesEnv(ks, res.m, res.e, parent_id)
  <1> DEFINE e   == ks.env_free_list
             vm  == env_setup_vm(ks, e)
             n   == [vm.m EXCEPT !.envs[e].env_id = NextEnvId(ks.envs[e].env_id, e),
                                 !.envs[e].env_parent_id = parent_id,
                                 !.envs[e].env_status = "ENV_RUNNABLE",
                                 !.env_free_list = ks.envs[e].env_link]
             res == env_alloc(ks, parent_id)
  <1>1. res = IF e = NULL THEN [m |-> ks, e |-> NULL, r |-> -E_NO_FREE_ENV]
              ELSE IF vm.r < 0 THEN [m |-> vm.m, e |-> NULL, r |-> vm.r]
              ELSE [m |-> n, e |-> e, r |-> 0]
    BY DEF env_alloc
  <1>2. CASE e = NULL
    <2>1. res = [m |-> ks, e |-> NULL, r |-> -E_NO_FREE_ENV]
      BY <1>1, <1>2
    <2> HIDE DEF res
    <2>2. res.m = ks /\ res.r = -E_NO_FREE_ENV
      BY <2>1
    <2> QED
      BY <2>2 DEF res, E_NO_FREE_ENV
  <1>3. CASE e # NULL
    <2>1. e \in EnvIdx /\ e \notin Live(ks)
      BY <1>3, TableUse
    <2>2. \/ vm.r = -E_NO_MEM /\ vm.m = ks
          \/ \E d \in Page :
                /\ vm.r = 0 /\ vm.m \in Kernels
                /\ vm.m.faulted = ks.faulted
                /\ vm.m.envs = [ks.envs EXCEPT ![e].env_pgdir = d]
                /\ vm.m.env_free_list = ks.env_free_list /\ vm.m.curenv = ks.curenv
      BY <2>1, SetupStep
    <2> HIDE DEF vm, res
    <2>3. CASE vm.r = -E_NO_MEM /\ vm.m = ks
      <3>1. res = [m |-> ks, e |-> NULL, r |-> vm.r] /\ vm.r < 0
        BY <1>1, <1>3, <2>3 DEF E_NO_MEM
      <3> QED
        BY <3>1 DEF res
    <2>4. CASE ~(vm.r = -E_NO_MEM /\ vm.m = ks)
      <3>1. PICK d \in Page :
                /\ vm.r = 0 /\ vm.m \in Kernels
                /\ vm.m.faulted = ks.faulted
                /\ vm.m.envs = [ks.envs EXCEPT ![e].env_pgdir = d]
                /\ vm.m.env_free_list = ks.env_free_list /\ vm.m.curenv = ks.curenv
        BY <2>2, <2>4
      <3>2. res.m = n /\ res.e = e /\ res.r = 0
        BY <1>1, <1>3, <3>1
      <3>3. NextEnvId(ks.envs[e].env_id, e) \in 0 .. IdMax
        <4>1. ks.envs[e].env_id \in 0 .. IdMax
          BY <2>1 DEF Kernels, EnvRecord
        <4>2. ks.envs[e].env_id = 0 \/ ENVX(ks.envs[e].env_id) = e
          BY <2>1 DEF EnvTable
        <4>3. NextEnvId(ks.envs[e].env_id, e) \in 1 .. IdMax
          BY <2>1, <4>1, <4>2, IdOf
        <4> QED
          BY <4>3
      <3>4. ks.envs \in [EnvIdx -> EnvRecord] /\ ks.envs[e].env_link \in EnvIdx \cup {NULL}
        BY <2>1 DEF Kernels, EnvRecord
      <3>5. vm.m.envs[e].env_pgdir = d
        BY <2>1, <3>1, <3>4 DEF EnvRecord
      <3> DEFINE id == NextEnvId(ks.envs[e].env_id, e)
                 l  == ks.envs[e].env_link
      <3> HIDE DEF id, l, e
      <3>6. n = [vm.m EXCEPT !.envs = [vm.m.envs EXCEPT ![e].env_id = id,
                                          ![e].env_parent_id = parent_id,
                                          ![e].env_status = "ENV_RUNNABLE"],
                             !.env_free_list = l]
        BY <2>1, <3>1 DEF Kernels, id, l
      <3> DEFINE a == [vm.m.envs EXCEPT ![e].env_id = id,
                                        ![e].env_parent_id = parent_id,
                                        ![e].env_status = "ENV_RUNNABLE"]
      <3>7. /\ a \in [EnvIdx -> EnvRecord]
            /\ a[e].env_status = "ENV_RUNNABLE" /\ a[e].env_pgdir = d /\ a[e].env_id = id
            /\ \A i \in EnvIdx : i # e => a[i] = vm.m.envs[i]
        <4>1. vm.m.envs \in [EnvIdx -> EnvRecord]
          BY <3>1 DEF Kernels
        <4>2. id \in 0 .. IdMax /\ "ENV_RUNNABLE" \in Status
          BY <3>3 DEF id, Status
        <4> QED
          BY <2>1, <3>5, <4>1, <4>2, SMTT(20) DEF EnvRecord
      <3> HIDE DEF a, n
      <3>8. /\ n \in Kernels /\ n.faulted = vm.m.faulted /\ n.envs = a
            /\ n.env_free_list = l /\ n.curenv = vm.m.curenv
        <4>1. l \in EnvIdx \cup {NULL}
          BY <3>4 DEF l
        <4>2. n = [vm.m EXCEPT !.envs = a, !.env_free_list = l]
          BY <3>6 DEF a
        <4> QED
          BY <3>1, <3>7, <4>1, <4>2 DEF Kernels
      <3>9. \A i \in EnvIdx : i # e => a[i] = ks.envs[i]
        BY <2>1, <3>1, <3>4, <3>7
      <3>10. GivesEnv(ks, n, e, parent_id)
        BY <2>1, <3>1, <3>7, <3>8, <3>9 DEF GivesEnv, id, l, e
      <3> QED
        BY <3>2, <3>10 DEF res, e
    <2> QED
      BY <2>3, <2>4
  <1> QED
    BY <1>2, <1>3

(* The ids forgotten when slot e of the state k is given away. *)
StillPast(ks, gone, e) ==
    {id \in gone : ~(ENVX(id) = e /\ ks.envs[e].env_id + GenStep > IdMax)}

(* The table of environments when one was given away. *)
LEMMA GivenTable ==
    ASSUME NEW ks \in Kernels, EnvTable(ks), NEW gone, PastIds(ks, gone),
           NEW m, NEW e, NEW parent_id, GivesEnv(ks, m, e, parent_id)
    PROVE  EnvTable(m) /\ PastIds(m, StillPast(ks, gone, e)) /\ e \in Live(m)
  <1>0. /\ ks.envs \in [EnvIdx -> EnvRecord] /\ m.envs \in [EnvIdx -> EnvRecord]
        /\ e = ks.env_free_list /\ e \in EnvIdx /\ e # NULL
    BY EnvAssumption DEF GivesEnv, Kernels, EnvIdx
  <1>1. e \notin Live(ks) /\ ks.curenv # e
    BY <1>0, TableUse
  <1>2. Live(m) = Live(ks) \cup {e}
    BY <1>0 DEF GivesEnv, Live
  <1>3. EnvIdx \ Live(m) = (EnvIdx \ Live(ks)) \ {e}
    BY <1>2
  <1>4. SomeFreeList(EnvList(m), EnvIdx \ Live(m))
    <2> DEFINE l1 == EnvList(ks)
               l2 == EnvList(m)
               F  == EnvIdx \ Live(ks)
    <2>1. /\ l1.page_free_list = e /\ l2.page_free_list = ks.envs[e].env_link
          /\ \A i \in EnvIdx : l1.pp_link[i] = ks.envs[i].env_link /\ l2.pp_link[i] = m.envs[i].env_link
      BY <1>0 DEF EnvList, GivesEnv
    <2>2. \A i \in EnvIdx : i # e => m.envs[i] = ks.envs[i]
      BY DEF GivesEnv
    <2>3. SomeFreeList(l1, F)
      BY DEF EnvTable
    <2> HIDE DEF l1, l2
    <2>4. l2.page_free_list = l1.pp_link[l1.page_free_list]
      BY <1>0, <2>1
    <2>5. \A i \in F \ {e} : l2.pp_link[i] = l1.pp_link[i]
      BY <2>1, <2>2
    <2> HIDE DEF F
    <2>6. SomeFreeList(l2, F \ {l1.page_free_list})
      BY <1>0, <2>1, <2>3, <2>4, <2>5, ListPop
    <2> QED
      BY <1>3, <2>1, <2>6 DEF F, l2
  <1>5. /\ ks.envs[e].env_id \in 0 .. IdMax /\ m.envs[e].env_id \in 1 .. IdMax
        /\ ENVX(m.envs[e].env_id) = e
        /\ ks.envs[e].env_id + GenStep <= IdMax => ks.envs[e].env_id < m.envs[e].env_id
    <2>1. ks.envs[e].env_id \in 0 .. IdMax
      BY <1>0 DEF EnvRecord
    <2>2. ks.envs[e].env_id = 0 \/ ENVX(ks.envs[e].env_id) = e
      BY <1>0 DEF EnvTable
    <2> QED
      BY <1>0, <2>1, <2>2, IdOf DEF GivesEnv
  <1>6. ASSUME NEW i \in EnvIdx
        PROVE  /\ m.envs[i].env_id = 0 \/ ENVX(m.envs[i].env_id) = i
               /\ i \in Live(m) => m.envs[i].env_id # 0 /\ m.envs[i].env_pgdir \in Page
               /\ m.envs[i].env_status = "ENV_RUNNING" <=> m.curenv = i
    <2>1. CASE i = e
      BY <1>0, <1>1, <1>5, <2>1 DEF GivesEnv
    <2>2. CASE i # e
      <3>1. m.envs[i] = ks.envs[i] /\ m.curenv = ks.curenv /\ (i \in Live(m) <=> i \in Live(ks))
        BY <1>2, <2>2 DEF GivesEnv
      <3> QED
        BY <3>1 DEF EnvTable
    <2> QED
      BY <2>1, <2>2
  <1>7. EnvTable(m)
    BY <1>4, <1>6 DEF EnvTable
  <1>8. ASSUME NEW id \in StillPast(ks, gone, e)
        PROVE  id \in 1 .. IdMax /\ id <= m.envs[ENVX(id)].env_id
               /\ (ENVX(id) \in Live(m) => id # m.envs[ENVX(id)].env_id)
    <2>1. /\ id \in 1 .. IdMax /\ id <= ks.envs[ENVX(id)].env_id
          /\ ENVX(id) \in Live(ks) => id # ks.envs[ENVX(id)].env_id
          /\ ENVX(id) \in EnvIdx
      <3>1. id \in gone
        BY DEF StillPast
      <3>2. id \in 1 .. IdMax
        BY <3>1 DEF PastIds
      <3>3. ENVX(id) \in EnvIdx
        BY <3>2, Generation
      <3> QED
        BY <3>1, <3>2, <3>3 DEF PastIds
    <2>2. CASE ENVX(id) = e
      <3>1. ks.envs[e].env_id + GenStep <= IdMax
        <4>1. ~(ks.envs[e].env_id + GenStep > IdMax)
          BY <2>2 DEF StillPast
        <4> QED
          BY <1>5, <4>1, EnvAssumption
      <3> QED
        BY <1>5, <2>1, <2>2, <3>1
    <2>3. CASE ENVX(id) # e
      <3>1. m.envs[ENVX(id)] = ks.envs[ENVX(id)] /\ (ENVX(id) \in Live(m) <=> ENVX(id) \in Live(ks))
        BY <1>2, <2>1, <2>3 DEF GivesEnv
      <3> QED
        BY <2>1, <3>1
    <2> QED
      BY <2>2, <2>3
  <1>9. PastIds(m, StillPast(ks, gone, e))
    BY <1>8 DEF PastIds
  <1> QED
    BY <1>2, <1>7, <1>9

(* What env_free() has done when it took the Env e back. *)
TakesEnv(ks, m, e) ==
    /\ m \in Kernels
    /\ m.envs[e].env_status = "ENV_FREE" /\ m.envs[e].env_link = ks.env_free_list
    /\ m.envs[e].env_id = ks.envs[e].env_id /\ m.envs[e].env_pgdir = NULL
    /\ \A i \in EnvIdx : i # e => m.envs[i] = ks.envs[i]
    /\ m.env_free_list = e /\ m.curenv = ks.curenv

(* env_free() takes the Env back. *)
LEMMA EnvFreeStep ==
    ASSUME NEW ks \in Kernels, EnvTable(ks), NEW e \in Live(ks)
    PROVE  TakesEnv(ks, env_free(ks, e), e)
  <1> DEFINE away == IF e = ks.curenv THEN lcr3(ks, kern_pgdir) ELSE ks
             s == TableLoop(away, e)
             d == s.envs[e].env_pgdir
             c == [s EXCEPT !.envs[e].env_pgdir = NULL]
             f == page_decref(c, d)
             n == [f EXCEPT !.envs[e].env_status = "ENV_FREE",
                            !.envs[e].env_link = ks.env_free_list,
                            !.env_free_list = e]
  <1>0. /\ e \in EnvIdx /\ ks.envs \in [EnvIdx -> EnvRecord] /\ ks.envs[e] \in EnvRecord
        /\ ks.envs[e].env_pgdir \in Page
        /\ ks.env_free_list \in EnvIdx \cup {NULL}
    BY DEF Live, EnvTable, Kernels
  <1>1. env_free(ks, e) = n
    BY DEF env_free, TableLoop
  <1>2. away \in Kernels /\ SameEnvs(ks, away)
    <2>1. kern_pgdir \in Page
      BY KernPgdir
    <2>2. MemStep(ks, lcr3(ks, kern_pgdir))
      BY <2>1, Lcr3Step
    <2> QED
      BY <2>2 DEF MemStep, SameEnvs
  <1> HIDE DEF away
  <1>3. s \in Kernels /\ SameEnvs(ks, s)
    <2>1. away.envs[e].env_pgdir \in Page
      BY <1>0, <1>2 DEF SameEnvs
    <2>2. PICK g : Starts(g, away, UTopSlot) /\ s = g[UTopSlot]
      BY <1>0, <1>2, <2>1, TableRun
    <2>3. s \in Like(away)
      BY <2>2, SlotAssumption DEF Starts
    <2> QED
      BY <1>2, <2>3 DEF Like, SameEnvs
  <1> HIDE DEF s
  <1>4. d \in Page /\ s.envs = ks.envs
    BY <1>0, <1>3 DEF SameEnvs
  <1> DEFINE r == [ks.envs[e] EXCEPT !.env_pgdir = NULL]
             E == [ks.envs EXCEPT ![e] = r]
  <1>5. r \in EnvRecord /\ E \in [EnvIdx -> EnvRecord] /\ E[e] = r
        /\ r.env_id = ks.envs[e].env_id /\ r.env_pgdir = NULL
        /\ \A i \in EnvIdx : i # e => E[i] = ks.envs[i]
    <2>1. r \in EnvRecord /\ r.env_id = ks.envs[e].env_id /\ r.env_pgdir = NULL
      BY <1>0 DEF EnvRecord, PageOrNull
    <2> HIDE DEF r
    <2> QED
      BY <1>0, <2>1
  <1>6. c = [s EXCEPT !.envs = E]
    BY <1>0, <1>3, <1>4 DEF Kernels
  <1> HIDE DEF r, E, c
  <1>7. /\ c \in Kernels /\ c.envs = E
        /\ c.env_free_list = ks.env_free_list /\ c.curenv = ks.curenv
    BY <1>3, <1>5, <1>6 DEF Kernels, SameEnvs
  <1> HIDE DEF d
  <1>8. f \in Kernels /\ f.envs = E /\ f.curenv = ks.curenv
    <2>1. MemStep(c, f)
      BY <1>4, <1>7, DecrefStep
    <2> QED
      BY <1>7, <2>1 DEF MemStep, SameEnvs
  <1> HIDE DEF f
  <1> DEFINE l == ks.env_free_list
             r2 == [r EXCEPT !.env_status = "ENV_FREE", !.env_link = l]
             E2 == [E EXCEPT ![e] = r2]
  <1>9. n = [f EXCEPT !.envs = E2, !.env_free_list = e]
    BY <1>0, <1>5, <1>8 DEF Kernels
  <1>10. /\ r2 \in EnvRecord /\ r2.env_status = "ENV_FREE" /\ r2.env_link = l
         /\ r2.env_id = ks.envs[e].env_id /\ r2.env_pgdir = NULL
    <2>1. l \in EnvIdx \cup {NULL} /\ "ENV_FREE" \in Status
      BY <1>0 DEF Status
    <2> HIDE DEF l
    <2> QED
      BY <1>5, <2>1 DEF EnvRecord
  <1> HIDE DEF r2, n
  <1>11. /\ E2 \in [EnvIdx -> EnvRecord] /\ E2[e] = r2
         /\ \A i \in EnvIdx : i # e => E2[i] = ks.envs[i]
    BY <1>0, <1>5, <1>10
  <1> HIDE DEF E2
  <1>12. n \in Kernels /\ n.envs = E2 /\ n.env_free_list = e /\ n.curenv = ks.curenv
    BY <1>0, <1>8, <1>9, <1>11 DEF Kernels
  <1>13. TakesEnv(ks, n, e)
    BY <1>10, <1>11, <1>12 DEF TakesEnv, l
  <1> QED
    BY <1>1, <1>13

(* The table of environments when one was taken back: its id is past. *)
LEMMA TakenTable ==
    ASSUME NEW ks \in Kernels, EnvTable(ks), NEW gone, PastIds(ks, gone),
           NEW e \in Live(ks), NEW f, TakesEnv(ks, f, e),
           NEW m, m = IF e = ks.curenv THEN [f EXCEPT !.curenv = NULL] ELSE f
    PROVE  m \in Kernels /\ EnvTable(m) /\ PastIds(m, gone \cup {ks.envs[e].env_id})
  <1>0. /\ ks.envs \in [EnvIdx -> EnvRecord] /\ e \in EnvIdx /\ NULL \notin EnvIdx
        /\ ks.envs[e].env_status # "ENV_FREE"
    BY EnvAssumption DEF Kernels, Live, EnvIdx
  <1>1. /\ m \in Kernels /\ m.envs = f.envs /\ m.env_free_list = f.env_free_list
        /\ m.curenv = IF e = ks.curenv THEN NULL ELSE ks.curenv
    BY DEF TakesEnv, Kernels
  <1>2. /\ m.envs[e].env_status = "ENV_FREE" /\ m.envs[e].env_link = ks.env_free_list
        /\ m.envs[e].env_id = ks.envs[e].env_id
        /\ \A i \in EnvIdx : i # e => m.envs[i] = ks.envs[i]
        /\ m.env_free_list = e
    BY <1>1 DEF TakesEnv
  <1>3. Live(m) = Live(ks) \ {e}
    BY <1>0, <1>2 DEF Live
  <1>4. SomeFreeList(EnvList(m), EnvIdx \ Live(m))
    <2> DEFINE l1 == EnvList(ks)
               l2 == EnvList(m)
               F  == EnvIdx \ Live(ks)
    <2>1. /\ l1.page_free_list = ks.env_free_list /\ l2.page_free_list = e
          /\ \A i \in EnvIdx : l1.pp_link[i] = ks.envs[i].env_link /\ l2.pp_link[i] = m.envs[i].env_link
      BY <1>2 DEF EnvList
    <2>2. SomeFreeList(l1, F)
      BY DEF EnvTable
    <2> HIDE DEF l1, l2
    <2>3. e \notin F /\ \A i \in F : l2.pp_link[i] = l1.pp_link[i]
      BY <1>2, <2>1
    <2>4. l2.pp_link[e] = l1.page_free_list
      BY <1>0, <1>2, <2>1
    <2> HIDE DEF F
    <2>5. SomeFreeList(l2, F \cup {e})
      BY <2>1, <2>2, <2>3, <2>4, ListPush
    <2>6. F \cup {e} = EnvIdx \ Live(m)
      BY <1>0, <1>3 DEF F
    <2> QED
      BY <2>5, <2>6 DEF l2
  <1>5. ASSUME NEW i \in EnvIdx
        PROVE  /\ m.envs[i].env_id = 0 \/ ENVX(m.envs[i].env_id) = i
               /\ i \in Live(m) => m.envs[i].env_id # 0 /\ m.envs[i].env_pgdir \in Page
               /\ m.envs[i].env_status = "ENV_RUNNING" <=> m.curenv = i
    <2>1. /\ ks.envs[i].env_id = 0 \/ ENVX(ks.envs[i].env_id) = i
          /\ i \in Live(ks) => ks.envs[i].env_id # 0 /\ ks.envs[i].env_pgdir \in Page
          /\ ks.envs[i].env_status = "ENV_RUNNING" <=> ks.curenv = i
      BY DEF EnvTable
    <2>2. CASE i = e
      BY <1>0, <1>1, <1>2, <1>3, <2>1, <2>2
    <2>3. CASE i # e
      <3>1. m.envs[i] = ks.envs[i] /\ (i \in Live(m) <=> i \in Live(ks))
        BY <1>2, <1>3, <2>3
      <3>2. m.curenv = i <=> ks.curenv = i
        BY <1>0, <1>1, <2>3
      <3> QED
        BY <2>1, <3>1, <3>2
    <2> QED
      BY <2>2, <2>3
  <1>6. EnvTable(m)
    BY <1>4, <1>5 DEF EnvTable
  <1>7. \A i \in EnvIdx : m.envs[i].env_id = ks.envs[i].env_id
    BY <1>2
  <1>8. /\ ks.envs[e].env_id \in 1 .. IdMax /\ ENVX(ks.envs[e].env_id) = e
    <2>1. ks.envs[e].env_id \in 0 .. IdMax
      BY <1>0 DEF EnvRecord
    <2>2. ks.envs[e].env_id # 0 /\ ENVX(ks.envs[e].env_id) = e
      BY <1>0 DEF EnvTable
    <2> QED
      BY <2>1, <2>2, EnvAssumption
  <1>9. ASSUME NEW id \in gone \cup {ks.envs[e].env_id}
        PROVE  id \in 1 .. IdMax /\ id <= m.envs[ENVX(id)].env_id
               /\ (ENVX(id) \in Live(m) => id # m.envs[ENVX(id)].env_id)
    <2>1. CASE id = ks.envs[e].env_id
      BY <1>2, <1>3, <1>8, <2>1
    <2>2. CASE id \in gone
      <3>1. /\ id \in 1 .. IdMax /\ id <= ks.envs[ENVX(id)].env_id
            /\ ENVX(id) \in Live(ks) => id # ks.envs[ENVX(id)].env_id
        BY <2>2 DEF PastIds
      <3>2. ENVX(id) \in EnvIdx
        BY <3>1, Generation
      <3> QED
        BY <1>3, <1>7, <3>1, <3>2
    <2> QED
      BY <2>1, <2>2
  <1>10. PastIds(m, gone \cup {ks.envs[e].env_id})
    BY <1>9 DEF PastIds
  <1> QED
    BY <1>1, <1>6, <1>10

-----------------------------------------------------------------------------
(* env_run() makes e the running environment. *)
LEMMA EnvRunStep ==
    ASSUME NEW ks \in Kernels, EnvTable(ks), NEW gone, PastIds(ks, gone), NEW e \in Live(ks)
    PROVE  LET m == env_run(ks, e)
           IN  /\ m \in Kernels /\ EnvTable(m) /\ PastIds(m, gone)
               /\ m.curenv = e /\ Live(m) = Live(ks)
               /\ m.panicked = ks.panicked /\ m.faulted = ks.faulted
  <1> DEFINE c   == ks.curenv
             put == IF c = NULL THEN ks ELSE [ks EXCEPT !.envs[c].env_status = "ENV_RUNNABLE"]
             on  == [put EXCEPT !.curenv = e, !.envs[e].env_status = "ENV_RUNNING"]
             m   == env_run(ks, e)
             d   == ks.envs[e].env_pgdir
  <1>0. /\ ks.envs \in [EnvIdx -> EnvRecord] /\ e \in EnvIdx /\ NULL \notin EnvIdx
        /\ ks.envs[e].env_pgdir \in Page /\ ks.envs[e].env_status # "ENV_FREE"
        /\ c # NULL => c \in EnvIdx /\ ks.envs[c].env_status = "ENV_RUNNING"
        /\ c \in EnvIdx \cup {NULL}
        /\ "ENV_RUNNING" \in Status /\ "ENV_RUNNABLE" \in Status
    BY EnvAssumption DEF Kernels, Live, EnvIdx, EnvTable, Status
  <1>1. m = lcr3(on, d)
    BY DEF env_run
  <1> DEFINE r1(i) == IF i = c THEN [ks.envs[i] EXCEPT !.env_status = "ENV_RUNNABLE"] ELSE ks.envs[i]
             E1    == [i \in EnvIdx |-> r1(i)]
             r2(i) == IF i = e THEN [r1(i) EXCEPT !.env_status = "ENV_RUNNING"] ELSE r1(i)
             E2    == [i \in EnvIdx |-> r2(i)]
  <1>2. ASSUME NEW i \in EnvIdx
        PROVE  /\ r2(i) \in EnvRecord
               /\ r2(i).env_id = ks.envs[i].env_id /\ r2(i).env_link = ks.envs[i].env_link
               /\ r2(i).env_pgdir = ks.envs[i].env_pgdir
               /\ r2(i).env_status = IF i = e THEN "ENV_RUNNING" ELSE
                                     IF i = c THEN "ENV_RUNNABLE" ELSE ks.envs[i].env_status
    <2>1. ks.envs[i] \in EnvRecord
      BY <1>0
    <2>2. /\ r1(i) \in EnvRecord
          /\ r1(i).env_id = ks.envs[i].env_id /\ r1(i).env_link = ks.envs[i].env_link
          /\ r1(i).env_pgdir = ks.envs[i].env_pgdir
          /\ r1(i).env_status = IF i = c THEN "ENV_RUNNABLE" ELSE ks.envs[i].env_status
      BY <1>0, <2>1 DEF EnvRecord
    <2> HIDE DEF r1
    <2> QED
      BY <1>0, <2>2 DEF EnvRecord
  <1>3. put \in Kernels /\ put = [ks EXCEPT !.envs = E1]
    <2>1. E1 \in [EnvIdx -> EnvRecord]
      BY <1>0 DEF EnvRecord
    <2>2. put = [ks EXCEPT !.envs = E1]
      <3>1. CASE c = NULL
        <4>1. E1 = ks.envs
          BY <1>0, <3>1
        <4> QED
          BY <3>1, <4>1 DEF Kernels
      <3>2. CASE c # NULL
        <4>1. [ks.envs EXCEPT ![c].env_status = "ENV_RUNNABLE"] = E1
          BY <1>0
        <4> QED
          BY <3>2, <4>1 DEF Kernels
      <3> QED
        BY <3>1, <3>2
    <2> HIDE DEF E1
    <2> QED
      BY <2>1, <2>2 DEF Kernels
  <1>4. on = [ks EXCEPT !.envs = E2, !.curenv = e]
    <2>1. put.envs = E1
      BY <1>3 DEF Kernels
    <2> HIDE DEF put
    <2>2. on = [put EXCEPT !.envs = [put.envs EXCEPT ![e].env_status = "ENV_RUNNING"], !.curenv = e]
      <3>1. ASSUME NEW P \in Kernels
            PROVE  [P EXCEPT !.curenv = e, !.envs[e].env_status = "ENV_RUNNING"]
                      = [P EXCEPT !.envs = [P.envs EXCEPT ![e].env_status = "ENV_RUNNING"], !.curenv = e]
        BY DEF Kernels
      <3>2. put \in Kernels
        BY <1>3
      <3> QED
        BY <3>1, <3>2
    <2>3. [put.envs EXCEPT ![e].env_status = "ENV_RUNNING"] = E2
      <3>1. \A i \in EnvIdx : E1[i] = r1(i)
        OBVIOUS
      <3> HIDE DEF r1
      <3> QED
        BY <1>0, <2>1, <3>1
    <2> HIDE DEF E1, E2
    <2> QED
      BY <1>3, <2>2, <2>3 DEF Kernels
  <1>5. E2 \in [EnvIdx -> EnvRecord] /\ \A i \in EnvIdx : E2[i] = r2(i)
    <2> HIDE DEF r2
    <2> QED
      BY <1>2
  <1> HIDE DEF E2, put, on, m
  <1>6. on \in Kernels /\ on.envs = E2 /\ on.curenv = e /\ on.env_free_list = ks.env_free_list
    BY <1>0, <1>4, <1>5 DEF Kernels
  <1>7. MemStep(on, m)
    BY <1>0, <1>1, <1>6, Lcr3Step
  <1>8. /\ m \in Kernels /\ m.curenv = e /\ m.env_free_list = ks.env_free_list
        /\ \A i \in EnvIdx : m.envs[i] = r2(i)
    BY <1>5, <1>6, <1>7 DEF MemStep, SameEnvs
  <1> HIDE DEF r2
  <1>9. Live(m) = Live(ks)
    BY <1>0, <1>2, <1>8 DEF Live
  <1>10. EnvList(m) = EnvList(ks)
    BY <1>2, <1>8 DEF EnvList
  <1>11. EnvTable(m)
    <2>1. SomeFreeList(EnvList(m), EnvIdx \ Live(m))
      BY <1>9, <1>10 DEF EnvTable
    <2>2. ASSUME NEW i \in EnvIdx
          PROVE  /\ m.envs[i].env_id = 0 \/ ENVX(m.envs[i].env_id) = i
                 /\ i \in Live(m) => m.envs[i].env_id # 0 /\ m.envs[i].env_pgdir \in Page
                 /\ m.envs[i].env_status = "ENV_RUNNING" <=> m.curenv = i
      <3>1. /\ m.envs[i].env_id = ks.envs[i].env_id /\ m.envs[i].env_pgdir = ks.envs[i].env_pgdir
            /\ m.envs[i].env_status = IF i = e THEN "ENV_RUNNING" ELSE
                                      IF i = c THEN "ENV_RUNNABLE" ELSE ks.envs[i].env_status
        BY <1>2, <1>8
      <3>2. /\ ks.envs[i].env_id = 0 \/ ENVX(ks.envs[i].env_id) = i
            /\ i \in Live(ks) => ks.envs[i].env_id # 0 /\ ks.envs[i].env_pgdir \in Page
            /\ ks.envs[i].env_status = "ENV_RUNNING" <=> c = i
        BY DEF EnvTable
      <3> QED
        BY <1>8, <1>9, <3>1, <3>2
    <2> QED
      BY <2>1, <2>2 DEF EnvTable
  <1>12. PastIds(m, gone)
    <2>1. ASSUME NEW id \in gone PROVE m.envs[ENVX(id)].env_id = ks.envs[ENVX(id)].env_id
      <3>1. gone \subseteq 1 .. IdMax /\ IdMax \in Nat
        BY EnvAssumption DEF PastIds
      <3>2. id \in Int
        BY <2>1, <3>1
      <3>3. ENVX(id) \in EnvIdx
        BY <3>2, Generation
      <3> QED
        BY <1>2, <1>8, <3>3
    <2> QED
      BY <1>9, <2>1 DEF PastIds
  <1>13. on.panicked = ks.panicked /\ on.faulted = ks.faulted
    BY <1>4, <1>5 DEF Kernels
  <1>14. m.panicked = ks.panicked /\ m.faulted = ks.faulted
    <2>1. m.panicked = on.panicked /\ m.faulted = on.faulted
      BY <1>1, <1>6 DEF lcr3, Kernels
    <2> QED
      BY <1>13, <2>1
  <1> QED
    BY <1>8, <1>9, <1>11, <1>12, <1>14 DEF m

(* Loading a stack stays within the states with the same environments. *)
LEMMA StackStep ==
    ASSUME NEW ks \in Kernels, NEW e \in EnvIdx, ks.envs[e].env_pgdir \in Page
    PROVE  load_stack(ks, e) \in Like(ks)
  <1> DEFINE p   == page_alloc_ret(ks)
             z   == page_alloc_zero(ks)
             res == page_insert(z, ks.envs[e].env_pgdir, p, StackVA, {"W", "U"})
             b   == [ks EXCEPT !.panicked = TRUE]
             c   == [res.m EXCEPT !.panicked = TRUE]
  <1>1. load_stack(ks, e) = IF Stopped(ks) THEN ks ELSE IF p = NULL THEN b
                            ELSE IF res.r < 0 THEN c ELSE res.m
    BY DEF load_stack
  <1>2. ks \in Like(ks) /\ b \in Like(ks)
    BY DEF Like, SameEnvs, Kernels
  <1>3. ASSUME p # NULL PROVE res.m \in Like(ks) /\ c \in Like(ks)
    <2>1. p \in Page
      BY <1>3 DEF Kernels, page_alloc_ret, PageOrNull
    <2>2. MemStep(ks, z)
      BY AllocZeroStep
    <2> HIDE DEF p, z
    <2>3. {"W", "U"} \in Perm /\ StackVA \in VA
      BY EnvAssumption, SlotAssumption DEF Perm, VA, UserSlot, Slot
    <2>4. MemStep(z, res.m)
      BY <2>1, <2>2, <2>3, InsertMemStep DEF MemStep
    <2> HIDE DEF res
    <2>5. res.m \in Like(ks)
      BY <2>2, <2>4 DEF MemStep, SameEnvs, Like
    <2> QED
      BY <2>5 DEF Like, SameEnvs, Kernels
  <1> HIDE DEF b, c, p, res
  <1> QED
    BY <1>1, <1>2, <1>3

(* The programs there can be. *)
Programs == Seq(Seq(UserSlot \X Slot))

(* load_icode() stays within these states. *)
LEMMA LoadStep ==
    ASSUME NEW ks \in Kernels, NEW e \in EnvIdx, ks.envs[e].env_pgdir \in Page,
           NEW binary \in Programs
    PROVE  load_icode(ks, e, binary) \in Like(ks)
  <1> DEFINE a == lcr3(ks, ks.envs[e].env_pgdir)
             s == SegmentLoop(a, e, binary)
             l == load_stack(s, e)
             b == lcr3(l, kern_pgdir)
  <1>1. load_icode(ks, e, binary) = IF Stopped(l) THEN l ELSE b
    BY DEF load_icode, SegmentLoop
  <1>2. a \in Like(ks)
    BY Lcr3Step DEF MemStep, Like
  <1> HIDE DEF a
  <1>3. s \in Like(ks)
    <2>1. a \in Kernels /\ a.envs[e].env_pgdir \in Page /\ binary \in Seq(Seq(UserSlot \X Slot))
      BY <1>2 DEF Like, SameEnvs, Programs
    <2>2. PICK g : Starts(g, a, Len(binary)) /\ s = g[Len(binary)]
      BY <2>1, SegmentRun
    <2>3. Len(binary) \in Nat
      BY <2>1
    <2>4. s \in Like(a)
      BY <2>2, <2>3 DEF Starts
    <2> QED
      BY <1>2, <2>4 DEF Like, SameEnvs
  <1> HIDE DEF s
  <1>4. l \in Like(ks)
    <2>1. s \in Kernels /\ s.envs[e].env_pgdir \in Page
      BY <1>3 DEF Like, SameEnvs
    <2>2. l \in Like(s)
      BY <2>1, StackStep
    <2> QED
      BY <1>3, <2>2 DEF Like, SameEnvs
  <1> HIDE DEF l
  <1>5. b \in Like(ks)
    <2>1. kern_pgdir \in Page
      BY KernPgdir
    <2>2. MemStep(l, b)
      BY <1>4, <2>1, Lcr3Step DEF Like
    <2> QED
      BY <1>4, <2>2 DEF Like, MemStep, SameEnvs
  <1> QED
    BY <1>1, <1>4, <1>5

(* env_create() leaves the environments as env_alloc() does. *)
LEMMA EnvCreateStep ==
    ASSUME NEW ks \in Kernels, EnvTable(ks), NEW gone, PastIds(ks, gone), NEW binary \in Programs
    PROVE  LET m == env_create(ks, binary)
           IN  /\ m \in Kernels /\ EnvTable(m) /\ m.curenv = ks.curenv
               /\ PastIds(m, StillPast(ks, gone, ks.env_free_list))
               /\ ks.env_free_list = NULL => PastIds(m, gone)
  <1> DEFINE res == env_alloc(ks, 0)
             m   == env_create(ks, binary)
             n   == load_icode(res.m, res.e, binary)
             b   == [res.m EXCEPT !.panicked = TRUE]
  <1>1. m = IF res.r < 0 THEN b ELSE n
    BY DEF env_create
  <1>2. \/ res.r < 0 /\ res.m = ks
        \/ res.r = 0 /\ GivesEnv(ks, res.m, res.e, 0)
    <2>1. 0 \in 0 .. IdMax
      BY EnvAssumption
    <2> QED
      BY <2>1, EnvAllocStep
  <1> HIDE DEF res, m
  <1>3. StillPast(ks, gone, ks.env_free_list) \subseteq gone
    BY DEF StillPast
  <1>4. CASE res.r < 0 /\ res.m = ks
    <2>1. b \in Kernels /\ SameEnvs(ks, b) /\ m = b
      BY <1>1, <1>4 DEF Kernels, SameEnvs
    <2> HIDE DEF b
    <2>2. EnvTable(m) /\ PastIds(m, gone) /\ m.curenv = ks.curenv
      BY <2>1, TableFrame DEF SameEnvs
    <2> QED
      BY <1>3, <2>1, <2>2 DEF PastIds, m
  <1>5. CASE res.r = 0 /\ GivesEnv(ks, res.m, res.e, 0)
    <2>1. /\ EnvTable(res.m) /\ PastIds(res.m, StillPast(ks, gone, ks.env_free_list))
          /\ res.e \in EnvIdx /\ res.m \in Kernels /\ res.m.envs[res.e].env_pgdir \in Page
          /\ res.e = ks.env_free_list
      BY <1>5, GivenTable DEF GivesEnv
    <2>2. n \in Like(res.m)
      BY <2>1, LoadStep
    <2>3. m = n
      BY <1>1, <1>5
    <2> HIDE DEF n
    <2>4. m \in Kernels /\ SameEnvs(res.m, m)
      BY <2>2, <2>3 DEF Like
    <2>5. EnvTable(m) /\ PastIds(m, StillPast(ks, gone, ks.env_free_list)) /\ m.curenv = ks.curenv
      BY <1>5, <2>1, <2>4, TableFrame DEF SameEnvs, GivesEnv
    <2>6. ks.env_free_list # NULL
      BY <2>1, EnvAssumption DEF EnvIdx
    <2> QED
      BY <2>4, <2>5, <2>6 DEF m
  <1> QED
    BY <1>2, <1>4, <1>5

-----------------------------------------------------------------------------
(* The memory mem_init() leaves, with any free list. *)
WithList(l, h) == [mem_init EXCEPT !.pp_link = l, !.page_free_list = h]

BootMem == {WithList(l, h) : l \in [Page -> PageOrNull], h \in PageOrNull}

(* Memory x.m after mem_init() when other kernel code has taken the pages  *)
(* x.pages.                                                                *)
BootState(x) ==
    /\ MemInv(x.m, {kern_pgdir}, x.pages, {})
    /\ x.m.pt = mem_init.pt /\ x.m.cr3 = kern_pgdir /\ x.m.tlb = {}
    /\ x.m.panicked = FALSE

BootStates == {x \in [m : BootMem, pages : SUBSET Page] : BootState(x)}

BootStep(x) ==
    [m     |-> page_alloc(x.m),
     pages |-> x.pages \cup ({page_alloc_ret(x.m)} \ {NULL})]

(* Taking a page leads from such a state to such a state. *)
LEMMA BootStepIn ==
    ASSUME NEW x \in BootStates
    PROVE  BootStep(x) \in BootStates
  <1> DEFINE m == x.m
             a == page_alloc(m)
             p == page_alloc_ret(m)
             n == x.pages \cup ({p} \ {NULL})
  <1>1. /\ m \in BootMem /\ x.pages \in SUBSET Page
        /\ MemInv(m, {kern_pgdir}, x.pages, {})
        /\ m.pt = mem_init.pt /\ m.cr3 = kern_pgdir /\ m.tlb = {}
        /\ m.panicked = FALSE
    BY DEF BootStates, BootState
  <1> HIDE DEF m
  <1>2. PICK l \in [Page -> PageOrNull], h \in PageOrNull :
            m = WithList(l, h)
    BY <1>1 DEF BootMem
  <1>3. DOMAIN mem_init = DOMAIN m /\ {"pp_link", "page_free_list"} \subseteq DOMAIN mem_init
    BY <1>1, <1>2 DEF MemInv, MemType, WithList
  <1>4. m.pp_link = l /\ m.page_free_list = h
    BY <1>2, <1>3 DEF WithList
  <1>5. a \in BootMem
    <2>1. CASE h = NULL
      <3>1. a = m
        BY <1>4, <2>1 DEF page_alloc
      <3> QED
        BY <1>1, <3>1
    <2>2. CASE h # NULL
      <3>1. a = [m EXCEPT !.pp_link[h] = NULL, !.page_free_list = l[h]]
        BY <1>4, <2>2 DEF page_alloc
      <3>2. a = WithList([l EXCEPT ![h] = NULL], l[h])
        BY <1>2, <1>3, <1>4, <3>1 DEF WithList
      <3>3. h \in Page /\ [l EXCEPT ![h] = NULL] \in [Page -> PageOrNull] /\ l[h] \in PageOrNull
        BY <2>2 DEF PageOrNull
      <3>4. \A x1 \in [Page -> PageOrNull], x2 \in PageOrNull : WithList(x1, x2) \in BootMem
        BY DEF BootMem
      <3> QED
        BY <3>2, <3>3, <3>4
    <2> QED
      BY <2>1, <2>2
  <1>6. /\ MemInv(a, {kern_pgdir}, n, {})
        /\ a.pt = m.pt /\ a.cr3 = m.cr3 /\ a.tlb = m.tlb
    BY <1>1, AllocInv
  <1>7. n \in SUBSET Page
    <2>1. p \in PageOrNull
      BY <1>1 DEF page_alloc_ret, MemInv, MemType
    <2> HIDE DEF p
    <2> QED
      BY <1>1, <2>1 DEF PageOrNull
  <1>8. a.panicked = m.panicked
    BY <1>1 DEF page_alloc, MemInv, MemType
  <1>9. BootStep(x) = [m |-> a, pages |-> n]
    BY DEF BootStep, m
  <1> HIDE DEF a, n
  <1> QED
    BY <1>1, <1>5, <1>6, <1>7, <1>8, <1>9 DEF BootStates, BootState

(* What mem_init() leaves is such a state, nothing taken. *)
LEMMA BootFirst == [m |-> mem_init, pages |-> {}] \in BootStates
  <1> DEFINE x == [m |-> mem_init, pages |-> {}]
  <1>1. x.m = mem_init /\ x.pages = {}
    OBVIOUS
  <1>2. mem_init \in BootMem
    <2>1. MemType(mem_init)
      BY MemInit DEF MemInv
    <2>2. \E w, t, i, e : mem_init = [w EXCEPT !.pt[t][i] = e]
      <3>1. \E w, t, i, e : mem_init = Store(w, PtePtr(t, i), e)
        <4> DEFINE pi == page_init
                   m0 == [pp_ref |-> pi.pp_ref, pp_link |-> pi.pp_link,
                          page_free_list |-> pi.page_free_list, panicked |-> pi.panicked,
                          pt |-> [p \in Page |-> ZeroPage], cr3 |-> kern_pgdir, tlb |-> {}]
                   m1 == Store(m0, PtePtr(kern_pgdir, UVPTSlot), [ppn |-> kern_pgdir, perm |-> {"U"}])
                   va == <<KernSlot, 0>>
                   w  == pgdir_walk(m1, kern_pgdir, va, TRUE)
                   e  == [ppn |-> 0, perm |-> {"W"}]
        <4>1. mem_init = Store(w.m, w.pte, e)
          BY DEF mem_init, boot_map_page
        <4> HIDE DEF w, e
        <4>2. Store(w.m, w.pte, e) = Store(w.m, PtePtr(w.pte[1], w.pte[2]), e)
          BY DEF Store, PtePtr
        <4> QED
          BY <4>1, <4>2
      <3> QED
        <4>1. PICK w, t, i, e : mem_init = Store(w, PtePtr(t, i), e)
          BY <3>1
        <4>2. PtePtr(t, i)[1] = t /\ PtePtr(t, i)[2] = i
          BY DEF PtePtr
        <4>3. mem_init = [w EXCEPT !.pt[t][i] = e]
          BY <4>1, <4>2 DEF Store
        <4> QED
          BY <4>3
    <2>3. mem_init = WithList(mem_init.pp_link, mem_init.page_free_list)
      <3>1. PICK w, t, i, e : mem_init = [w EXCEPT !.pt[t][i] = e]
        BY <2>2
      <3> QED
        BY <3>1 DEF WithList
    <2> QED
      BY <2>1, <2>3 DEF BootMem, MemType
  <1> HIDE DEF x
  <1>3. BootState(x)
    BY <1>1, MemInit DEF BootState
  <1>4. x \in [m : BootMem, pages : SUBSET Page]
    BY <1>2 DEF x
  <1> QED
    BY <1>3, <1>4 DEF BootStates, x

(* So is what the kernel's first steps leave. *)
LEMMA BootedState ==
    ASSUME NEW n \in Nat
    PROVE  BootState(Booted(n)) /\ Booted(n).pages \subseteq Page
  <1> DEFINE a     == [m |-> mem_init, pages |-> {}]
             f     == [y \in (1 .. n) \X BootStates |-> BootStep(y[2])]
             Is(h) == h = [i \in 0 .. n |-> IF i = 0 THEN a
                               ELSE BootStep(h[i - 1])]
             taken == CHOOSE h : Is(h)
  <1>1. Booted(n) = taken[n]
    BY DEF Booted, BootStep
  <1>2. a \in BootStates
    BY BootFirst
  <1> HIDE DEF a
  <1>3. /\ f \in [(1 .. n) \X BootStates -> BootStates]
        /\ \A i \in 1 .. n, x \in BootStates : f[<<i, x>>] = BootStep(x)
    BY BootStepIn
  <1> HIDE DEF f
  <1>4. PICK g : IsRun(g, n, BootStates, a, f)
    BY <1>2, <1>3, RunExists
  <1>5. g \in [0 .. n -> BootStates] /\ g[0] = a
    BY <1>4 DEF IsRun
  <1>6. ASSUME NEW i \in 1 .. n PROVE i - 1 \in 0 .. n /\ g[i] = BootStep(g[i - 1])
    <2>1. i - 1 \in 0 .. n /\ g[i - 1] \in BootStates
      BY <1>5
    <2> QED
      BY <1>3, <1>4, <2>1 DEF IsRun
  <1>7. Is(g)
    BY <1>5, <1>6
  <1>8. Is(taken)
    BY <1>7
  <1> HIDE DEF taken
  <1>9. taken[0] = a /\ \A i \in 1 .. n : taken[i] = BootStep(taken[i - 1])
    BY <1>8
  <1>10. taken[n] = g[n]
    <2>1. \A i \in 1 .. n : taken[i - 1] \in BootStates => taken[i] = f[<<i, taken[i - 1]>>]
      BY <1>3, <1>9
    <2> QED
      BY <1>4, <1>9, <2>1, RunUnique
  <1>11. Booted(n) \in BootStates
    BY <1>1, <1>5, <1>10
  <1> QED
    BY <1>11 DEF BootStates

(* env_init() frees all environments. *)
LEMMA EnvInitStep ==
    ASSUME NEW m, MemType(m), m.panicked = FALSE
    PROVE  LET k0 == env_init(m)
           IN  /\ k0 \in Kernels /\ EnvTable(k0) /\ PastIds(k0, {})
               /\ Live(k0) = {} /\ k0.curenv = NULL
               /\ k0.pp_ref = m.pp_ref /\ k0.pp_link = m.pp_link
               /\ k0.page_free_list = m.page_free_list /\ k0.panicked = m.panicked
               /\ k0.pt = m.pt /\ k0.cr3 = m.cr3 /\ k0.tlb = m.tlb
               /\ ~k0.faulted
  <1> DEFINE k0 == env_init(m)
             E  == [i \in EnvIdx |->
                       [env_id |-> 0, env_parent_id |-> 0, env_status |-> "ENV_FREE",
                        env_pgdir |-> NULL,
                        env_link |-> IF i = NENV - 1 THEN NULL ELSE i + 1]]
  <1>0. NENV \in Nat \ {0} /\ NULL \notin EnvIdx /\ IdMax \in Nat /\ 0 \in EnvIdx
    BY EnvAssumption DEF EnvIdx
  <1>1. /\ E \in [EnvIdx -> EnvRecord]
        /\ \A i \in EnvIdx : /\ E[i].env_id = 0 /\ E[i].env_status = "ENV_FREE"
                             /\ E[i].env_link = IF i = NENV - 1 THEN NULL ELSE i + 1
    <2>1. \A i \in EnvIdx : (IF i = NENV - 1 THEN NULL ELSE i + 1) \in EnvIdx \cup {NULL}
      BY <1>0 DEF EnvIdx
    <2>2. 0 \in 0 .. IdMax /\ "ENV_FREE" \in Status /\ NULL \in PageOrNull
      BY <1>0 DEF Status, PageOrNull
    <2> QED
      BY <2>1, <2>2 DEF EnvRecord
  <1>2. k0 = [pp_ref |-> m.pp_ref, pp_link |-> m.pp_link,
              page_free_list |-> m.page_free_list, panicked |-> m.panicked,
              pt |-> m.pt, cr3 |-> m.cr3, tlb |-> m.tlb,
              envs |-> E, env_free_list |-> 0, curenv |-> NULL, faulted |-> FALSE]
    BY DEF env_init
  <1> HIDE DEF E, k0
  <1>3. /\ k0.envs = E /\ k0.env_free_list = 0 /\ k0.curenv = NULL /\ ~k0.faulted
        /\ k0.pp_ref = m.pp_ref /\ k0.pp_link = m.pp_link
        /\ k0.page_free_list = m.page_free_list /\ k0.panicked = m.panicked
        /\ k0.pt = m.pt /\ k0.cr3 = m.cr3 /\ k0.tlb = m.tlb
    BY <1>2
  <1>4. k0 \in Kernels
    BY <1>0, <1>1, <1>2 DEF Kernels, MemType
  <1>5. Live(k0) = {}
    BY <1>1, <1>3 DEF Live
  <1>6. SomeFreeList(EnvList(k0), EnvIdx)
    <2> DEFINE l == EnvList(k0)
               s == [j \in 1 .. NENV |-> j - 1]
    <2>1. l.page_free_list = 0 /\ \A i \in EnvIdx : l.pp_link[i] = IF i = NENV - 1 THEN NULL ELSE i + 1
      BY <1>1, <1>3 DEF EnvList
    <2> HIDE DEF l
    <2>2. /\ s \in [1 .. NENV -> EnvIdx]
          /\ \A j \in 1 .. NENV : s[j] = j - 1
      BY <1>0 DEF EnvIdx
    <2>3. s[1] = 0 /\ 1 \in 1 .. NENV
      BY <1>0
    <2> HIDE DEF s
    <2>4. ASSUME NEW j \in 1 .. NENV PROVE l.pp_link[s[j]] = IF j = NENV THEN NULL ELSE s[j + 1]
      BY <1>0, <2>1, <2>2
    <2>5. \A p \in EnvIdx : \E j \in 1 .. NENV : s[j] = p
      <3> TAKE p \in EnvIdx
      <3>1. p + 1 \in 1 .. NENV /\ s[p + 1] = p
        BY <1>0, <2>2 DEF EnvIdx
      <3> QED
        BY <3>1
    <2>6. IsFreeList(l, EnvIdx, NENV, s)
      BY <1>0, <2>1, <2>2, <2>3, <2>4, <2>5 DEF IsFreeList
    <2> QED
      BY <1>0, <2>2, <2>6 DEF SomeFreeList, l
  <1>7. EnvTable(k0)
    <2>1. EnvIdx \ Live(k0) = EnvIdx
      BY <1>5
    <2> QED
      BY <1>0, <1>1, <1>3, <1>5, <1>6, <2>1 DEF EnvTable
  <1>8. PastIds(k0, {})
    BY DEF PastIds
  <1> QED
    BY <1>3, <1>4, <1>5, <1>7, <1>8 DEF k0

-----------------------------------------------------------------------------
(* The kernel's directory and those of the environments. *)
Dirs(D) == D \cup {kern_pgdir}

(* No page has two references. *)
Single(m, Ds) == \A p \in Page : \A r1, r2 \in Refs(m, Ds, p) : r1 = r2

(* The kernel's directory and page tables are as boot left them. *)
AsBooted(m) == \A x \in Kept(mem_init), s \in Slot : m.pt[x][s] = mem_init.pt[x][s]

(* Above UTOP a directory is the kernel's, but for UVPT. *)
KernCopy(m, D) ==
    \A d \in D, s \in Slot \ UserSlot :
        m.pt[d][s] = IF s = UVPTSlot THEN [ppn |-> d, perm |-> {"U"}] ELSE m.pt[kern_pgdir][s]

(* What is mapped below UTOP the directory entries leave to the user.      *)
UserPdes(m, D) == \A d \in D, s \in UserSlot : m.pt[d][s] # NULL => "U" \in m.pt[d][s].perm

(* Memory with the directories D of environments, each counted for its     *)
(* env_pgdir, when the pages W are in other hands.                         *)
Spaces(m, D, W) ==
    /\ MemInv(m, Dirs(D), W \cup D, D)
    /\ W \cap D = {}
    /\ \A p \in W : Refs(m, Dirs(D), p) = {}
    /\ Single(m, Dirs(D))
    /\ AsBooted(m) /\ KernCopy(m, D) /\ UserPdes(m, D)
    /\ m.cr3 \in Dirs(D) /\ Coherent(m)

(* The kernel's state is one of memory. *)
LEMMA KernelMem ==
    ASSUME NEW ks \in Kernels
    PROVE  MemType(ks)
  BY DEF Kernels, MemType

(* The pages of a space. *)
LEMMA SpaceFacts ==
    ASSUME NEW m, NEW D, NEW W, Spaces(m, D, W)
    PROVE  /\ MemType(m) /\ ~m.panicked
           /\ D \subseteq Page /\ W \subseteq Page /\ Dirs(D) \subseteq Page
           /\ Kept(m) = Kept(mem_init) /\ kern_pgdir \in Kept(m)
           /\ \A p \in W \cup D : p \notin Kept(m) /\ p # kern_pgdir
           /\ \A s \in Slot : m.pt[kern_pgdir][s] = mem_init.pt[kern_pgdir][s]
           /\ \A s \in UserSlot : m.pt[kern_pgdir][s] = NULL
  <1>1. MemInv(m, Dirs(D), W \cup D, D) /\ AsBooted(m)
    BY DEF Spaces
  <1>2. /\ MemType(m) /\ ~m.panicked /\ W \cup D \subseteq Page
        /\ (W \cup D) \cap Kept(m) = {}
    BY <1>1 DEF MemInv, Holders
  <1>3. kern_pgdir \in Page /\ kern_pgdir \in Kept(m) /\ kern_pgdir \in Kept(mem_init)
    BY KernPgdir DEF Kept
  <1>4. \A s \in Slot : m.pt[kern_pgdir][s] = mem_init.pt[kern_pgdir][s]
    BY <1>1, <1>3 DEF AsBooted
  <1>5. UserSlot \subseteq Slot
    BY SlotAssumption DEF UserSlot, Slot
  <1>6. Kept(m) = Kept(mem_init)
    <2>1. \A s \in Slot \ UserSlot : m.pt[kern_pgdir][s] = mem_init.pt[kern_pgdir][s]
      BY <1>4
    <2> QED
      BY <2>1, KernTablesFrame
  <1> QED
    BY <1>2, <1>3, <1>4, <1>5, <1>6, MemInit DEF Dirs

(* What the processor caches stays good as long as the translations it     *)
(* comes from do.                                                          *)
LEMMA CachedStays ==
    ASSUME NEW m1, NEW m2, MemType(m1), Coherent(m1), m2.cr3 = m1.cr3, m2.tlb \subseteq m1.tlb,
           \A t \in m2.tlb : Translate(m1, m1.cr3, t.va) # NULL
               => Translate(m2, m1.cr3, t.va) = Translate(m1, m1.cr3, t.va)
    PROVE  Coherent(m2)
  <1> SUFFICES ASSUME NEW t \in m2.tlb
               PROVE  Translate(m2, m2.cr3, t.va) = [ppn |-> t.ppn, perm |-> t.perm]
    BY DEF Coherent
  <1>1. t \in [va : VA, ppn : Page, perm : Perm]
    BY DEF MemType
  <1>2. t.ppn \in Page /\ t.perm \in Perm
    BY <1>1
  <1>3. Translate(m1, m1.cr3, t.va) = [ppn |-> t.ppn, perm |-> t.perm]
    BY DEF Coherent
  <1> DEFINE e == [ppn |-> t.ppn, perm |-> t.perm]
  <1>4. e # NULL
    BY <1>2, EntryOf
  <1> HIDE DEF e
  <1>5. Translate(m2, m1.cr3, t.va) = e
    BY <1>3, <1>4 DEF e
  <1> QED
    BY <1>5 DEF e

(* The space does not depend on what else there is in the record. *)
LEMMA SpaceFrame ==
    ASSUME NEW m1, NEW m2, NEW D, NEW W, Spaces(m1, D, W),
           MemType(m2), m2.panicked = m1.panicked,
           m2.pp_ref = m1.pp_ref, m2.pp_link = m1.pp_link,
           m2.page_free_list = m1.page_free_list, m2.pt = m1.pt,
           m2.cr3 \in Dirs(D), Coherent(m2)
    PROVE  Spaces(m2, D, W)
  <1>1. MemInv(m2, Dirs(D), W \cup D, D) /\ SameSpaces(m1, m2, Dirs(D))
    BY MemFrame DEF Spaces
  <1>2. \A p : Refs(m2, Dirs(D), p) = Refs(m1, Dirs(D), p)
    BY <1>1 DEF SameSpaces
  <1>3. Single(m2, Dirs(D)) /\ \A p \in W : Refs(m2, Dirs(D), p) = {}
    BY <1>2 DEF Spaces, Single
  <1>4. AsBooted(m2) /\ KernCopy(m2, D) /\ UserPdes(m2, D)
    BY DEF Spaces, AsBooted, KernCopy, UserPdes
  <1> QED
    BY <1>1, <1>3, <1>4 DEF Spaces

(* The cache of a processor that kept its directory and its pages. *)
LEMMA SameCache ==
    ASSUME NEW m1, NEW m2, MemType(m1), Coherent(m1), m2.cr3 = m1.cr3, m2.tlb = m1.tlb, m2.pt = m1.pt
    PROVE  Coherent(m2)
  BY DEF Coherent, Translate

(* A mapped page is referred to by its entry; it is no directory, no page  *)
(* table and no page of the kernel.                                        *)
LEMMA MappedPage ==
    ASSUME NEW m, NEW Ds, NEW H, NEW X, MemInv(m, Ds, H, X),
           NEW d \in Ds, NEW va \in UserSlot \X Slot,
           NEW e, e = Translate(m, d, va), e # NULL
    PROVE  /\ e \in Entry /\ e.ppn \in Page /\ Refs(m, Ds, e.ppn) # {}
           /\ e.ppn \notin Ds /\ e.ppn \notin Kept(m) /\ ~IsTable(m, Ds, e.ppn)
  <1> DEFINE s == va[1]
             i == va[2]
             t == m.pt[d][s].ppn
  <1>1. s \in UserSlot /\ i \in Slot
    OBVIOUS
  <1>2. m.pt[d][s] # NULL /\ e = m.pt[t][i]
    BY DEF Translate
  <1>3. t \in Page /\ IsTable(m, Ds, t) /\ t \notin Ds
    BY <1>1, <1>2, TableFacts
  <1> HIDE DEF s, i, t
  <1>4. e \in Entry
    BY <1>1, <1>2, <1>3 DEF MemInv, MemType
  <1>5. e.ppn \in Page
    BY <1>4 DEF Entry
  <1>6. <<t, i>> \in Refs(m, Ds, e.ppn)
    BY <1>1, <1>2, <1>3 DEF Refs, Names
  <1>7. e.ppn \notin Ds /\ e.ppn \notin Kept(m)
    BY <1>5, <1>6 DEF MemInv, Apart
  <1>8. ~IsTable(m, Ds, e.ppn)
    <2> SUFFICES ASSUME IsTable(m, Ds, e.ppn) PROVE FALSE
      OBVIOUS
    <2>1. PICK c \in Ds, y \in UserSlot : m.pt[c][y] # NULL /\ m.pt[c][y].ppn = e.ppn
      BY DEF IsTable, Names
    <2>2. Refs(m, Ds, e.ppn) = {<<c, y>>}
      BY <2>1, TableFacts
    <2>3. <<t, i>> = <<c, y>>
      BY <1>6, <2>2
    <2> QED
      BY <1>3, <2>3
  <1> QED
    BY <1>4, <1>5, <1>6, <1>7, <1>8

(* In a space it is in nobody else's hands either. *)
LEMMA MappedInSpace ==
    ASSUME NEW m, NEW D, NEW W, Spaces(m, D, W),
           NEW d \in Dirs(D), NEW va \in UserSlot \X Slot, NEW e, e = Translate(m, d, va), e # NULL
    PROVE  /\ e \in Entry /\ e.ppn \in Page
           /\ e.ppn \notin Dirs(D) /\ e.ppn \notin W \cup D /\ e.ppn \notin Kept(m)
           /\ ~IsTable(m, Dirs(D), e.ppn)
  <1>1. MemInv(m, Dirs(D), W \cup D, D) /\ \A p \in W : Refs(m, Dirs(D), p) = {}
    BY DEF Spaces
  <1>2. /\ e \in Entry /\ e.ppn \in Page /\ Refs(m, Dirs(D), e.ppn) # {}
        /\ e.ppn \notin Dirs(D) /\ e.ppn \notin Kept(m) /\ ~IsTable(m, Dirs(D), e.ppn)
    BY <1>1, MappedPage
  <1> QED
    BY <1>1, <1>2 DEF Dirs

(* page_alloc(), when there is a page: it is in its caller's hands. *)
LEMMA AllocSpace ==
    ASSUME NEW m, NEW D, NEW W, Spaces(m, D, W),
           NEW p, p = page_alloc_ret(m), p # NULL, NEW a, a = page_alloc(m)
    PROVE  /\ p \in Page /\ p \notin W /\ p \notin Dirs(D)
           /\ Spaces(a, D, W \cup {p})
           /\ a.cr3 = m.cr3 /\ a.tlb = m.tlb /\ a.pt = m.pt
  <1>1. MemInv(m, Dirs(D), W \cup D, D)
    BY DEF Spaces
  <1>2. /\ p \in Unused(m, Dirs(D), W \cup D) /\ MemInv(a, Dirs(D), (W \cup D) \cup {p}, D)
        /\ a.pt = m.pt /\ a.cr3 = m.cr3 /\ a.tlb = m.tlb
    BY <1>1, AllocInv
  <1>3. p \in Page /\ p \notin W \cup D /\ p \notin Dirs(D) /\ Refs(m, Dirs(D), p) = {}
    BY <1>1, <1>2, UnusedFacts
  <1>4. (W \cup D) \cup {p} = (W \cup {p}) \cup D
    OBVIOUS
  <1>5. MemInv(a, Dirs(D), (W \cup {p}) \cup D, D)
    BY <1>2, <1>4
  <1>6. \A x : Refs(a, Dirs(D), x) = Refs(m, Dirs(D), x)
    BY <1>2, RefsFrame DEF SameSpaces
  <1>7. Single(a, Dirs(D)) /\ \A x \in W \cup {p} : Refs(a, Dirs(D), x) = {}
    BY <1>3, <1>6 DEF Spaces, Single
  <1>8. AsBooted(a) /\ KernCopy(a, D) /\ UserPdes(a, D)
    BY <1>2 DEF Spaces, AsBooted, KernCopy, UserPdes
  <1>9. Coherent(a)
    BY <1>1, <1>2, SameCache DEF Spaces, MemInv
  <1>10. (W \cup {p}) \cap D = {} /\ a.cr3 \in Dirs(D)
    BY <1>2, <1>3 DEF Spaces
  <1> QED
    BY <1>2, <1>3, <1>5, <1>7, <1>8, <1>9, <1>10 DEF Spaces

(* Page q holds f, and no address space has noticed. *)
Written(m, a, D, W, q, f) ==
    /\ Spaces(a, D, W)
    /\ \A d \in Dirs(D), va \in VA : Translate(a, d, va) = Translate(m, d, va)
    /\ a.cr3 = m.cr3 /\ a.tlb = m.tlb /\ a.pt = [m.pt EXCEPT ![q] = f]

(* A store to a page that is no directory, no page table and none of the   *)
(* kernel's.                                                               *)
LEMMA WriteSpace ==
    ASSUME NEW m, NEW D, NEW W, Spaces(m, D, W),
           NEW q \in Page, q \notin Dirs(D), q \notin Kept(m), ~IsTable(m, Dirs(D), q),
           NEW f \in [Slot -> Entry], NEW a, a = WritePage(m, q, f)
    PROVE  Written(m, a, D, W, q, f)
  <1>1. MemInv(m, Dirs(D), W \cup D, D) /\ a = WritePage(m, q, f)
    BY DEF Spaces
  <1>2. /\ MemInv(a, Dirs(D), W \cup D, D)
        /\ a.pt = [m.pt EXCEPT ![q] = f]
        /\ \A p \in Page : Refs(a, Dirs(D), p) = Refs(m, Dirs(D), p)
        /\ \A d \in Dirs(D), va \in VA : Translate(a, d, va) = Translate(m, d, va)
        /\ a.cr3 = m.cr3 /\ a.tlb = m.tlb
        /\ a.page_free_list = m.page_free_list /\ a.pp_ref = m.pp_ref
    <2> DEFINE w == WritePage(m, q, f)
    <2>1. /\ MemInv(w, Dirs(D), W \cup D, D)
          /\ w.pt = [m.pt EXCEPT ![q] = f]
          /\ \A p \in Page : Refs(w, Dirs(D), p) = Refs(m, Dirs(D), p)
          /\ \A d \in Dirs(D), va \in VA : Translate(w, d, va) = Translate(m, d, va)
          /\ w.cr3 = m.cr3 /\ w.tlb = m.tlb
          /\ w.page_free_list = m.page_free_list /\ w.pp_ref = m.pp_ref
      BY <1>1, WriteInv
    <2> HIDE DEF w
    <2>2. a = w
      BY <1>1 DEF w
    <2> QED
      BY <2>1, <2>2
  <1>3. MemType(m) /\ W \subseteq Page /\ Kept(m) = Kept(mem_init) /\ D \subseteq Dirs(D) /\ kern_pgdir \in Kept(m)
    BY SpaceFacts DEF Dirs
  <1>4. \A x : x # q /\ x \in Page => a.pt[x] = m.pt[x]
    BY <1>2, <1>3 DEF MemType
  <1>5. Single(a, Dirs(D)) /\ \A x \in W : Refs(a, Dirs(D), x) = {}
    BY <1>2, <1>3 DEF Spaces, Single
  <1>6. Kept(m) \subseteq Page /\ Dirs(D) \subseteq Page
    BY <1>3, KeptPages, SpaceFacts
  <1>7. AsBooted(a)
    BY <1>3, <1>4, <1>6 DEF Spaces, AsBooted
  <1>8. KernCopy(a, D) /\ UserPdes(a, D)
    <2>1. a.pt[kern_pgdir] = m.pt[kern_pgdir] /\ \A d \in D : a.pt[d] = m.pt[d]
      BY <1>3, <1>4, <1>6
    <2> QED
      BY <2>1 DEF Spaces, KernCopy, UserPdes
  <1>9. Coherent(a)
    <2>1. \A t \in a.tlb : Translate(a, m.cr3, t.va) = Translate(m, m.cr3, t.va)
      BY <1>2, <1>3 DEF Spaces, MemType
    <2>2. Coherent(m) /\ a.tlb \subseteq m.tlb /\ a.cr3 = m.cr3
      BY <1>2 DEF Spaces
    <2>3. \A t \in a.tlb : Translate(m, m.cr3, t.va) # NULL
              => Translate(a, m.cr3, t.va) = Translate(m, m.cr3, t.va)
      BY <2>1
    <2>4. MemType(m)
      BY <1>3
    <2> QED
      BY <2>2, <2>3, <2>4, CachedStays
  <1> QED
    BY <1>2, <1>5, <1>7, <1>8, <1>9 DEF Spaces, Written

(* Page p has come into its caller's hands, zeroed. *)
Zeroed(m, z, D, W, p) ==
    /\ p \in Page /\ p \notin W /\ p \notin Dirs(D)
    /\ Spaces(z, D, W \cup {p})
    /\ z.cr3 = m.cr3 /\ z.tlb = m.tlb
    /\ z.pt = [m.pt EXCEPT ![p] = ZeroPage]

(* page_alloc() with ALLOC_ZERO. *)
LEMMA AllocZeroSpace ==
    ASSUME NEW m, NEW D, NEW W, Spaces(m, D, W),
           NEW p, p = page_alloc_ret(m), p # NULL, NEW z, z = page_alloc_zero(m)
    PROVE  Zeroed(m, z, D, W, p)
  <1> DEFINE a == page_alloc(m)
  <1>1. m.page_free_list # NULL /\ p = m.page_free_list
    BY DEF page_alloc_ret
  <1>2. z = [a EXCEPT !.pt[p] = ZeroPage]
    BY <1>1 DEF page_alloc_zero
  <1>3. /\ p \in Page /\ p \notin W /\ p \notin Dirs(D)
        /\ Spaces(a, D, W \cup {p})
        /\ a.cr3 = m.cr3 /\ a.tlb = m.tlb /\ a.pt = m.pt
    BY AllocSpace
  <1> HIDE DEF a
  <1>4. MemInv(m, Dirs(D), W \cup D, D)
    BY DEF Spaces
  <1>5. ZeroAllocated(m, z, Dirs(D), W \cup D, D, p)
    BY <1>1, <1>4, AllocZeroInv
  <1>6. p \notin Kept(m) /\ ~IsTable(m, Dirs(D), p)
    BY <1>4, <1>5, UnusedFacts DEF ZeroAllocated
  <1>7. p \notin Kept(a) /\ ~IsTable(a, Dirs(D), p)
    BY <1>3, <1>6, RefsFrame DEF SameSpaces
  <1>8. ZeroPage \in [Slot -> Entry]
    BY DEF ZeroPage, Entry
  <1>9. Spaces(z, D, W \cup {p}) /\ z.pt = [a.pt EXCEPT ![p] = ZeroPage]
        /\ z.cr3 = a.cr3 /\ z.tlb = a.tlb
    <2> DEFINE V == W \cup {p}
               f == ZeroPage
    <2>1. Spaces(a, D, V) /\ z = WritePage(a, p, f) /\ f \in [Slot -> Entry]
      BY <1>2, <1>3, <1>8 DEF WritePage
    <2> HIDE DEF V, f
    <2>2. Spaces(z, D, V) /\ z.pt = [a.pt EXCEPT ![p] = f] /\ z.cr3 = a.cr3 /\ z.tlb = a.tlb
      BY <1>3, <1>7, <2>1, WriteSpace DEF Written
    <2> QED
      BY <2>2 DEF V, f
  <1> QED
    BY <1>3, <1>9 DEF Zeroed

(* What page_insert() that returned r has done. *)
Inserts(m, a, r, D, W, d, va, p, pm) ==
    /\ r # 0 => /\ r = -E_NO_MEM /\ a = m
                /\ Translate(m, d, va) = NULL /\ m.page_free_list = NULL
    /\ r = 0 => /\ Spaces(a, D, W \ {p})
                /\ Translate(a, d, va) = [ppn |-> p, perm |-> pm]
                /\ \A v \in UserSlot \X Slot : v # va => Translate(a, d, v) = Translate(m, d, v)
                /\ a.cr3 = m.cr3

(* page_insert() of a page in the caller's hands at a user address: memory *)
(* has run out and nothing has changed, or the page is mapped, and is in   *)
(* nobody's hands any more.                                                *)
LEMMA InsertSpace ==
    ASSUME NEW m, NEW D, NEW W, Spaces(m, D, W),
           NEW d \in D, NEW va \in UserSlot \X Slot, NEW p \in W, NEW pm \in Perm,
           NEW res, res = page_insert(m, d, p, va, pm)
    PROVE  Inserts(m, res.m, res.r, D, W, d, va, p, pm)
  <1> DEFINE Ds == Dirs(D)
             H  == W \cup D
             e  == [ppn |-> p, perm |-> pm]
             a  == res.m
  <1>1. MemInv(m, Ds, H, D) /\ W \cap D = {} /\ Refs(m, Ds, p) = {}
    BY DEF Spaces
  <1>2. /\ MemType(m) /\ p \in Page /\ D \subseteq Page /\ Kept(m) = Kept(mem_init)
        /\ p \notin Kept(m) /\ p # kern_pgdir /\ kern_pgdir \in Kept(m)
        /\ \A x \in D : x \notin Kept(m)
    BY SpaceFacts
  <1>3. d \in Ds /\ p \notin Ds /\ p \notin D /\ p \notin Unused(m, Ds, H)
    BY <1>1, <1>2 DEF Dirs, Unused
  <1>4. m.pp_ref[p] < RefMax
    <2>1. m.pp_ref[p] = Cardinality({}) + 0
      BY <1>1, <1>2, <1>3 DEF MemInv, Counts, Counted
    <2> QED
      BY <2>1, FS_EmptySet, RefMaxAssumption
  <1>5. Translate(m, d, va) # NULL => Translate(m, d, va).ppn \notin H
    BY <1>3, MappedInSpace
  <1> HIDE DEF Ds, H
  <1>6. /\ res.r # 0 => /\ res.r = -E_NO_MEM /\ a = m
                        /\ Translate(m, d, va) = NULL /\ m.page_free_list = NULL
        /\ res.r = 0 => /\ MemInv(a, Ds, H \ {p}, D)
                        /\ Inserted(m, a, Ds, H, d, va, e)
    BY <1>1, <1>2, <1>3, <1>4, <1>5, InsertInv
  <1> SUFFICES ASSUME res.r = 0
               PROVE  /\ Spaces(a, D, W \ {p}) /\ Translate(a, d, va) = e
                      /\ \A v \in UserSlot \X Slot : v # va => Translate(a, d, v) = Translate(m, d, v)
                      /\ a.cr3 = m.cr3
    BY <1>6 DEF Inserts
  <1>7. e.ppn = p
    OBVIOUS
  <1> HIDE DEF e, a
  <1>8. /\ MemInv(a, Ds, H \ {p}, D)
        /\ Translate(a, d, va) = e
        /\ \A c \in Ds, v \in VA :
               (c # d \/ v # va) /\ (v[1] \in UserSlot \/ Translate(m, c, v) # NULL)
                   => Translate(a, c, v) = Translate(m, c, v)
        /\ \A x \in Page : x # p /\ x \notin Unused(m, Ds, H) => Refs(a, Ds, x) \subseteq Refs(m, Ds, x)
        /\ a.cr3 = m.cr3 /\ a.tlb \subseteq m.tlb
        /\ Translate(m, d, va) # NULL => \A t \in a.tlb : t.va # va
        /\ \A x \in Unused(m, Ds, H) : \A r \in Refs(a, Ds, x) : r[1] \in Ds
        /\ \E r : Refs(a, Ds, p) \subseteq {r}
        /\ SteadyBut(m, a, Ds, d, va[1]) /\ PdeKept(m, a, d, va[1])
    <2>1. Refs(m, Ds, p) = {}
      BY <1>1
    <2> QED
      BY <1>6, <1>7, <2>1 DEF Inserted
  <1>9. MemInv(a, Dirs(D), (W \ {p}) \cup D, D)
    <2>1. H \ {p} = (W \ {p}) \cup D
      BY <1>3 DEF H
    <2> QED
      BY <1>8, <2>1 DEF Ds
  <1>10. \A x \in W \ {p} : Refs(a, Dirs(D), x) = {}
    <2> TAKE x \in W \ {p}
    <2>1. x \in Page /\ x # p /\ x \notin Unused(m, Ds, H) /\ Refs(m, Ds, x) = {}
      BY <1>1 DEF Spaces, Unused, Ds, H, MemInv, Holders
    <2> QED
      BY <1>8, <2>1 DEF Ds
  <1>11. Single(a, Dirs(D))
    <2> SUFFICES ASSUME NEW x \in Page, NEW r1 \in Refs(a, Ds, x), NEW r2 \in Refs(a, Ds, x)
                 PROVE  r1 = r2
      BY DEF Single, Ds
    <2>1. CASE x = p
      BY <1>8, <2>1
    <2>2. CASE x # p /\ x \notin Unused(m, Ds, H)
      <3>1. r1 \in Refs(m, Ds, x) /\ r2 \in Refs(m, Ds, x)
        BY <1>8, <2>2
      <3> QED
        BY <3>1 DEF Spaces, Single, Ds
    <2>3. CASE x \in Unused(m, Ds, H)
      <3>1. r1[1] \in Ds
        BY <1>8, <2>3
      <3>2. Refs(a, Ds, x) = {r1}
        BY <1>8, <3>1 DEF MemInv, Apart
      <3> QED
        BY <3>2
    <2> QED
      BY <2>1, <2>2, <2>3
  <1>12. va[1] \in UserSlot
    OBVIOUS
  <1>13. AsBooted(a)
    BY <1>2, <1>8 DEF Spaces, AsBooted, SteadyBut
  <1>14. KernCopy(a, D)
    <2>1. \A x \in Ds, s \in Slot \ UserSlot : a.pt[x][s] = m.pt[x][s]
      BY <1>8, <1>12 DEF SteadyBut
    <2> SUFFICES ASSUME NEW c \in D, NEW s \in Slot \ UserSlot
                 PROVE  a.pt[c][s] = IF s = UVPTSlot THEN [ppn |-> c, perm |-> {"U"}] ELSE a.pt[kern_pgdir][s]
      BY DEF KernCopy
    <2>2. m.pt[c][s] = IF s = UVPTSlot THEN [ppn |-> c, perm |-> {"U"}] ELSE m.pt[kern_pgdir][s]
      BY DEF Spaces, KernCopy
    <2>3. c \in Ds /\ kern_pgdir \in Ds
      BY DEF Ds, Dirs
    <2> QED
      BY <2>1, <2>2, <2>3
  <1>15. Coherent(a)
    <2>1. Coherent(m) /\ m.cr3 \in Ds
      BY DEF Spaces, Ds
    <2>2. \A t \in a.tlb : Translate(m, m.cr3, t.va) # NULL
              => Translate(a, m.cr3, t.va) = Translate(m, m.cr3, t.va)
      <3> TAKE t \in a.tlb
      <3> HAVE Translate(m, m.cr3, t.va) # NULL
      <3>1. t.va \in VA
        BY <1>2, <1>8 DEF MemType
      <3>2. m.cr3 # d \/ t.va # va
        BY <1>8
      <3> QED
        BY <1>8, <2>1, <3>1, <3>2
    <2> QED
      BY <1>2, <1>8, <2>1, <2>2, CachedStays
  <1>16. \A v \in UserSlot \X Slot : v # va => Translate(a, d, v) = Translate(m, d, v)
    <2> TAKE v \in UserSlot \X Slot
    <2>1. v \in VA /\ v[1] \in UserSlot
      BY SlotAssumption DEF VA, UserSlot, Slot
    <2> QED
      BY <1>3, <1>8, <2>1
  <1>17. (W \ {p}) \cap D = {} /\ a.cr3 \in Dirs(D)
    BY <1>1, <1>8 DEF Spaces
  <1>18. UserPdes(a, D)
    <2> SUFFICES ASSUME NEW c \in D, NEW s \in UserSlot, a.pt[c][s] # NULL
                 PROVE  "U" \in a.pt[c][s].perm
      BY DEF UserPdes
    <2>1. m.pt[c][s] # NULL => "U" \in m.pt[c][s].perm
      BY DEF Spaces, UserPdes
    <2>2. CASE c = d /\ s = va[1]
      BY <1>8, <2>1, <2>2 DEF PdeKept
    <2>3. CASE c # d \/ s # va[1]
      <3>1. c \in Ds /\ s \in Slot
        BY SlotAssumption DEF Ds, Dirs, UserSlot, Slot
      <3> QED
        BY <1>8, <2>1, <2>3, <3>1 DEF SteadyBut
    <2> QED
      BY <2>2, <2>3
  <1> QED
    BY <1>8, <1>9, <1>10, <1>11, <1>13, <1>14, <1>15, <1>16, <1>17, <1>18 DEF Spaces

(* What page_remove() of a user page has done. *)
Removed(m, a, D, W, d, va) ==
    /\ Spaces(a, D, W)
    /\ Translate(a, d, va) = NULL
    /\ \A c \in Dirs(D), v \in VA : c # d \/ v # va => Translate(a, c, v) = Translate(m, c, v)
    /\ Steady(m, a, Dirs(D)) /\ a.cr3 = m.cr3

(* page_remove() of a user page. *)
LEMMA RemoveSpace ==
    ASSUME NEW m, NEW D, NEW W, Spaces(m, D, W),
           NEW d \in D, NEW va \in UserSlot \X Slot, NEW a, a = page_remove(m, d, va)
    PROVE  Removed(m, a, D, W, d, va)
  <1> DEFINE Ds == Dirs(D)
             H  == W \cup D
  <1>1. MemInv(m, Ds, H, D)
    BY DEF Spaces
  <1>2. MemType(m) /\ Kept(m) = Kept(mem_init) /\ W \subseteq Page /\ kern_pgdir \in Ds /\ D \subseteq Ds
    BY SpaceFacts DEF Dirs
  <1>3. Translate(m, d, va) # NULL => Translate(m, d, va).ppn \notin H
    BY <1>2, MappedInSpace
  <1> HIDE DEF Ds, H
  <1>4. /\ MemInv(a, Ds, H, D)
        /\ Translate(a, d, va) = NULL
        /\ \A c \in Ds, v \in VA : c # d \/ v # va => Translate(a, c, v) = Translate(m, c, v)
        /\ Steady(m, a, Ds)
        /\ \A p \in Page : Refs(a, Ds, p) \subseteq Refs(m, Ds, p)
        /\ a.cr3 = m.cr3 /\ a.tlb \subseteq m.tlb
        /\ Translate(m, d, va) # NULL => \A t \in a.tlb : t.va # va
    BY <1>1, <1>2, <1>3, RemoveInv
  <1>5. Single(a, Ds) /\ \A x \in W : Refs(a, Ds, x) = {}
    BY <1>2, <1>4 DEF Spaces, Single, Ds
  <1>6. AsBooted(a)
    BY <1>2, <1>4 DEF Spaces, AsBooted, Steady
  <1>7. KernCopy(a, D)
    <2>1. \A x \in Ds, s \in Slot : a.pt[x][s] = m.pt[x][s]
      BY <1>4 DEF Steady
    <2> SUFFICES ASSUME NEW c \in D, NEW s \in Slot \ UserSlot
                 PROVE  a.pt[c][s] = IF s = UVPTSlot THEN [ppn |-> c, perm |-> {"U"}] ELSE a.pt[kern_pgdir][s]
      BY DEF KernCopy
    <2>2. m.pt[c][s] = IF s = UVPTSlot THEN [ppn |-> c, perm |-> {"U"}] ELSE m.pt[kern_pgdir][s]
      BY DEF Spaces, KernCopy
    <2> QED
      BY <1>2, <2>1, <2>2
  <1>8. Coherent(a)
    <2>1. Coherent(m) /\ m.cr3 \in Ds
      BY DEF Spaces, Ds
    <2>2. \A t \in a.tlb : Translate(m, m.cr3, t.va) # NULL
              => Translate(a, m.cr3, t.va) = Translate(m, m.cr3, t.va)
      <3> TAKE t \in a.tlb
      <3> HAVE Translate(m, m.cr3, t.va) # NULL
      <3>1. t.va \in VA
        BY <1>2, <1>4 DEF MemType
      <3>2. m.cr3 # d \/ t.va # va
        BY <1>4
      <3> QED
        BY <1>4, <2>1, <3>1, <3>2
    <2> QED
      BY <1>2, <1>4, <2>1, <2>2, CachedStays
  <1>9. a.cr3 \in Ds /\ W \cap D = {}
    BY <1>4 DEF Spaces, Ds
  <1>10. UserPdes(a, D)
    <2>1. \A x \in D, s \in UserSlot : a.pt[x][s] = m.pt[x][s]
      BY <1>2, <1>4, SlotAssumption DEF Steady, UserSlot, Slot
    <2> QED
      BY <2>1 DEF Spaces, UserPdes
  <1> QED
    BY <1>4, <1>5, <1>6, <1>7, <1>8, <1>9, <1>10 DEF Removed, Spaces, Ds, H

(* A page table of directory d is gone. *)
TableGone(m, a, D, W, d, s) ==
    /\ Spaces(a, D, W) /\ a.cr3 = m.cr3
    /\ a.pt[d][s] = NULL /\ \A x \in Slot : x # s => a.pt[d][x] = m.pt[d][x]

(* env_free() drops a page table that maps nothing any more, of a          *)
(* directory that is not in force.                                         *)
LEMMA DropTableSpace ==
    ASSUME NEW m, NEW D, NEW W, Spaces(m, D, W),
           NEW d \in D, m.cr3 # d, NEW s \in UserSlot,
           NEW q, NEW n, TableDropped(m, n, Dirs(D), W \cup D, D, q, d, s),
           NEW a, a = page_decref(n, q)
    PROVE  TableGone(m, a, D, W, d, s)
  <1> DEFINE Ds == Dirs(D)
             H  == W \cup D
  <1>1. MemInv(m, Ds, H, D) /\ W \cap D = {} /\ Coherent(m) /\ m.cr3 \in Ds
    BY DEF Spaces
  <1>2. /\ MemType(m) /\ Kept(m) = Kept(mem_init) /\ d \notin Kept(m)
        /\ W \subseteq Page /\ kern_pgdir \in Ds /\ D \subseteq Ds /\ d \in Ds
        /\ H \subseteq Page /\ kern_pgdir \in Kept(m)
    BY SpaceFacts DEF Dirs
  <1>3. TableDropped(m, n, Ds, H, D, q, d, s)
    OBVIOUS
  <1> HIDE DEF Ds, H
  <1>4. /\ MemInv(n, Ds, H \cup {q}, D \cup {q})
        /\ q \in Page /\ q \notin H /\ q \notin Ds
        /\ Refs(n, Ds, q) = {} /\ \A p \in Page : p # q => Refs(n, Ds, p) = Refs(m, Ds, p)
        /\ n.pt[d][s] = NULL /\ SteadyBut(m, n, Ds, d, s)
        /\ \A c \in Ds, va \in VA : c # d => Translate(n, c, va) = Translate(m, c, va)
        /\ n.cr3 = m.cr3 /\ n.tlb = m.tlb
    BY <1>3 DEF TableDropped
  <1>5. /\ MemInv(a, Ds, (H \cup {q}) \ {q}, (D \cup {q}) \ {q})
        /\ a.pt = n.pt /\ a.cr3 = n.cr3 /\ a.tlb = n.tlb
    <2> DEFINE H2 == H \cup {q}
               X2 == D \cup {q}
    <2>1. MemInv(n, Ds, H2, X2) /\ q \in X2 /\ q \notin Ds /\ Refs(n, Ds, q) = {}
      BY <1>4
    <2> HIDE DEF H2, X2
    <2>2. /\ MemInv(a, Ds, H2 \ {q}, X2 \ {q})
          /\ a.pt = n.pt /\ a.cr3 = n.cr3 /\ a.tlb = n.tlb
      BY <2>1, DecrefHeld
    <2> QED
      BY <2>2 DEF H2, X2
  <1>6. (H \cup {q}) \ {q} = H /\ (D \cup {q}) \ {q} = D
    BY <1>2, <1>4
  <1>7. MemInv(a, Ds, H, D)
    BY <1>5, <1>6
  <1>8. \A p : Refs(a, Ds, p) = Refs(n, Ds, p)
    BY <1>5, RefsFrame DEF SameSpaces
  <1>9. \A p \in Page : Refs(a, Ds, p) \subseteq Refs(m, Ds, p)
    <2> TAKE p \in Page
    <2>1. CASE p = q
      BY <1>4, <1>8, <2>1
    <2>2. CASE p # q
      BY <1>4, <1>8, <2>2
    <2> QED
      BY <2>1, <2>2
  <1>10. Single(a, Ds) /\ \A x \in W : Refs(a, Ds, x) = {}
    BY <1>2, <1>9 DEF Spaces, Single, Ds
  <1>11. \A x \in Ds \cup Kept(m), i \in Slot : x # d \/ i # s => a.pt[x][i] = m.pt[x][i]
    BY <1>4, <1>5 DEF SteadyBut
  <1>12. AsBooted(a)
    BY <1>2, <1>11 DEF Spaces, AsBooted
  <1>13. KernCopy(a, D)
    <2> SUFFICES ASSUME NEW c \in D, NEW i \in Slot \ UserSlot
                 PROVE  a.pt[c][i] = IF i = UVPTSlot THEN [ppn |-> c, perm |-> {"U"}] ELSE a.pt[kern_pgdir][i]
      BY DEF KernCopy
    <2>1. m.pt[c][i] = IF i = UVPTSlot THEN [ppn |-> c, perm |-> {"U"}] ELSE m.pt[kern_pgdir][i]
      BY DEF Spaces, KernCopy
    <2>2. a.pt[c][i] = m.pt[c][i] /\ a.pt[kern_pgdir][i] = m.pt[kern_pgdir][i]
      BY <1>2, <1>11
    <2> QED
      BY <2>1, <2>2
  <1>14. Coherent(a)
    <2>1. a.cr3 = m.cr3 /\ a.tlb \subseteq m.tlb
      BY <1>4, <1>5
    <2>2. \A t \in a.tlb : Translate(m, m.cr3, t.va) # NULL
              => Translate(a, m.cr3, t.va) = Translate(m, m.cr3, t.va)
      <3> TAKE t \in a.tlb
      <3>1. t.va \in VA
        BY <1>2, <2>1 DEF MemType
      <3>2. Translate(n, m.cr3, t.va) = Translate(m, m.cr3, t.va)
        BY <1>1, <1>4, <3>1
      <3>3. Translate(a, m.cr3, t.va) = Translate(n, m.cr3, t.va)
        BY <1>5 DEF Translate
      <3> QED
        BY <3>2, <3>3
    <2> QED
      BY <1>1, <1>2, <2>1, <2>2, CachedStays
  <1>15. a.cr3 \in Ds
    BY <1>1, <1>4, <1>5
  <1>16. UserPdes(a, D)
    <2> SUFFICES ASSUME NEW c \in D, NEW i \in UserSlot, a.pt[c][i] # NULL
                 PROVE  "U" \in a.pt[c][i].perm
      BY DEF UserPdes
    <2>1. a.pt[d][s] = NULL
      BY <1>4, <1>5
    <2>2. c # d \/ i # s
      BY <2>1
    <2>3. c \in Ds /\ i \in Slot
      BY <1>2, SlotAssumption DEF UserSlot, Slot
    <2>4. a.pt[c][i] = m.pt[c][i]
      BY <1>11, <2>2, <2>3
    <2> QED
      BY <2>4 DEF Spaces, UserPdes
  <1> QED
    BY <1>1, <1>2, <1>4, <1>5, <1>7, <1>10, <1>11, <1>12, <1>13, <1>14, <1>15, <1>16
       DEF TableGone, Spaces, Ds, H

(* Directory d is gone. *)
DirGone(m, a, D, W, d) ==
    Spaces(a, D \ {d}, W) /\ a.cr3 = m.cr3 /\ a.tlb = m.tlb /\ a.pt = m.pt

(* env_free() gives back a directory that is empty below UTOP and not in   *)
(* force.                                                                  *)
LEMMA DropDirSpace ==
    ASSUME NEW m, NEW D, NEW W, Spaces(m, D, W),
           NEW d \in D, m.cr3 # d, \A s \in UserSlot : m.pt[d][s] = NULL,
           NEW a, a = page_decref(m, d)
    PROVE  DirGone(m, a, D, W, d)
  <1> DEFINE Ds == Dirs(D)
             H  == W \cup D
             D2 == Dirs(D \ {d})
  <1>1. MemInv(m, Ds, H, D) /\ W \cap D = {} /\ Coherent(m) /\ m.cr3 \in Ds
    BY DEF Spaces
  <1>2. /\ MemType(m) /\ d \in Page /\ d # kern_pgdir /\ d \in Ds /\ W \subseteq Page
    BY SpaceFacts DEF Dirs
  <1>3. Ds \ {d} = D2 /\ H \ {d} = W \cup (D \ {d})
    BY <1>1, <1>2 DEF Dirs
  <1> HIDE DEF Ds, H, D2
  <1>4. MemInv(m, Ds \ {d}, H, D) /\ \A x : Refs(m, Ds \ {d}, x) = Refs(m, Ds, x)
    BY <1>1, <1>2, DropDir
  <1>5. MemInv(m, D2, H, D) /\ \A x : Refs(m, D2, x) = Refs(m, Ds, x)
    BY <1>3, <1>4
  <1>6. Refs(m, Ds, d) = {} /\ d \notin D2
    BY <1>1, <1>2, <1>3 DEF MemInv, Apart
  <1>7. /\ MemInv(a, D2, H \ {d}, D \ {d})
        /\ a.pt = m.pt /\ a.cr3 = m.cr3 /\ a.tlb = m.tlb
    BY <1>5, <1>6, DecrefHeld
  <1>8. \A x : Refs(a, D2, x) = Refs(m, Ds, x)
    BY <1>5, <1>7, RefsFrame DEF SameSpaces
  <1>9. Single(a, D2) /\ \A x \in W : Refs(a, D2, x) = {}
    BY <1>8 DEF Spaces, Single, Ds
  <1>10. AsBooted(a) /\ KernCopy(a, D \ {d}) /\ UserPdes(a, D \ {d})
    BY <1>7 DEF Spaces, AsBooted, KernCopy, UserPdes
  <1>11. Coherent(a)
    BY <1>1, <1>2, <1>7, SameCache
  <1>12. a.cr3 \in D2 /\ W \cap (D \ {d}) = {}
    BY <1>1, <1>3, <1>7
  <1>13. MemInv(a, D2, W \cup (D \ {d}), D \ {d})
    BY <1>3, <1>7
  <1> QED
    BY <1>7, <1>9, <1>10, <1>11, <1>12, <1>13 DEF DirGone, Spaces, D2

(* What env_setup_vm() stores in the page of a new directory. *)
IsDirectory(m, p, f) ==
    \A s \in Slot : f[s] = IF s = UVPTSlot THEN [ppn |-> p, perm |-> {"U"}] ELSE m.pt[kern_pgdir][s]

(* With that, a page that was allocated, zeroed and counted is a directory. *)
LEMMA NewDirectory ==
    ASSUME NEW m, NEW D, NEW W, Spaces(m, D, W),
           NEW p, NEW z, Zeroed(m, z, D, W, p),
           NEW a, a = page_incref(z, p),
           NEW f \in [Slot -> Entry], IsDirectory(m, p, f),
           NEW w, w = WritePage(a, p, f)
    PROVE  /\ Spaces(w, D \cup {p}, W) /\ w.cr3 = m.cr3 /\ w.tlb = m.tlb
  <1> DEFINE Ds == Dirs(D)
             H  == (W \cup {p}) \cup D
             X  == D \cup {p}
  <1>1. /\ p \notin W /\ p \notin Ds /\ p \notin D /\ Spaces(z, D, W \cup {p})
        /\ p \in Page /\ z.cr3 = m.cr3 /\ z.tlb = m.tlb
        /\ z.pt = [m.pt EXCEPT ![p] = ZeroPage]
    BY DEF Dirs, Zeroed
  <1> HIDE DEF Ds
  <1>2. MemInv(z, Ds, H, D) /\ Refs(z, Ds, p) = {} /\ Coherent(z) /\ z.cr3 \in Ds
    BY <1>1 DEF Spaces, Ds
  <1>3. /\ MemType(z) /\ p \notin Kept(z) /\ Kept(z) = Kept(mem_init) /\ Ds \subseteq Page
        /\ \A s \in UserSlot : m.pt[kern_pgdir][s] = NULL
        /\ MemType(m) /\ Kept(m) = Kept(mem_init) /\ kern_pgdir \in Ds /\ kern_pgdir \in Kept(m)
    BY <1>1, SpaceFacts DEF Ds, Dirs
  <1>4. z.pp_ref[p] < RefMax
    <2>1. p \notin D
      BY <1>1
    <2>2. z.pp_ref[p] = Cardinality({}) + 0
      BY <1>1, <1>2, <1>3, <2>1 DEF MemInv, Counts, Counted
    <2> QED
      BY <2>2, FS_EmptySet, RefMaxAssumption
  <1>5. p \in H /\ p \notin Unused(z, Ds, H)
    BY DEF Unused
  <1> HIDE DEF H
  <1>6. /\ MemInv(a, Ds, H \cup {p}, D \cup {p})
        /\ a.pt = z.pt /\ a.cr3 = z.cr3 /\ a.tlb = z.tlb
    <2>1. /\ MemInv(z, Ds, H, D) /\ p \in Page /\ p \notin D /\ p \notin Kept(z)
          /\ p \notin Unused(z, Ds, H) /\ z.pp_ref[p] < RefMax
          /\ \A r \in Refs(z, Ds, p) : r[1] \notin Ds
      BY <1>1, <1>2, <1>3, <1>4, <1>5
    <2> QED
      BY <2>1, IncrefInv, SMTT(20)
  <1> HIDE DEF X
  <1>7. MemInv(a, Ds, H, X)
    <2>1. H \cup {p} = H /\ D \cup {p} = X
      BY <1>5 DEF X
    <2> QED
      BY <1>6, <2>1
  <1>8. /\ \A x : Refs(a, Ds, x) = Refs(z, Ds, x)
        /\ Kept(a) = Kept(m)
    BY <1>3, <1>6, RefsFrame DEF SameSpaces
  <1>9. ~IsTable(a, Ds, p)
    <2> SUFFICES ASSUME IsTable(a, Ds, p) PROVE FALSE
      OBVIOUS
    <2>1. PICK c \in Ds, s \in UserSlot : Names(a, c, s, p)
      BY DEF IsTable
    <2>2. <<c, s>> \in Refs(a, Ds, p)
      BY <1>3, <2>1, SlotAssumption DEF Refs, UserSlot, Slot
    <2> QED
      BY <1>2, <1>8, <2>2
  <1>11. /\ MemInv(w, Ds, H, X)
         /\ w.pt = [a.pt EXCEPT ![p] = f]
         /\ \A x \in Page : Refs(w, Ds, x) = Refs(a, Ds, x)
         /\ KernTables(w) = KernTables(a)
         /\ \A d \in Ds, va \in VA : Translate(w, d, va) = Translate(a, d, va)
         /\ w.cr3 = a.cr3 /\ w.tlb = a.tlb
    <2>1. p \in Page /\ p \notin Ds /\ p \notin Kept(a)
      BY <1>1, <1>3, <1>8
    <2>2. PageWritten(a, w, Ds, H, X, p, f)
      BY <1>7, <1>9, <2>1, WritesPage
    <2> QED
      BY <2>2 DEF PageWritten
  <1>12. w.pt[p] = f /\ \A x \in Page : x # p => w.pt[x] = m.pt[x]
    <2>1. m.pt \in [Page -> [Slot -> Entry]] /\ p \in Page
      BY <1>1, <1>3 DEF MemType
    <2>2. z.pt = [m.pt EXCEPT ![p] = ZeroPage] /\ a.pt = z.pt /\ w.pt = [a.pt EXCEPT ![p] = f]
      BY <1>1, <1>6, <1>11
    <2> QED
      BY <2>1, <2>2
  <1>13. /\ \A s \in UserSlot : w.pt[p][s] = NULL
         /\ \A s \in Slot \ UserSlot :
               w.pt[p][s] = IF s = UVPTSlot THEN [ppn |-> p, perm |-> {"U"}] ELSE m.pt[kern_pgdir][s]
    <2>2. UVPTSlot \in Slot \ UserSlot /\ UserSlot \subseteq Slot
      BY SlotAssumption DEF UserSlot, Slot
    <2>3. \A s \in Slot : w.pt[p][s] = IF s = UVPTSlot THEN [ppn |-> p, perm |-> {"U"}] ELSE m.pt[kern_pgdir][s]
      BY <1>12 DEF IsDirectory
    <2> QED
      BY <1>3, <2>2, <2>3
  <1>14. \A s \in Slot \ UserSlot : w.pt[p][s] # NULL => w.pt[p][s].ppn \in Kept(w) \cup {p}
    <2> TAKE s \in Slot \ UserSlot
    <2> HAVE w.pt[p][s] # NULL
    <2>1. CASE s = UVPTSlot
      BY <1>13, <2>1
    <2>2. CASE s # UVPTSlot
      <3>1. w.pt[p][s] = m.pt[kern_pgdir][s]
        BY <1>13, <2>2
      <3>2. m.pt[kern_pgdir][s].ppn \in Kept(m) \cup {kern_pgdir}
        BY <1>3, <3>1 DEF Spaces, MemInv, KernPart, Ds
      <3>3. Kept(w) = Kept(a)
        BY <1>11 DEF Kept
      <3> QED
        BY <1>3, <1>8, <3>1, <3>2, <3>3
    <2> QED
      BY <2>1, <2>2
  <1>15. Refs(w, Ds, p) = {}
    BY <1>1, <1>2, <1>8, <1>11
  <1>16. /\ MemInv(w, Ds \cup {p}, H, X)
         /\ \A x : Refs(w, Ds \cup {p}, x) = Refs(w, Ds, x)
    <2>1. MemInv(w, Ds, H, X) /\ p \in H /\ p \notin Ds
      BY <1>1, <1>5, <1>11
    <2>2. BareDir(w, p)
      BY <1>13, <1>14 DEF BareDir
    <2> DEFINE G == Ds \cup {p}
    <2>3. G = Ds \cup {p}
      OBVIOUS
    <2> HIDE DEF G
    <2>4. DirAdded(w, Ds, G, H, X)
      BY <1>15, <2>1, <2>2, <2>3, AddDir
    <2> QED
      BY <2>4 DEF DirAdded, G
  <1> DEFINE E == Dirs(D \cup {p})
  <1>17. Ds \cup {p} = E /\ H = W \cup (D \cup {p}) /\ X = D \cup {p}
    BY DEF Dirs, Ds, H, X
  <1> HIDE DEF E
  <1>18. MemInv(w, E, W \cup (D \cup {p}), D \cup {p}) /\ \A x : Refs(w, E, x) = Refs(w, Ds, x)
    BY <1>16, <1>17
  <1>19. \A x \in Page : Refs(w, E, x) = Refs(z, Ds, x)
    BY <1>8, <1>11, <1>18
  <1>20. Single(w, E) /\ \A x \in W : Refs(w, E, x) = {}
    <2>1. Single(z, Ds) /\ \A x \in W : Refs(z, Ds, x) = {}
      BY <1>1 DEF Spaces, Ds
    <2>2. W \subseteq Page
      BY SpaceFacts
    <2> QED
      BY <1>19, <2>1, <2>2 DEF Single
  <1>21. AsBooted(w)
    <2>1. Kept(mem_init) \subseteq Page /\ p \notin Kept(mem_init)
      BY <1>3, KeptPages
    <2>2. \A x \in Kept(mem_init) : w.pt[x] = m.pt[x]
      BY <1>12, <2>1
    <2> QED
      BY <2>2 DEF Spaces, AsBooted
  <1>22. KernCopy(w, D \cup {p})
    <2> SUFFICES ASSUME NEW c \in D \cup {p}, NEW s \in Slot \ UserSlot
                 PROVE  w.pt[c][s] = IF s = UVPTSlot THEN [ppn |-> c, perm |-> {"U"}] ELSE w.pt[kern_pgdir][s]
      BY DEF KernCopy
    <2>1. w.pt[kern_pgdir] = m.pt[kern_pgdir]
      BY <1>1, <1>3, <1>12
    <2>2. CASE c = p
      BY <1>13, <2>1, <2>2
    <2>3. CASE c # p
      <3>1. c \in D /\ c \in Page
        BY <1>3, <2>3 DEF Ds, Dirs
      <3>2. m.pt[c][s] = IF s = UVPTSlot THEN [ppn |-> c, perm |-> {"U"}] ELSE m.pt[kern_pgdir][s]
        BY <3>1 DEF Spaces, KernCopy
      <3> QED
        BY <1>12, <2>1, <2>3, <3>1, <3>2
    <2> QED
      BY <2>2, <2>3
  <1>23. Coherent(w)
    <2>1. Coherent(a) /\ MemType(a)
      BY <1>2, <1>3, <1>6, <1>7, SameCache DEF MemInv
    <2>2. \A t \in w.tlb : Translate(a, a.cr3, t.va) # NULL
              => Translate(w, a.cr3, t.va) = Translate(a, a.cr3, t.va)
      <3> TAKE t \in w.tlb
      <3>1. t.va \in VA
        <4>1. t \in a.tlb /\ a.tlb \subseteq [va : VA, ppn : Page, perm : Perm]
          BY <1>11, <2>1 DEF MemType
        <4> QED
          BY <4>1
      <3>2. a.cr3 \in Ds
        BY <1>2, <1>6
      <3> QED
        BY <1>11, <3>1, <3>2
    <2>3. w.cr3 = a.cr3 /\ w.tlb \subseteq a.tlb
      BY <1>11
    <2> QED
      BY <2>1, <2>2, <2>3, CachedStays
  <1>24. w.cr3 \in E /\ W \cap (D \cup {p}) = {} /\ w.cr3 = m.cr3 /\ w.tlb = m.tlb
    BY <1>1, <1>2, <1>6, <1>11, <1>17 DEF Spaces
  <1>25. UserPdes(w, D \cup {p})
    <2>1. \A c \in D : c \in Page /\ c # p
      BY <1>1, <1>3 DEF Ds, Dirs
    <2>2. \A c \in D : w.pt[c] = m.pt[c]
      BY <1>12, <2>1
    <2> QED
      BY <1>13, <2>2 DEF Spaces, UserPdes
  <1> QED
    BY <1>1, <1>18, <1>20, <1>21, <1>22, <1>23, <1>24, <1>25 DEF Spaces, E

-----------------------------------------------------------------------------
(* While a program is loaded: memory is sound and d is in force.           *)
Loads(s, D, W, d) == Spaces(s, D, W) /\ s.cr3 = d

(* Or memory ran out unnoticed: a page that was to be mapped is in nobody's *)
(* hands, and one of the pages S of the segment is not there.              *)
Short(s, D, W, d, pages, S) ==
    /\ s.cr3 = d
    /\ \E p \in Page \ W : Spaces(s, D, W \cup {p})
    /\ \E j \in S : Translate(s, d, pages[j]) = NULL

(* region_alloc() after i pages of a segment. *)
Allocating(s, D, W, d, pages, i) ==
    \/ Stopped(s)
    \/ Loads(s, D, W, d)
    \/ Short(s, D, W, d, pages, 1 .. i) /\ s.page_free_list = NULL

(* The copy after i pages of a segment. *)
Copying(s, D, W, d, pages, i) ==
    \/ Stopped(s)
    \/ Loads(s, D, W, d)
    \/ Short(s, D, W, d, pages, i + 1 .. Len(pages))

(* One page of region_alloc(). *)
LEMMA RegionRound ==
    ASSUME NEW s \in Kernels, ~Stopped(s), NEW e \in EnvIdx, NEW D, NEW W, NEW d \in D,
           s.envs[e].env_pgdir = d, NEW pages, NEW i \in Nat \ {0},
           NEW va \in UserSlot \X Slot, va = pages[i],
           Allocating(s, D, W, d, pages, i - 1),
           NEW t, t = region_alloc_page(s, e, va)
    PROVE  Allocating(t, D, W, d, pages, i)
  <1> DEFINE p == page_alloc_ret(s)
             a == page_alloc(s)
             pm == {"W", "U"}
             r == page_insert(a, d, p, va, pm)
  <1>1. CASE p = NULL
    <2>1. t = [s EXCEPT !.panicked = TRUE]
      BY <1>1 DEF region_alloc_page
    <2>2. t.panicked
      BY <2>1 DEF Kernels
    <2> QED
      BY <2>2 DEF Allocating, Stopped
  <1>2. CASE p # NULL
    <2>1. s.page_free_list # NULL
      BY <1>2 DEF page_alloc_ret
    <2>2. Spaces(s, D, W) /\ s.cr3 = d
      BY <2>1 DEF Allocating, Loads
    <2>3. t = r.m
      BY <1>2 DEF region_alloc_page
    <2> HIDE DEF p, a
    <2>4. p \in Page /\ p \notin W /\ p \notin Dirs(D) /\ Spaces(a, D, W \cup {p}) /\ a.cr3 = d
      BY <1>2, <2>2, AllocSpace DEF p, a
    <2> DEFINE V == W \cup {p}
    <2>5. p \in V /\ Spaces(a, D, V) /\ pm \in Perm
      BY <2>4 DEF Perm
    <2> HIDE DEF V, pm
    <2>r. r = page_insert(a, d, p, va, pm)
      OBVIOUS
    <2> HIDE DEF r
    <2>a. Inserts(a, r.m, r.r, D, V, d, va, p, pm)
      BY <2>5, <2>r, InsertSpace
    <2>6. /\ r.r # 0 => /\ t = a /\ Translate(a, d, va) = NULL /\ a.page_free_list = NULL
          /\ r.r = 0 => Spaces(t, D, V \ {p}) /\ t.cr3 = a.cr3
      BY <2>3, <2>a DEF Inserts
    <2>7. CASE r.r # 0
      <3>1. p \in Page \ W /\ Spaces(t, D, W \cup {p}) /\ t.cr3 = d
        BY <2>4, <2>6, <2>7
      <3>2. i \in 1 .. i /\ Translate(t, d, pages[i]) = NULL /\ t.page_free_list = NULL
        BY <2>6, <2>7
      <3> QED
        BY <3>1, <3>2 DEF Allocating, Short
    <2>8. CASE r.r = 0
      <3>1. V \ {p} = W
        BY <2>4 DEF V
      <3>2. Spaces(t, D, W) /\ t.cr3 = d
        BY <2>4, <2>6, <2>8, <3>1
      <3> QED
        BY <3>2 DEF Allocating, Loads
    <2> QED
      BY <2>7, <2>8
  <1> QED
    BY <1>1, <1>2

(* The contents of data are entries, whatever they are. *)
LEMMA DataType == DataPage \in [Slot -> Entry]
  <1>1. 0 \in Page /\ {"W", "U"} \in Perm
    BY NPagesAssumption DEF Page, Perm
  <1>2. [ppn |-> 0, perm |-> {"W", "U"}] \in Entry
    BY <1>1, EntryOf
  <1> QED
    BY <1>2 DEF DataPage

(* A store to a mapped page. *)
LEMMA MappedWrite ==
    ASSUME NEW m, NEW D, NEW W, Spaces(m, D, W), NEW d \in Dirs(D),
           NEW va \in UserSlot \X Slot, NEW e, e = Translate(m, d, va), e # NULL,
           NEW a, a = [m EXCEPT !.pt[e.ppn] = DataPage]
    PROVE  /\ Spaces(a, D, W) /\ a.cr3 = m.cr3
           /\ \A c \in Dirs(D), v \in VA : Translate(a, c, v) = Translate(m, c, v)
  <1>1. e.ppn \in Page /\ e.ppn \notin Dirs(D) /\ e.ppn \notin Kept(m) /\ ~IsTable(m, Dirs(D), e.ppn)
    BY MappedInSpace
  <1> DEFINE q == e.ppn
             f == DataPage
             w == WritePage(m, q, f)
  <1>2. f \in [Slot -> Entry]
    BY DataType
  <1>3. a = w
    BY DEF WritePage
  <1>4. q \in Page /\ q \notin Dirs(D) /\ q \notin Kept(m) /\ ~IsTable(m, Dirs(D), q)
    BY <1>1
  <1> HIDE DEF q, f
  <1>w. w = WritePage(m, q, f)
    OBVIOUS
  <1> HIDE DEF w
  <1>5. Written(m, w, D, W, q, f)
    BY <1>2, <1>4, <1>w, WriteSpace
  <1> QED
    BY <1>3, <1>5 DEF Written

(* One page of the copy of a segment. *)
LEMMA CopyRound ==
    ASSUME NEW s \in Kernels, ~Stopped(s), NEW D, NEW W, NEW d \in D,
           NEW pages \in Seq(UserSlot \X Slot), NEW i \in 1 .. Len(pages),
           NEW va \in UserSlot \X Slot, va = pages[i],
           Copying(s, D, W, d, pages, i - 1),
           NEW t, t = write_page(s, va)
    PROVE  Copying(t, D, W, d, pages, i)
  <1> DEFINE e == Translate(s, s.cr3, va)
  <1>1. CASE e = NULL
    <2>1. t = [s EXCEPT !.faulted = TRUE]
      BY <1>1 DEF write_page
    <2>2. t.faulted
      BY <2>1 DEF Kernels
    <2> QED
      BY <2>2 DEF Copying, Stopped
  <1>2. CASE e # NULL
    <2>1. t = [s EXCEPT !.pt[e.ppn] = DataPage]
      BY <1>2 DEF write_page
    <2> HIDE DEF e
    <2>2. s.cr3 = d /\ d \in Dirs(D)
      BY DEF Copying, Loads, Short, Dirs
    <2>3. e = Translate(s, d, va)
      BY <2>2 DEF e
    <2>4. ASSUME NEW V, Spaces(s, D, V)
          PROVE  /\ Spaces(t, D, V) /\ t.cr3 = d
                 /\ \A c \in Dirs(D), v \in VA : Translate(t, c, v) = Translate(s, c, v)
      BY <1>2, <2>1, <2>2, <2>3, <2>4, MappedWrite
    <2>5. CASE Loads(s, D, W, d)
      BY <2>4, <2>5 DEF Copying, Loads
    <2>6. CASE Short(s, D, W, d, pages, (i - 1) + 1 .. Len(pages))
      <3>1. PICK p \in Page \ W : Spaces(s, D, W \cup {p})
        BY <2>6 DEF Short
      <3>2. PICK j \in (i - 1) + 1 .. Len(pages) : Translate(s, d, pages[j]) = NULL
        BY <2>6 DEF Short
      <3>3. j # i
        BY <1>2, <2>3, <3>2
      <3>4. j \in i + 1 .. Len(pages) /\ j \in 1 .. Len(pages)
        BY <3>2, <3>3
      <3>5. pages[j] \in VA
        BY <3>4, UserPages
      <3>6. Spaces(t, D, W \cup {p}) /\ t.cr3 = d /\ Translate(t, d, pages[j]) = NULL
        BY <2>2, <2>4, <3>1, <3>2, <3>5
      <3> QED
        BY <3>1, <3>4, <3>6 DEF Copying, Short
    <2> QED
      BY <2>5, <2>6 DEF Copying
  <1> QED
    BY <1>1, <1>2

(* A segment is loaded, or the kernel stops: a page that region_alloc()    *)
(* could not map faults when its contents are copied.                      *)
LEMMA SegmentSpace ==
    ASSUME NEW ks \in Kernels, NEW e \in EnvIdx, NEW D, NEW W, NEW d \in D, d \in Page,
           ks.envs[e].env_pgdir = d, Loads(ks, D, W, d),
           NEW pages \in Seq(UserSlot \X Slot), NEW t, t = load_segment(ks, e, pages)
    PROVE  Stopped(t) \/ Loads(t, D, W, d)
  <1> DEFINE n == Len(pages)
  <1>1. n \in Nat /\ \A i \in 1 .. n : pages[i] \in UserSlot \X Slot
    BY UserPages
  <1>2. PICK g : /\ Starts(g, ks, n)
                 /\ \A i \in 1 .. n : g[i] = IF Stopped(g[i - 1]) THEN g[i - 1]
                                             ELSE region_alloc_page(g[i - 1], e, pages[i])
                 /\ RegionLoop(ks, e, pages) = g[n]
    BY RegionRun
  <1> HIDE DEF n
  <1>3. /\ g[0] = ks
        /\ \A i \in 0 .. n : g[i] \in Kernels /\ g[i].envs[e].env_pgdir = d
    BY <1>2 DEF Starts, Like, SameEnvs
  <1> DEFINE R == {i \in 0 .. n : Allocating(g[i], D, W, d, pages, i)}
  <1>4. 0 \in R
    BY <1>1, <1>3 DEF Allocating
  <1>5. ASSUME NEW i \in 1 .. n, i - 1 \in R PROVE i \in R
    <2>1. /\ i - 1 \in 0 .. n /\ i \in 0 .. n /\ i \in Nat \ {0}
          /\ Allocating(g[i - 1], D, W, d, pages, i - 1)
      BY <1>1, <1>5
    <2>2. CASE Stopped(g[i - 1])
      BY <1>2, <2>1, <2>2 DEF Allocating
    <2>3. CASE ~Stopped(g[i - 1])
      <3>1. /\ g[i - 1] \in Kernels /\ g[i - 1].envs[e].env_pgdir = d
            /\ pages[i] \in UserSlot \X Slot
            /\ g[i] = region_alloc_page(g[i - 1], e, pages[i])
        BY <1>1, <1>2, <1>3, <2>1, <2>3
      <3>2. Allocating(g[i], D, W, d, pages, i)
        BY <2>1, <2>3, <3>1, RegionRound
      <3> QED
        BY <2>1, <3>2
    <2> QED
      BY <2>2, <2>3
  <1> HIDE DEF R
  <1>6. n \in R
    BY <1>1, <1>4, <1>5, BoundedInduction
  <1>7. Allocating(g[n], D, W, d, pages, n)
    BY <1>6 DEF R
  <1> DEFINE r == g[n]
  <1>8. r \in Kernels /\ t = CopyLoop(r, pages)
    BY <1>1, <1>2, <1>3, SegmentStep
  <1>9. Copying(r, D, W, d, pages, 0)
    BY <1>7 DEF Allocating, Copying, n
  <1> HIDE DEF r
  <1>10. PICK h : /\ Starts(h, r, n)
                  /\ \A i \in 1 .. n : h[i] = IF Stopped(h[i - 1]) THEN h[i - 1]
                                              ELSE write_page(h[i - 1], pages[i])
                  /\ CopyLoop(r, pages) = h[n]
    BY <1>8, CopyRun DEF n
  <1>11. h[0] = r /\ \A i \in 0 .. n : h[i] \in Kernels
    BY <1>10 DEF Starts, Like
  <1> DEFINE C == {i \in 0 .. n : Copying(h[i], D, W, d, pages, i)}
  <1>12. 0 \in C
    BY <1>1, <1>9, <1>11
  <1>13. ASSUME NEW i \in 1 .. n, i - 1 \in C PROVE i \in C
    <2>1. /\ i - 1 \in 0 .. n /\ i \in 0 .. n /\ i \in 1 .. Len(pages)
          /\ Copying(h[i - 1], D, W, d, pages, i - 1)
      BY <1>1, <1>13 DEF n
    <2>2. CASE Stopped(h[i - 1])
      BY <1>10, <2>1, <2>2 DEF Copying
    <2>3. CASE ~Stopped(h[i - 1])
      <3>1. /\ h[i - 1] \in Kernels /\ pages[i] \in UserSlot \X Slot
            /\ h[i] = write_page(h[i - 1], pages[i])
        BY <1>1, <1>10, <1>11, <2>1, <2>3
      <3>2. Copying(h[i], D, W, d, pages, i)
        BY <2>1, <2>3, <3>1, CopyRound
      <3> QED
        BY <2>1, <3>2
    <2> QED
      BY <2>2, <2>3
  <1> HIDE DEF C
  <1>14. n \in C
    BY <1>1, <1>12, <1>13, BoundedInduction
  <1>15. Copying(t, D, W, d, pages, n)
    BY <1>8, <1>10, <1>14 DEF C
  <1>16. n + 1 .. Len(pages) = {}
    BY <1>1 DEF n
  <1> QED
    BY <1>15, <1>16 DEF Copying, Short

(* A segment after the other. *)
LEMMA SegmentsSpace ==
    ASSUME NEW ks \in Kernels, NEW e \in EnvIdx, NEW D, NEW W, NEW d \in D, d \in Page,
           ks.envs[e].env_pgdir = d, Loads(ks, D, W, d),
           NEW binary \in Programs, NEW t, t = SegmentLoop(ks, e, binary)
    PROVE  Stopped(t) \/ Loads(t, D, W, d)
  <1> DEFINE n == Len(binary)
  <1>1. n \in Nat /\ \A i \in 1 .. n : binary[i] \in Seq(UserSlot \X Slot)
    BY DEF Programs
  <1>2. PICK g : /\ Starts(g, ks, n)
                 /\ \A i \in 1 .. n : g[i] = IF Stopped(g[i - 1]) THEN g[i - 1]
                                             ELSE load_segment(g[i - 1], e, binary[i])
                 /\ SegmentLoop(ks, e, binary) = g[n]
    BY SegmentRun DEF Programs
  <1> HIDE DEF n
  <1>3. /\ g[0] = ks
        /\ \A i \in 0 .. n : g[i] \in Kernels /\ g[i].envs[e].env_pgdir = d
    BY <1>2 DEF Starts, Like, SameEnvs
  <1> DEFINE R == {i \in 0 .. n : Stopped(g[i]) \/ Loads(g[i], D, W, d)}
  <1>4. 0 \in R
    BY <1>1, <1>3
  <1>5. ASSUME NEW i \in 1 .. n, i - 1 \in R PROVE i \in R
    <2>1. /\ i - 1 \in 0 .. n /\ i \in 0 .. n
          /\ Stopped(g[i - 1]) \/ Loads(g[i - 1], D, W, d)
      BY <1>1, <1>5
    <2>2. CASE Stopped(g[i - 1])
      BY <1>2, <2>1, <2>2
    <2>3. CASE ~Stopped(g[i - 1])
      <3>1. /\ g[i - 1] \in Kernels /\ g[i - 1].envs[e].env_pgdir = d
            /\ binary[i] \in Seq(UserSlot \X Slot)
            /\ g[i] = load_segment(g[i - 1], e, binary[i])
            /\ Loads(g[i - 1], D, W, d)
        BY <1>1, <1>2, <1>3, <2>1, <2>3
      <3>2. Stopped(g[i]) \/ Loads(g[i], D, W, d)
        BY <3>1, SegmentSpace
      <3> QED
        BY <2>1, <3>2
    <2> QED
      BY <2>2, <2>3
  <1> HIDE DEF R
  <1>n. n \in Nat
    BY <1>1
  <1>6. n \in R
    BY <1>n, <1>4, <1>5, BoundedInduction
  <1> QED
    BY <1>2, <1>6 DEF R

(* The stack of a program is a page of its own, or the kernel stops. *)
LEMMA StackSpace ==
    ASSUME NEW ks \in Kernels, ~Stopped(ks), NEW e \in EnvIdx, NEW D, NEW W, NEW d \in D,
           ks.envs[e].env_pgdir = d, Loads(ks, D, W, d),
           NEW t, t = load_stack(ks, e)
    PROVE  Stopped(t) \/ Loads(t, D, W, d)
  <1> DEFINE p  == page_alloc_ret(ks)
             z  == page_alloc_zero(ks)
             pm == {"W", "U"}
             r  == page_insert(z, d, p, StackVA, pm)
  <1>1. t = IF p = NULL THEN [ks EXCEPT !.panicked = TRUE]
            ELSE IF r.r < 0 THEN [r.m EXCEPT !.panicked = TRUE] ELSE r.m
    BY DEF load_stack
  <1>2. CASE p = NULL
    <2>1. t = [ks EXCEPT !.panicked = TRUE]
      BY <1>1, <1>2
    <2>2. t.panicked
      BY <2>1 DEF Kernels
    <2> QED
      BY <2>2 DEF Stopped
  <1>3. CASE p # NULL
    <2>1. z \in Kernels
      BY AllocZeroStep DEF MemStep
    <2>r. /\ p = page_alloc_ret(ks) /\ z = page_alloc_zero(ks)
          /\ r = page_insert(z, d, p, StackVA, pm) /\ Spaces(ks, D, W) /\ ks.cr3 = d
      BY DEF Loads
    <2> HIDE DEF p, z, r
    <2>z. Zeroed(ks, z, D, W, p)
      BY <1>3, <2>r, AllocZeroSpace
    <2>2. p \in Page /\ p \notin W /\ Spaces(z, D, W \cup {p}) /\ z.cr3 = d
      BY <2>z, <2>r DEF Zeroed
    <2> DEFINE V == W \cup {p}
    <2>3. p \in V /\ Spaces(z, D, V) /\ pm \in Perm /\ StackVA \in UserSlot \X Slot
      BY <2>2, EnvAssumption DEF Perm
    <2> HIDE DEF V, pm
    <2>4. Inserts(z, r.m, r.r, D, V, d, StackVA, p, pm)
      BY <2>3, <2>r, InsertSpace
    <2>5. CASE r.r # 0
      <3>1. r.r < 0 /\ r.m = z
        BY <2>4, <2>5 DEF Inserts, E_NO_MEM
      <3>2. t = [z EXCEPT !.panicked = TRUE]
        BY <1>1, <1>3, <3>1
      <3>3. t.panicked
        BY <2>1, <3>2 DEF Kernels
      <3> QED
        BY <3>3 DEF Stopped
    <2>6. CASE r.r = 0
      <3>1. t = r.m
        BY <1>1, <1>3, <2>6
      <3>2. V \ {p} = W
        BY <2>2 DEF V
      <3>3. Spaces(t, D, W) /\ t.cr3 = d
        BY <2>2, <2>4, <2>6, <3>1, <3>2 DEF Inserts
      <3> QED
        BY <3>3 DEF Loads
    <2> QED
      BY <2>5, <2>6
  <1> QED
    BY <1>2, <1>3

(* lcr3() of a directory that exists. *)
LEMMA Lcr3Space ==
    ASSUME NEW s \in Kernels, NEW D, NEW W, Spaces(s, D, W), NEW c \in Dirs(D),
           NEW t, t = lcr3(s, c)
    PROVE  t \in Kernels /\ Spaces(t, D, W) /\ t.cr3 = c /\ t.pt = s.pt /\ SameEnvs(s, t)
           /\ t.faulted = s.faulted
  <1>1. c \in Page
    BY SpaceFacts
  <1>2. t \in Kernels /\ SameEnvs(s, t) /\ t.faulted = s.faulted
    BY <1>1, Lcr3Step DEF MemStep
  <1>3. /\ t.panicked = s.panicked /\ t.pp_ref = s.pp_ref /\ t.pp_link = s.pp_link
        /\ t.page_free_list = s.page_free_list /\ t.pt = s.pt /\ t.cr3 = c /\ t.tlb = {}
    BY DEF lcr3, Kernels
  <1>4. Coherent(t)
    BY <1>3 DEF Coherent
  <1> QED
    BY <1>2, <1>3, <1>4, KernelMem, SpaceFrame

(* load_icode() leaves the kernel's directory in force, or the kernel      *)
(* stopped.                                                                *)
LEMMA LoadSpace ==
    ASSUME NEW ks \in Kernels, ~Stopped(ks), NEW e \in EnvIdx, NEW D, NEW W, NEW d \in D, d \in Page,
           ks.envs[e].env_pgdir = d, Spaces(ks, D, W), NEW binary \in Programs,
           NEW t, t = load_icode(ks, e, binary)
    PROVE  Stopped(t) \/ (Spaces(t, D, W) /\ t.cr3 = kern_pgdir)
  <1> DEFINE a == lcr3(ks, d)
             l == SegmentLoop(a, e, binary)
             s == load_stack(l, e)
  <1>1. t = IF Stopped(s) THEN s ELSE lcr3(s, kern_pgdir)
    BY DEF load_icode, SegmentLoop
  <1>2. a \in Kernels /\ Spaces(a, D, W) /\ a.cr3 = d /\ SameEnvs(ks, a)
    BY Lcr3Space DEF Dirs
  <1> HIDE DEF a, l
  <1>3. a.envs[e].env_pgdir = d /\ Loads(a, D, W, d)
    BY <1>2 DEF SameEnvs, Loads
  <1>4. l \in Kernels /\ SameEnvs(a, l)
    <2>1. PICK g : Starts(g, a, Len(binary)) /\ l = g[Len(binary)]
      BY <1>2, <1>3, SegmentRun DEF Programs, l
    <2>2. Len(binary) \in 0 .. Len(binary)
      BY DEF Programs
    <2> QED
      BY <2>1, <2>2 DEF Starts, Like
  <1>5. Stopped(l) \/ Loads(l, D, W, d)
    BY <1>2, <1>3, SegmentsSpace DEF l
  <1>6. l.envs[e].env_pgdir = d
    BY <1>3, <1>4 DEF SameEnvs
  <1>s. s = load_stack(l, e)
    OBVIOUS
  <1> HIDE DEF s
  <1>7. s \in Kernels /\ SameEnvs(l, s)
    BY <1>4, <1>6, <1>s, StackStep DEF Like
  <1>8. CASE Stopped(l)
    <2>1. s = l
      BY <1>8, <1>s DEF load_stack
    <2> QED
      BY <1>1, <1>8, <2>1
  <1>9. CASE ~Stopped(l)
    <2>1. Stopped(s) \/ Loads(s, D, W, d)
      BY <1>4, <1>5, <1>6, <1>9, <1>s, StackSpace
    <2>2. CASE Stopped(s)
      BY <1>1, <2>2
    <2>3. CASE ~Stopped(s)
      <3>1. t = lcr3(s, kern_pgdir) /\ Spaces(s, D, W) /\ kern_pgdir \in Dirs(D)
        BY <1>1, <2>1, <2>3 DEF Loads, Dirs
      <3> QED
        BY <1>7, <3>1, Lcr3Space
    <2> QED
      BY <2>2, <2>3
  <1> QED
    BY <1>8, <1>9

-----------------------------------------------------------------------------
(* The same memory, whatever the environments. *)
SameMemory(s, t) ==
    /\ t.panicked = s.panicked /\ t.pp_ref = s.pp_ref /\ t.pp_link = s.pp_link
    /\ t.page_free_list = s.page_free_list /\ t.pt = s.pt /\ t.cr3 = s.cr3 /\ t.tlb = s.tlb

(* It is a space as well. *)
LEMMA SpaceKept ==
    ASSUME NEW s, NEW D, NEW W, Spaces(s, D, W), NEW t, MemType(t), SameMemory(s, t)
    PROVE  Spaces(t, D, W)
  <1>1. MemType(s) /\ Coherent(s) /\ s.cr3 \in Dirs(D)
    BY SpaceFacts DEF Spaces
  <1>2. Coherent(t)
    BY <1>1, SameCache DEF SameMemory
  <1> QED
    BY <1>1, <1>2, SpaceFrame DEF SameMemory

(* Directory d is new. *)
NewDir(s, t, D, W, d) == d \in Page /\ d \notin D /\ Spaces(t, D \cup {d}, W) /\ t.cr3 = s.cr3

(* env_setup_vm() does nothing, or there is one directory more. *)
LEMMA SetupSpace ==
    ASSUME NEW ks \in Kernels, NEW e \in EnvIdx, NEW D, NEW W, Spaces(ks, D, W),
           NEW vm, vm = env_setup_vm(ks, e)
    PROVE  \/ vm.r = -E_NO_MEM /\ vm.m = ks
           \/ vm.r = 0 /\ vm.m \in Kernels /\ NewDir(ks, vm.m, D, W, vm.m.envs[e].env_pgdir)
  <1> DEFINE d == page_alloc_ret(ks)
             z == page_alloc_zero(ks)
             a == page_incref(z, d)
             f == [ks.pt[kern_pgdir] EXCEPT ![UVPTSlot] = [ppn |-> d, perm |-> {"U"}]]
             n == [a EXCEPT !.envs[e].env_pgdir = d, !.pt[d] = f]
             w == WritePage(a, d, f)
  <1>1. vm = IF d = NULL THEN [m |-> ks, r |-> -E_NO_MEM] ELSE [m |-> n, r |-> 0]
    BY DEF env_setup_vm
  <1>2. CASE d = NULL
    BY <1>1, <1>2
  <1>3. CASE d # NULL
    <2>1. Zeroed(ks, z, D, W, d)
      BY <1>3, AllocZeroSpace
    <2>2. d \in Page /\ d \notin D /\ ks.pt[kern_pgdir] \in [Slot -> Entry]
      BY <2>1, KernPgdir DEF Zeroed, Kernels, Dirs
    <2>3. z \in Kernels /\ a \in Kernels /\ a.cr3 = z.cr3 /\ z.cr3 = ks.cr3
      <3>1. z \in Kernels
        BY AllocZeroStep DEF MemStep
      <3> HIDE DEF z, d
      <3>2. a \in Kernels
        BY <2>2, <3>1, IncrefStep DEF MemStep
      <3>3. a.cr3 = z.cr3
        BY <3>1 DEF page_incref, Kernels
      <3> QED
        BY <2>1, <3>1, <3>2, <3>3 DEF Zeroed
    <2>4. vm.m = n /\ vm.r = 0
      BY <1>1, <1>3
    <2>5. vm.m \in Kernels /\ vm.m.envs[e].env_pgdir = d
      <3>1. \E c \in Page : vm.m \in Kernels /\ vm.m.envs = [ks.envs EXCEPT ![e].env_pgdir = c]
        <4>1. vm.r # -E_NO_MEM
          BY <2>4 DEF E_NO_MEM
        <4> HIDE DEF n
        <4>2. \/ vm.r = -E_NO_MEM /\ vm.m = ks
              \/ \E c \in Page : vm.m \in Kernels /\ vm.m.envs = [ks.envs EXCEPT ![e].env_pgdir = c]
          <5> DEFINE v == env_setup_vm(ks, e)
          <5>1. \/ v.r = -E_NO_MEM /\ v.m = ks
                \/ \E c \in Page :
                      /\ v.r = 0 /\ v.m \in Kernels
                      /\ v.m.faulted = ks.faulted
                      /\ v.m.envs = [ks.envs EXCEPT ![e].env_pgdir = c]
                      /\ v.m.env_free_list = ks.env_free_list /\ v.m.curenv = ks.curenv
            BY SetupStep, ZenonT(30)
          <5>2. v = vm
            OBVIOUS
          <5> HIDE DEF v
          <5> QED
            BY <5>1, <5>2
        <4> QED
          BY <4>1, <4>2
      <3>2. vm.m.envs[e].env_pgdir = d
        <4> HIDE DEF d, f, a
        <4>1. a.envs \in [EnvIdx -> EnvRecord] /\ a.envs[e] \in EnvRecord
          BY <2>3 DEF Kernels
        <4>2. n.envs = [a.envs EXCEPT ![e].env_pgdir = d]
          BY <2>3 DEF Kernels
        <4> HIDE DEF n
        <4>3. n.envs[e].env_pgdir = d
          BY <4>1, <4>2 DEF EnvRecord
        <4> QED
          BY <2>4, <4>3
      <3> QED
        BY <3>1, <3>2
    <2>6. f \in [Slot -> Entry] /\ IsDirectory(ks, d, f)
      <3>1. [ppn |-> d, perm |-> {"U"}] \in Entry
        <4> HIDE DEF d
        <4>1. {"U"} \in Perm
          BY DEF Perm
        <4> QED
          BY <2>2, <4>1, EntryOf
      <3> QED
        BY <2>2, <3>1 DEF IsDirectory
    <2>a. a = page_incref(z, d) /\ w = WritePage(a, d, f)
      OBVIOUS
    <2>7. SameMemory(w, n)
      <3> HIDE DEF d, f, a
      <3> QED
        BY <2>3 DEF SameMemory, WritePage, Kernels
    <2> HIDE DEF d, z, f, a, w, n
    <2>8. Spaces(w, D \cup {d}, W) /\ w.cr3 = ks.cr3
      BY <2>1, <2>6, <2>a, NewDirectory
    <2> DEFINE D2 == D \cup {d}
    <2>9. Spaces(w, D2, W) /\ MemType(n)
      BY <2>4, <2>5, <2>8, KernelMem
    <2> HIDE DEF D2
    <2>10. Spaces(n, D2, W)
      BY <2>7, <2>9, SpaceKept
    <2>11. NewDir(ks, n, D, W, d)
      BY <2>2, <2>7, <2>8, <2>10 DEF NewDir, SameMemory, D2
    <2> QED
      BY <2>4, <2>5, <2>11
  <1> QED
    BY <1>2, <1>3

(* So does env_alloc(). *)
LEMMA EnvAllocSpace ==
    ASSUME NEW ks \in Kernels, EnvTable(ks), NEW parent_id \in 0 .. IdMax,
           NEW D, NEW W, Spaces(ks, D, W), NEW res, res = env_alloc(ks, parent_id)
    PROVE  \/ res.r < 0 /\ res.m = ks
           \/ /\ res.r = 0 /\ GivesEnv(ks, res.m, res.e, parent_id)
              /\ NewDir(ks, res.m, D, W, res.m.envs[res.e].env_pgdir)
  <1>1. \/ res.r < 0 /\ res.m = ks
        \/ res.r = 0 /\ GivesEnv(ks, res.m, res.e, parent_id)
    BY EnvAllocStep
  <1> SUFFICES ASSUME ~(res.r < 0 /\ res.m = ks)
               PROVE  NewDir(ks, res.m, D, W, res.m.envs[res.e].env_pgdir)
    BY <1>1
  <1>2. res.r = 0 /\ GivesEnv(ks, res.m, res.e, parent_id)
    BY <1>1
  <1> DEFINE e  == ks.env_free_list
             vm == env_setup_vm(ks, e)
             n  == [vm.m EXCEPT !.envs[e].env_id = NextEnvId(ks.envs[e].env_id, e),
                                !.envs[e].env_parent_id = parent_id,
                                !.envs[e].env_status = "ENV_RUNNABLE",
                                !.env_free_list = ks.envs[e].env_link]
  <1>3. res = IF e = NULL THEN [m |-> ks, e |-> NULL, r |-> -E_NO_FREE_ENV]
              ELSE IF vm.r < 0 THEN [m |-> vm.m, e |-> NULL, r |-> vm.r]
              ELSE [m |-> n, e |-> e, r |-> 0]
    BY DEF env_alloc
  <1>4. e \in EnvIdx /\ res.e = e /\ res.m \in Kernels
    BY <1>2 DEF GivesEnv
  <1>5. e # NULL
    BY <1>4, EnvAssumption DEF EnvIdx
  <1>v. vm = env_setup_vm(ks, e)
    OBVIOUS
  <1> HIDE DEF vm, e
  <1>6. \/ vm.r = -E_NO_MEM /\ vm.m = ks
        \/ vm.r = 0 /\ vm.m \in Kernels /\ NewDir(ks, vm.m, D, W, vm.m.envs[e].env_pgdir)
    BY <1>4, <1>v, SetupSpace
  <1>7. vm.r = 0 /\ vm.m \in Kernels /\ NewDir(ks, vm.m, D, W, vm.m.envs[e].env_pgdir)
    <2>1. ASSUME vm.r = -E_NO_MEM, vm.m = ks PROVE FALSE
      <3>1. vm.r < 0
        BY <2>1 DEF E_NO_MEM
      <3>2. res = [m |-> vm.m, e |-> NULL, r |-> vm.r]
        BY <1>3, <1>5, <3>1
      <3> QED
        BY <2>1, <3>1, <3>2
    <2> QED
      BY <1>6, <2>1
  <1>8. res.m = n
    BY <1>3, <1>5, <1>7
  <1>9. SameMemory(vm.m, n)
    BY <1>7 DEF SameMemory, Kernels
  <1>10. n.envs[e].env_pgdir = vm.m.envs[e].env_pgdir
    <2>1. vm.m.envs \in [EnvIdx -> EnvRecord] /\ vm.m.envs[e] \in EnvRecord
      BY <1>4, <1>7 DEF Kernels
    <2> DEFINE id == NextEnvId(ks.envs[e].env_id, e)
    <2> HIDE DEF id
    <2>2. n.envs = [vm.m.envs EXCEPT ![e].env_id = id,
                                     ![e].env_parent_id = parent_id,
                                     ![e].env_status = "ENV_RUNNABLE"]
      BY <1>7 DEF Kernels, id
    <2> HIDE DEF n
    <2> QED
      BY <1>4, <2>1, <2>2 DEF EnvRecord
  <1> HIDE DEF n
  <1> DEFINE d == vm.m.envs[e].env_pgdir
             D2 == D \cup {d}
  <1>11. d \in Page /\ d \notin D /\ Spaces(vm.m, D2, W) /\ vm.m.cr3 = ks.cr3
    BY <1>7 DEF NewDir
  <1> HIDE DEF D2
  <1>12. MemType(n)
    BY <1>4, <1>8, KernelMem
  <1>13. Spaces(n, D2, W) /\ n.cr3 = ks.cr3
    BY <1>9, <1>11, <1>12, SpaceKept DEF SameMemory
  <1> QED
    BY <1>4, <1>8, <1>10, <1>11, <1>13 DEF NewDir, D2

(* env_create() that does not panic leaves one directory more and the      *)
(* kernel's in force.                                                      *)
LEMMA EnvCreateSpace ==
    ASSUME NEW ks \in Kernels, ~Stopped(ks), EnvTable(ks), NEW binary \in Programs,
           NEW D, NEW W, Spaces(ks, D, W), NEW t, t = env_create(ks, binary), ~Stopped(t)
    PROVE  \E m, e : /\ GivesEnv(ks, m, e, 0) /\ SameEnvs(m, t)
                     /\ NewDir(ks, m, D, W, m.envs[e].env_pgdir)
                     /\ Spaces(t, D \cup {m.envs[e].env_pgdir}, W) /\ t.cr3 = kern_pgdir
  <1> DEFINE res == env_alloc(ks, 0)
             m   == res.m
             e   == res.e
             d   == m.envs[e].env_pgdir
  <1>1. t = IF res.r < 0 THEN [m EXCEPT !.panicked = TRUE] ELSE load_icode(m, e, binary)
    BY DEF env_create
  <1>2. 0 \in 0 .. IdMax
    BY EnvAssumption
  <1> HIDE DEF res
  <1>3. \/ res.r < 0 /\ m = ks
        \/ res.r = 0 /\ GivesEnv(ks, m, e, 0) /\ NewDir(ks, m, D, W, d)
    BY <1>2, EnvAllocSpace DEF res
  <1>4. CASE res.r < 0 /\ m = ks
    <2>1. t = [ks EXCEPT !.panicked = TRUE]
      BY <1>1, <1>4
    <2>2. t.panicked
      BY <2>1 DEF Kernels
    <2> QED
      BY <2>2 DEF Stopped
  <1>5. CASE res.r = 0 /\ GivesEnv(ks, m, e, 0) /\ NewDir(ks, m, D, W, d)
    <2>1. t = load_icode(m, e, binary)
      BY <1>1, <1>5
    <2> HIDE DEF m, e
    <2> DEFINE D2 == D \cup {d}
    <2>2. /\ m \in Kernels /\ e \in EnvIdx /\ d \in Page /\ Spaces(m, D2, W) /\ d \in D2
          /\ m.faulted = ks.faulted
      BY <1>5 DEF GivesEnv, NewDir
    <2>3. m.envs[e].env_pgdir = d
      OBVIOUS
    <2> HIDE DEF D2, d
    <2>4. ~Stopped(m)
      BY <2>2, SpaceFacts DEF Stopped
    <2>5. Spaces(t, D2, W) /\ t.cr3 = kern_pgdir
      BY <2>1, <2>2, <2>3, <2>4, LoadSpace
    <2>6. SameEnvs(m, t)
      BY <2>1, <2>2, <2>3, LoadStep DEF Like
    <2> QED
      BY <1>5, <2>5, <2>6 DEF D2, d
  <1> QED
    BY <1>3, <1>4, <1>5

-----------------------------------------------------------------------------
(* While the page table of slot x is emptied, up to entry j: memory is     *)
(* sound, the processor on another directory, and d is as it was.          *)
Emptying(s, t, D, W, d, x, j) ==
    /\ Spaces(t, D, W) /\ t.cr3 = s.cr3 /\ ~t.faulted
    /\ \A i \in Slot : t.pt[d][i] = s.pt[d][i]
    /\ \A y \in 0 .. j - 1 : Translate(t, d, <<x, y>>) = NULL

(* One page_remove() of that. *)
LEMMA UnmapRound ==
    ASSUME NEW s, NEW t \in Kernels, NEW D, NEW W, NEW d \in D, d \in Page,
           NEW x \in UserSlot, NEW j \in 1 .. NSlots,
           Emptying(s, t, D, W, d, x, j - 1),
           NEW u, u = page_remove(t, d, <<x, j - 1>>)
    PROVE  Emptying(s, u, D, W, d, x, j)
  <1> DEFINE va == <<x, j - 1>>
  <1>1. /\ va \in UserSlot \X Slot /\ va \in VA /\ j - 1 \in Slot /\ j \in Int
        /\ \A y \in 0 .. (j - 1) - 1 : <<x, y>> \in VA /\ <<x, y>> # va
    BY SlotAssumption DEF UserSlot, Slot, VA
  <1>2. /\ Spaces(t, D, W) /\ t.cr3 = s.cr3 /\ ~t.faulted
        /\ \A i \in Slot : t.pt[d][i] = s.pt[d][i]
        /\ \A y \in 0 .. (j - 1) - 1 : Translate(t, d, <<x, y>>) = NULL
    BY DEF Emptying
  <1>3. u = page_remove(t, d, va)
    OBVIOUS
  <1> HIDE DEF va
  <1>4. /\ Spaces(u, D, W)
        /\ Translate(u, d, va) = NULL
        /\ \A c \in Dirs(D), v \in VA : c # d \/ v # va => Translate(u, c, v) = Translate(t, c, v)
        /\ Steady(t, u, Dirs(D)) /\ u.cr3 = t.cr3
    <2>1. va \in UserSlot \X Slot /\ Spaces(t, D, W)
      BY <1>1, <1>2
    <2>2. Removed(t, u, D, W, d, va)
      BY <1>3, <2>1, RemoveSpace
    <2> QED
      BY <2>2 DEF Removed
  <1>5. d \in Dirs(D)
    BY DEF Dirs
  <1>6. ~u.faulted
    BY <1>1, <1>2, <1>3, RemoveMemStep DEF MemStep
  <1>7. \A i \in Slot : u.pt[d][i] = s.pt[d][i]
    BY <1>2, <1>4, <1>5 DEF Steady
  <1>8. ASSUME NEW y \in 0 .. j - 1 PROVE Translate(u, d, <<x, y>>) = NULL
    <2>1. CASE y = j - 1
      BY <1>4, <2>1 DEF va
    <2>2. CASE y # j - 1
      <3>1. y \in 0 .. (j - 1) - 1
        BY <1>1, <2>2
      <3> DEFINE v == <<x, y>>
      <3>2. v \in VA /\ v # va /\ Translate(t, d, v) = NULL
        BY <1>1, <1>2, <3>1
      <3> HIDE DEF v
      <3>3. Translate(u, d, v) = NULL
        BY <1>4, <1>5, <3>2
      <3> QED
        BY <3>3 DEF v
    <2> QED
      BY <2>1, <2>2
  <1> QED
    BY <1>2, <1>4, <1>6, <1>7, <1>8 DEF Emptying

(* Slot x of directory d has been cleared, its table freed. *)
TableFreed(s, t, D, W, d, x) ==
    /\ Spaces(t, D, W) /\ t.cr3 = s.cr3 /\ ~t.faulted
    /\ t.pt[d][x] = NULL /\ \A i \in Slot : i # x => t.pt[d][i] = s.pt[d][i]

(* free_table() of a directory that is not in force. *)
LEMMA FreeTableSpace ==
    ASSUME NEW s \in Kernels, ~s.faulted, NEW e \in EnvIdx, NEW D, NEW W, Spaces(s, D, W),
           NEW d \in D, s.envs[e].env_pgdir = d, s.cr3 # d, NEW x \in UserSlot,
           NEW t, t = free_table(s, e, x)
    PROVE  TableFreed(s, t, D, W, d, x)
  <1>0. x \in Slot /\ NSlots \in Nat /\ d \in Page
    BY SlotAssumption, SpaceFacts DEF UserSlot, Slot
  <1> DEFINE q == s.pt[d][x].ppn
             u == UnmapTable(s, d, x)
             n == Store(u, PtePtr(d, x), NULL)
  <1>1. t = IF s.pt[d][x] = NULL THEN s ELSE page_decref(n, q)
    <2> DEFINE dd == s.envs[e].env_pgdir
    <2>1. t = IF s.pt[dd][x] = NULL THEN s
              ELSE page_decref(Store(UnmapTable(s, dd, x), PtePtr(dd, x), NULL), s.pt[dd][x].ppn)
      BY DEF free_table, UnmapTable
    <2>2. dd = d
      OBVIOUS
    <2> HIDE DEF dd
    <2> QED
      BY <2>1, <2>2
  <1> HIDE DEF u
  <1>2. CASE s.pt[d][x] = NULL
    BY <1>1, <1>2 DEF TableFreed
  <1>3. CASE s.pt[d][x] # NULL
    <2>1. PICK g : /\ Starts(g, s, NSlots)
                   /\ \A j \in 1 .. NSlots : g[j] = IF Stopped(g[j - 1]) THEN g[j - 1]
                                                    ELSE page_remove(g[j - 1], d, <<x, j - 1>>)
                   /\ u = g[NSlots]
      BY <1>0, UnmapRun DEF u
    <2>2. g[0] = s /\ \A j \in 0 .. NSlots : g[j] \in Kernels
      BY <2>1 DEF Starts, Like
    <2> DEFINE R == {j \in 0 .. NSlots : Emptying(s, g[j], D, W, d, x, j)}
    <2>3. 0 \in R
      BY <1>0, <2>2 DEF Emptying
    <2>4. ASSUME NEW j \in 1 .. NSlots, j - 1 \in R PROVE j \in R
      <3>1. /\ j - 1 \in 0 .. NSlots /\ j \in 0 .. NSlots
            /\ Emptying(s, g[j - 1], D, W, d, x, j - 1)
        BY <1>0, <2>4
      <3>2. ~Stopped(g[j - 1])
        BY <3>1, SpaceFacts DEF Emptying, Stopped
      <3>3. g[j] = page_remove(g[j - 1], d, <<x, j - 1>>) /\ g[j - 1] \in Kernels
        BY <2>1, <2>2, <3>1, <3>2
      <3>4. Emptying(s, g[j], D, W, d, x, j)
        BY <1>0, <3>1, <3>3, UnmapRound
      <3> QED
        BY <3>1, <3>4
    <2> HIDE DEF R
    <2>5. NSlots \in R
      BY <1>0, <2>3, <2>4, BoundedInduction
    <2>6. Emptying(s, u, D, W, d, x, NSlots) /\ u \in Kernels
      BY <1>0, <2>1, <2>2, <2>5 DEF R
    <2>7. /\ Spaces(u, D, W) /\ u.cr3 = s.cr3 /\ ~u.faulted
          /\ \A i \in Slot : u.pt[d][i] = s.pt[d][i]
          /\ \A y \in Slot : Translate(u, d, <<x, y>>) = NULL
      BY <2>6 DEF Emptying, Slot
    <2>8. u.pt[d][x] # NULL /\ q = u.pt[d][x].ppn
      BY <1>0, <1>3, <2>7
    <2>9. \A y \in Slot : u.pt[q][y] = NULL
      <3> TAKE y \in Slot
      <3> HIDE DEF q
      <3>1. Translate(u, d, <<x, y>>) = u.pt[q][y]
        BY <2>8 DEF Translate
      <3> QED
        BY <2>7, <3>1
    <2>10. d \notin Kept(u) /\ d \in Dirs(D) /\ MemInv(u, Dirs(D), W \cup D, D)
      <3>1. Spaces(u, D, W)
        BY <2>7
      <3>2. \A p \in W \cup D : p \notin Kept(u)
        BY <3>1, SpaceFacts
      <3> QED
        BY <3>1, <3>2 DEF Dirs, Spaces
    <2>a. n = Store(u, PtePtr(d, x), NULL)
      OBVIOUS
    <2> HIDE DEF q, n
    <2> DEFINE Ds == Dirs(D)
               H  == W \cup D
    <2>11. d \in Ds /\ MemInv(u, Ds, H, D)
      BY <2>10
    <2> HIDE DEF Ds, H
    <2>12. TableDropped(u, n, Ds, H, D, q, d, x)
      BY <2>8, <2>9, <2>10, <2>11, <2>a, DropTable
    <2>13. TableDropped(u, n, Dirs(D), W \cup D, D, q, d, x) /\ t = page_decref(n, q)
      BY <1>1, <1>3, <2>12 DEF Ds, H
    <2>14. u.cr3 # d
      BY <2>7
    <2>15. /\ Spaces(t, D, W) /\ t.cr3 = u.cr3
           /\ t.pt[d][x] = NULL /\ \A i \in Slot : i # x => t.pt[d][i] = u.pt[d][i]
      <3>1. Spaces(u, D, W)
        BY <2>7
      <3>2. TableGone(u, t, D, W, d, x)
        BY <2>13, <2>14, <3>1, DropTableSpace
      <3> QED
        BY <3>2 DEF TableGone
    <2>16. ~t.faulted
      <3>1. NULL \in Entry /\ q \in Page
        <4>1. s.pt[d][x] \in Entry
          BY <1>0 DEF Kernels
        <4> QED
          BY <1>3, <4>1 DEF Entry, q
      <3>2. MemStep(u, n)
        BY <1>0, <2>6, <2>a, <3>1, StoreStep
      <3>3. MemStep(n, t)
        BY <2>13, <3>1, <3>2, DecrefStep DEF MemStep
      <3> QED
        BY <2>7, <3>2, <3>3 DEF MemStep
    <2> QED
      BY <2>7, <2>15, <2>16 DEF TableFreed
  <1> QED
    BY <1>2, <1>3

(* env_free()'s loop, up to slot i. *)
Freeing(s, t, D, W, d, i) ==
    /\ Spaces(t, D, W) /\ t.cr3 = s.cr3 /\ ~t.faulted
    /\ \A x \in 0 .. i - 1 : t.pt[d][x] = NULL

(* It empties the directory. *)
LEMMA TablesSpace ==
    ASSUME NEW s \in Kernels, ~s.faulted, NEW e \in EnvIdx, NEW D, NEW W, Spaces(s, D, W),
           NEW d \in D, s.envs[e].env_pgdir = d, s.cr3 # d,
           NEW t, t = TableLoop(s, e)
    PROVE  t \in Like(s) /\ Freeing(s, t, D, W, d, UTopSlot)
  <1>0. UTopSlot \in Nat /\ d \in Page /\ \A i \in 1 .. UTopSlot : i - 1 \in UserSlot
    BY SlotAssumption, SpaceFacts DEF UserSlot
  <1>1. PICK g : /\ Starts(g, s, UTopSlot)
                 /\ \A i \in 1 .. UTopSlot : g[i] = IF Stopped(g[i - 1]) THEN g[i - 1]
                                                    ELSE free_table(g[i - 1], e, i - 1)
                 /\ t = g[UTopSlot]
    BY <1>0, TableRun
  <1>2. /\ g[0] = s
        /\ \A i \in 0 .. UTopSlot : g[i] \in Kernels /\ g[i] \in Like(s) /\ g[i].envs[e].env_pgdir = d
    BY <1>1 DEF Starts, Like, SameEnvs
  <1> DEFINE R == {i \in 0 .. UTopSlot : Freeing(s, g[i], D, W, d, i)}
  <1>3. 0 \in R
    BY <1>0, <1>2 DEF Freeing
  <1>4. ASSUME NEW i \in 1 .. UTopSlot, i - 1 \in R PROVE i \in R
    <2> DEFINE a == g[i - 1]
               x == i - 1
    <2>1. i - 1 \in 0 .. UTopSlot /\ i \in 0 .. UTopSlot /\ Freeing(s, a, D, W, d, x) /\ x \in UserSlot
      BY <1>0, <1>4
    <2>2. a \in Kernels /\ a.envs[e].env_pgdir = d
      BY <1>2, <2>1
    <2> HIDE DEF a, R
    <2>3. /\ Spaces(a, D, W) /\ a.cr3 = s.cr3 /\ ~a.faulted /\ a.cr3 # d
          /\ \A y \in 0 .. x - 1 : a.pt[d][y] = NULL
      BY <2>1 DEF Freeing
    <2>4. ~Stopped(a)
      BY <2>3, SpaceFacts DEF Stopped
    <2>5. g[i] = free_table(a, e, x)
      BY <1>1, <2>4 DEF a
    <2>6. i \in Int
      OBVIOUS
    <2> HIDE DEF x
    <2>7. TableFreed(a, g[i], D, W, d, x)
      BY <2>1, <2>2, <2>3, <2>5, FreeTableSpace
    <2>8. ASSUME NEW y \in 0 .. i - 1 PROVE g[i].pt[d][y] = NULL
      <3>1. y \in Slot
        BY <1>0, SlotAssumption DEF Slot
      <3>2. CASE y = x
        BY <2>7, <3>2 DEF TableFreed
      <3>3. CASE y # x
        <4>1. y \in 0 .. x - 1
          BY <2>6, <3>3 DEF x
        <4> QED
          BY <2>3, <2>7, <3>1, <3>3, <4>1 DEF TableFreed
      <3> QED
        BY <3>2, <3>3
    <2>9. Freeing(s, g[i], D, W, d, i)
      BY <2>3, <2>7, <2>8 DEF TableFreed, Freeing
    <2> QED
      BY <2>1, <2>9 DEF R
  <1> HIDE DEF R
  <1>5. UTopSlot \in R
    BY <1>0, <1>3, <1>4, BoundedInduction
  <1>6. UTopSlot \in 0 .. UTopSlot
    BY <1>0
  <1> QED
    BY <1>1, <1>2, <1>5, <1>6 DEF R

(* env_free() leaves one directory less. *)
LEMMA EnvFreeSpace ==
    ASSUME NEW ks \in Kernels, EnvTable(ks), ~ks.faulted, NEW e \in Live(ks),
           NEW D, NEW W, Spaces(ks, D, W), NEW d \in D, d = ks.envs[e].env_pgdir,
           e # ks.curenv => ks.cr3 # d,
           NEW t, t = env_free(ks, e)
    PROVE  /\ Spaces(t, D \ {d}, W) /\ ~t.faulted
           /\ t.cr3 = IF e = ks.curenv THEN kern_pgdir ELSE ks.cr3
  <1> DEFINE away == IF e = ks.curenv THEN lcr3(ks, kern_pgdir) ELSE ks
             s == TableLoop(away, e)
             c == [s EXCEPT !.envs[e].env_pgdir = NULL]
             f == page_decref(c, s.envs[e].env_pgdir)
             n == [f EXCEPT !.envs[e].env_status = "ENV_FREE",
                            !.envs[e].env_link = ks.env_free_list,
                            !.env_free_list = e]
  <1>0. e \in EnvIdx /\ d \in Page /\ kern_pgdir # d
    BY SpaceFacts DEF Live
  <1>1. t = n
    BY DEF env_free, TableLoop
  <1>2. t \in Kernels
    BY EnvFreeStep DEF TakesEnv
  <1>3. /\ away \in Kernels /\ SameEnvs(ks, away) /\ Spaces(away, D, W) /\ ~away.faulted
        /\ away.cr3 = IF e = ks.curenv THEN kern_pgdir ELSE ks.cr3
    <2>1. CASE e = ks.curenv
      <3>1. away = lcr3(ks, kern_pgdir)
        BY <2>1
      <3> HIDE DEF away
      <3>2. kern_pgdir \in Dirs(D)
        BY DEF Dirs
      <3>3. away \in Kernels /\ Spaces(away, D, W) /\ away.cr3 = kern_pgdir /\ SameEnvs(ks, away)
            /\ away.faulted = ks.faulted
        BY <3>1, <3>2, Lcr3Space
      <3> QED
        BY <2>1, <3>3
    <2>2. CASE e # ks.curenv
      BY <2>2 DEF SameEnvs
    <2> QED
      BY <2>1, <2>2
  <1> HIDE DEF away
  <1>4. away.cr3 # d /\ away.envs[e].env_pgdir = d
    BY <1>0, <1>3 DEF SameEnvs
  <1>5. s \in Like(away) /\ Freeing(away, s, D, W, d, UTopSlot)
    BY <1>0, <1>3, <1>4, TablesSpace
  <1> HIDE DEF s
  <1>6. /\ s \in Kernels /\ s.envs[e].env_pgdir = d
        /\ Spaces(s, D, W) /\ s.cr3 = away.cr3 /\ ~s.faulted
        /\ \A x \in UserSlot : s.pt[d][x] = NULL
    BY <1>4, <1>5 DEF Like, SameEnvs, Freeing, UserSlot
  <1>7. c \in Kernels /\ SameMemory(s, c) /\ ~c.faulted
    <2> DEFINE r == [s.envs[e] EXCEPT !.env_pgdir = NULL]
               E == [s.envs EXCEPT ![e] = r]
    <2>1. s.envs \in [EnvIdx -> EnvRecord] /\ s.envs[e] \in EnvRecord
      BY <1>0, <1>6 DEF Kernels
    <2>2. r \in EnvRecord
      BY <2>1 DEF EnvRecord, PageOrNull
    <2>3. c = [s EXCEPT !.envs = E]
      BY <1>6, <2>1 DEF Kernels
    <2> HIDE DEF r, c
    <2>4. E \in [EnvIdx -> EnvRecord]
      BY <2>1, <2>2
    <2> HIDE DEF E
    <2> QED
      BY <1>6, <2>3, <2>4 DEF Kernels, SameMemory
  <1>8. f = page_decref(c, d)
    BY <1>6
  <1> HIDE DEF c, f
  <1>9. Spaces(c, D, W) /\ c.pt = s.pt /\ c.cr3 = s.cr3
    BY <1>6, <1>7, KernelMem, SpaceKept DEF SameMemory
  <1>10. Spaces(f, D \ {d}, W) /\ f.cr3 = c.cr3
    <2>1. c.cr3 # d /\ \A x \in UserSlot : c.pt[d][x] = NULL
      BY <1>4, <1>6, <1>9
    <2>2. Spaces(c, D, W)
      BY <1>9
    <2>3. DirGone(c, f, D, W, d)
      BY <1>8, <2>1, <2>2, DropDirSpace
    <2> QED
      BY <2>3 DEF DirGone
  <1>11. f \in Kernels /\ ~f.faulted
    BY <1>0, <1>7, <1>8, DecrefStep DEF MemStep
  <1>12. SameMemory(f, n) /\ ~n.faulted
    BY <1>11 DEF SameMemory, Kernels
  <1> HIDE DEF n
  <1> DEFINE D2 == D \ {d}
  <1>13. Spaces(f, D2, W) /\ MemType(n)
    BY <1>1, <1>2, <1>10, KernelMem
  <1> HIDE DEF D2
  <1>14. Spaces(n, D2, W)
    BY <1>12, <1>13, SpaceKept
  <1>15. n.cr3 = away.cr3
    BY <1>6, <1>9, <1>10, <1>12 DEF SameMemory
  <1> QED
    BY <1>1, <1>3, <1>12, <1>14, <1>15 DEF D2

-----------------------------------------------------------------------------
(* Every environment has a page directory of its own. *)
OwnDirs(ks) == \A i, j \in Live(ks) : ks.envs[i].env_pgdir = ks.envs[j].env_pgdir => i = j

(* The directory of the running environment, or else the kernel's. *)
InForce(ks) == IF ks.curenv = NULL THEN kern_pgdir ELSE ks.envs[ks.curenv].env_pgdir

(* Memory is made of these directories, and the processor uses the right one. *)
EnvSpace(ks, W) ==
    /\ Spaces(ks, Directories(ks), W)
    /\ OwnDirs(ks)
    /\ ks.cr3 = InForce(ks)

(* The directories are the same when the environments are. *)
LEMMA DirsSame ==
    ASSUME NEW ks, NEW m, SameEnvs(ks, m)
    PROVE  /\ Directories(m) = Directories(ks) /\ InForce(m) = InForce(ks)
           /\ OwnDirs(ks) => OwnDirs(m)
  <1>1. Live(m) = Live(ks)
    BY DEF SameEnvs, Live
  <1> QED
    BY <1>1 DEF SameEnvs, Directories, InForce, OwnDirs

(* One more when an Env was given away with a new one. *)
LEMMA DirsGiven ==
    ASSUME NEW ks \in Kernels, EnvTable(ks), OwnDirs(ks),
           NEW m, NEW e, NEW parent_id, GivesEnv(ks, m, e, parent_id),
           NEW d, d = m.envs[e].env_pgdir, d \notin Directories(ks)
    PROVE  Directories(m) = Directories(ks) \cup {d} /\ OwnDirs(m) /\ InForce(m) = InForce(ks)
  <1>1. e \in EnvIdx /\ e \notin Live(ks) /\ (ks.curenv # NULL => ks.curenv \in Live(ks))
    <2>1. e \in EnvIdx /\ e = ks.env_free_list
      BY DEF GivesEnv
    <2>2. e # NULL
      BY <2>1, EnvAssumption DEF EnvIdx
    <2> QED
      BY <2>1, <2>2, TableUse
  <1>2. \A i \in EnvIdx : i # e => m.envs[i] = ks.envs[i]
    BY DEF GivesEnv
  <1>3. Live(m) = Live(ks) \cup {e}
    <2>1. \A i \in EnvIdx : i \in Live(m) <=> (i \in Live(ks) \/ i = e)
      BY <1>2 DEF Live, GivesEnv
    <2> QED
      BY <1>1, <2>1 DEF Live
  <1>4. \A i \in Live(ks) : i # e /\ m.envs[i] = ks.envs[i]
    BY <1>1, <1>2 DEF Live
  <1>5. Directories(m) = Directories(ks) \cup {d}
    BY <1>3, <1>4 DEF Directories
  <1>6. OwnDirs(m)
    <2> SUFFICES ASSUME NEW i \in Live(m), NEW j \in Live(m),
                        m.envs[i].env_pgdir = m.envs[j].env_pgdir
                 PROVE  i = j
      BY DEF OwnDirs
    <2>1. \A x \in Live(ks) : m.envs[x].env_pgdir \in Directories(ks)
      BY <1>4 DEF Directories
    <2>2. CASE i \in Live(ks) /\ j \in Live(ks)
      BY <1>4, <2>2 DEF OwnDirs
    <2>3. CASE i = e \/ j = e
      BY <1>3, <2>1, <2>3
    <2> QED
      BY <1>3, <2>2, <2>3
  <1>7. InForce(m) = InForce(ks)
    BY <1>1, <1>4 DEF InForce, GivesEnv
  <1> QED
    BY <1>5, <1>6, <1>7

(* One less when an Env was taken back. *)
LEMMA DirsTaken ==
    ASSUME NEW ks \in Kernels, OwnDirs(ks), NEW e \in Live(ks), NEW m, TakesEnv(ks, m, e),
           NEW d, d = ks.envs[e].env_pgdir
    PROVE  /\ Live(m) = Live(ks) \ {e} /\ \A i \in Live(m) : m.envs[i] = ks.envs[i]
           /\ Directories(m) = Directories(ks) \ {d} /\ OwnDirs(m)
  <1>1. Live(m) = Live(ks) \ {e} /\ \A i \in Live(m) : m.envs[i] = ks.envs[i]
    <2>1. \A i \in EnvIdx : i \in Live(m) <=> (i \in Live(ks) /\ i # e)
      BY DEF Live, TakesEnv
    <2> QED
      BY <2>1 DEF Live, TakesEnv
  <1>2. \A i \in Live(ks) : i # e => ks.envs[i].env_pgdir # d
    BY DEF OwnDirs
  <1>3. Directories(m) = Directories(ks) \ {d}
    BY <1>1, <1>2 DEF Directories
  <1>4. OwnDirs(m)
    BY <1>1 DEF OwnDirs
  <1> QED
    BY <1>1, <1>3, <1>4

(* The directory of a live environment is one of them. *)
LEMMA InForceDir ==
    ASSUME NEW ks \in Kernels, EnvTable(ks)
    PROVE  /\ InForce(ks) \in Dirs(Directories(ks))
           /\ ks.curenv # NULL => InForce(ks) \in Directories(ks)
           /\ \A e \in Live(ks) : ks.envs[e].env_pgdir \in Directories(ks)
  <1>1. \A e \in Live(ks) : ks.envs[e].env_pgdir \in Directories(ks)
    BY DEF Directories
  <1>2. ks.curenv # NULL => ks.curenv \in Live(ks)
    BY TableUse
  <1> QED
    BY <1>1, <1>2 DEF InForce, Dirs

(* env_alloc() keeps all that. *)
LEMMA AllocMem ==
    ASSUME NEW ks \in Kernels, EnvTable(ks), NEW W, EnvSpace(ks, W),
           NEW parent_id \in 0 .. IdMax, NEW res, res = env_alloc(ks, parent_id)
    PROVE  EnvSpace(res.m, W)
  <1>1. Spaces(ks, Directories(ks), W) /\ OwnDirs(ks) /\ ks.cr3 = InForce(ks)
    BY DEF EnvSpace
  <1> DEFINE D == Directories(ks)
             m == res.m
             e == res.e
             d == m.envs[e].env_pgdir
  <1>2. \/ res.r < 0 /\ m = ks
        \/ GivesEnv(ks, m, e, parent_id) /\ NewDir(ks, m, D, W, d)
    BY <1>1, EnvAllocSpace
  <1>3. CASE m = ks
    BY <1>3
  <1>4. CASE GivesEnv(ks, m, e, parent_id) /\ NewDir(ks, m, D, W, d)
    <2> HIDE DEF m, e
    <2>1. d \notin D /\ Spaces(m, D \cup {d}, W) /\ m.cr3 = ks.cr3
      BY <1>4 DEF NewDir
    <2>2. Directories(m) = D \cup {d} /\ OwnDirs(m) /\ InForce(m) = InForce(ks)
      BY <1>1, <1>4, <2>1, DirsGiven
    <2>3. Spaces(m, Directories(m), W)
      BY <2>1, <2>2
    <2>4. EnvSpace(m, W)
      BY <1>1, <2>1, <2>2, <2>3 DEF EnvSpace
    <2> QED
      BY <2>4 DEF m
  <1> QED
    BY <1>2, <1>3, <1>4

(* So does env_create(), if the kernel survives it. *)
LEMMA CreateMem ==
    ASSUME NEW ks \in Kernels, EnvTable(ks), ~Stopped(ks), ks.curenv = NULL,
           NEW W, EnvSpace(ks, W), NEW binary \in Programs,
           NEW t, t = env_create(ks, binary), ~Stopped(t)
    PROVE  EnvSpace(t, W)
  <1> DEFINE D == Directories(ks)
  <1>1. Spaces(ks, D, W) /\ OwnDirs(ks)
    BY DEF EnvSpace
  <1> HIDE DEF D
  <1>2. PICK m, e : /\ GivesEnv(ks, m, e, 0) /\ SameEnvs(m, t)
                    /\ NewDir(ks, m, D, W, m.envs[e].env_pgdir)
                    /\ Spaces(t, D \cup {m.envs[e].env_pgdir}, W) /\ t.cr3 = kern_pgdir
    BY <1>1, EnvCreateSpace
  <1> DEFINE d == m.envs[e].env_pgdir
  <1>3. d \notin Directories(ks)
    BY <1>2 DEF NewDir, D
  <1>4. Directories(m) = D \cup {d} /\ OwnDirs(m) /\ InForce(m) = InForce(ks)
    BY <1>1, <1>2, <1>3, DirsGiven DEF D
  <1>5. Directories(t) = D \cup {d} /\ OwnDirs(t) /\ InForce(t) = InForce(ks)
    BY <1>2, <1>4, DirsSame
  <1>6. Spaces(t, Directories(t), W)
    BY <1>2, <1>5
  <1> QED
    BY <1>2, <1>5, <1>6 DEF EnvSpace, InForce

(* And env_run(). *)
LEMMA RunMem ==
    ASSUME NEW ks \in Kernels, EnvTable(ks), NEW W, EnvSpace(ks, W), NEW e \in Live(ks),
           NEW t, t = env_run(ks, e), t \in Kernels
    PROVE  EnvSpace(t, W)
  <1> DEFINE D == Directories(ks)
             d == ks.envs[e].env_pgdir
             put == IF ks.curenv = NULL THEN ks
                    ELSE [ks EXCEPT !.envs[ks.curenv].env_status = "ENV_RUNNABLE"]
             run == [put EXCEPT !.curenv = e, !.envs[e].env_status = "ENV_RUNNING"]
  <1>1. t = lcr3(run, d)
    BY DEF env_run
  <1>2. Spaces(ks, D, W) /\ OwnDirs(ks)
    BY DEF EnvSpace
  <1>3. d \in D /\ d \in Dirs(D)
    BY DEF Directories, Dirs
  <1>4. e \in EnvIdx /\ (ks.curenv # NULL => ks.curenv \in Live(ks)) /\ e # NULL
    BY TableUse, EnvAssumption DEF Live, EnvIdx
  <1>5. /\ put \in Kernels /\ SameMemory(ks, put)
        /\ Live(put) = Live(ks) /\ \A i \in EnvIdx : put.envs[i].env_pgdir = ks.envs[i].env_pgdir
    <2>1. CASE ks.curenv = NULL
      <3>1. put = ks
        BY <2>1
      <3> HIDE DEF put
      <3> QED
        BY <3>1 DEF SameMemory
    <2>2. CASE ks.curenv # NULL
      <3> DEFINE c == ks.curenv
                 r == [ks.envs[c] EXCEPT !.env_status = "ENV_RUNNABLE"]
                 E == [ks.envs EXCEPT ![c] = r]
      <3>1. c \in EnvIdx /\ c \in Live(ks) /\ ks.envs \in [EnvIdx -> EnvRecord] /\ ks.envs[c] \in EnvRecord
        BY <1>4, <2>2 DEF Live, Kernels
      <3>2. put = [ks EXCEPT !.envs = E]
        BY <2>2, <3>1 DEF Kernels
      <3> HIDE DEF put
      <3>3. r \in EnvRecord /\ r.env_pgdir = ks.envs[c].env_pgdir /\ r.env_status = "ENV_RUNNABLE"
        BY <3>1 DEF EnvRecord, Status
      <3> HIDE DEF r, c
      <3>4. E \in [EnvIdx -> EnvRecord] /\ E[c] = r /\ \A i \in EnvIdx : i # c => E[i] = ks.envs[i]
        BY <3>1, <3>3
      <3> HIDE DEF E
      <3>5. put \in Kernels /\ SameMemory(ks, put) /\ put.envs = E
        BY <3>2, <3>4 DEF Kernels, SameMemory
      <3>6. Live(put) = Live(ks)
        BY <3>1, <3>3, <3>4, <3>5 DEF Live
      <3>7. \A i \in EnvIdx : put.envs[i].env_pgdir = ks.envs[i].env_pgdir
        BY <3>3, <3>4, <3>5
      <3> QED
        BY <3>5, <3>6, <3>7
    <2> QED
      BY <2>1, <2>2
  <1> HIDE DEF put
  <1>6. /\ run \in Kernels /\ SameMemory(put, run) /\ run.curenv = e
        /\ Live(run) = Live(put) /\ \A i \in EnvIdx : run.envs[i].env_pgdir = put.envs[i].env_pgdir
    <2> DEFINE r == [put.envs[e] EXCEPT !.env_status = "ENV_RUNNING"]
               E == [put.envs EXCEPT ![e] = r]
    <2>1. put.envs \in [EnvIdx -> EnvRecord] /\ put.envs[e] \in EnvRecord /\ e \in Live(put)
      BY <1>4, <1>5 DEF Kernels
    <2>2. run = [put EXCEPT !.curenv = e, !.envs = E]
      BY <1>4, <1>5, <2>1 DEF Kernels
    <2> HIDE DEF run
    <2>3. r \in EnvRecord /\ r.env_pgdir = put.envs[e].env_pgdir /\ r.env_status = "ENV_RUNNING"
      BY <2>1 DEF EnvRecord, Status
    <2> HIDE DEF r
    <2>4. E \in [EnvIdx -> EnvRecord] /\ E[e] = r /\ \A i \in EnvIdx : i # e => E[i] = put.envs[i]
      BY <1>4, <2>1, <2>3
    <2> HIDE DEF E
    <2>5. run \in Kernels /\ SameMemory(put, run) /\ run.envs = E /\ run.curenv = e
      BY <1>4, <1>5, <2>2, <2>4 DEF Kernels, SameMemory
    <2>6. Live(run) = Live(put)
      BY <2>1, <2>3, <2>4, <2>5 DEF Live
    <2>7. \A i \in EnvIdx : run.envs[i].env_pgdir = put.envs[i].env_pgdir
      BY <2>3, <2>4, <2>5
    <2> QED
      BY <2>5, <2>6, <2>7
  <1> HIDE DEF run
  <1>7. /\ Live(run) = Live(ks) /\ \A i \in Live(ks) : run.envs[i].env_pgdir = ks.envs[i].env_pgdir
    BY <1>5, <1>6 DEF Live
  <1>8. Directories(run) = D /\ OwnDirs(run)
    BY <1>2, <1>7 DEF Directories, OwnDirs
  <1>9. Spaces(run, D, W)
    <2>1. SameMemory(ks, run) /\ MemType(run)
      BY <1>5, <1>6, KernelMem DEF SameMemory
    <2> QED
      BY <1>2, <2>1, SpaceKept
  <1>10. Spaces(t, D, W) /\ t.cr3 = d /\ SameEnvs(run, t)
    BY <1>1, <1>3, <1>6, <1>9, Lcr3Space
  <1>11. Directories(t) = D /\ OwnDirs(t) /\ InForce(t) = InForce(run)
    BY <1>8, <1>10, DirsSame
  <1>12. InForce(run) = d
    BY <1>4, <1>6, <1>7 DEF InForce
  <1>13. Spaces(t, Directories(t), W)
    BY <1>10, <1>11
  <1> QED
    BY <1>10, <1>11, <1>12, <1>13 DEF EnvSpace

(* And env_destroy(). *)
LEMMA DestroyMem ==
    ASSUME NEW ks \in Kernels, EnvTable(ks), ~Stopped(ks), NEW W, EnvSpace(ks, W),
           NEW e \in Live(ks), NEW f, f = env_free(ks, e),
           NEW t, t = IF e = ks.curenv THEN [f EXCEPT !.curenv = NULL] ELSE f, t \in Kernels
    PROVE  EnvSpace(t, W) /\ ~Stopped(t)
  <1> DEFINE D == Directories(ks)
             d == ks.envs[e].env_pgdir
             D2 == D \ {d}
  <1>1. Spaces(ks, D, W) /\ OwnDirs(ks) /\ ks.cr3 = InForce(ks) /\ ~ks.faulted
    BY DEF EnvSpace, Stopped
  <1>2. d \in D /\ (ks.curenv # NULL => ks.curenv \in Live(ks))
    BY TableUse DEF Directories
  <1>3. e # ks.curenv => ks.cr3 # d
    <2>1. kern_pgdir # d
      BY <1>1, <1>2, SpaceFacts
    <2> QED
      BY <1>1, <1>2, <2>1 DEF InForce, OwnDirs
  <1>d. d = ks.envs[e].env_pgdir
    OBVIOUS
  <1> HIDE DEF D, d
  <1>4. /\ Spaces(f, D \ {d}, W) /\ ~f.faulted
        /\ f.cr3 = IF e = ks.curenv THEN kern_pgdir ELSE ks.cr3
    BY <1>1, <1>2, <1>3, <1>d, EnvFreeSpace
  <1>5. TakesEnv(ks, f, e)
    BY EnvFreeStep
  <1>6. /\ Live(f) = Live(ks) \ {e} /\ \A i \in Live(f) : f.envs[i] = ks.envs[i]
        /\ Directories(f) = D2 /\ OwnDirs(f)
    BY <1>1, <1>5, <1>d, DirsTaken DEF D
  <1>7. f \in Kernels /\ f.curenv = ks.curenv
    BY <1>5 DEF TakesEnv
  <1>8. /\ SameMemory(f, t) /\ t.envs = f.envs /\ t.faulted = f.faulted
        /\ t.curenv = IF e = ks.curenv THEN NULL ELSE ks.curenv
    BY <1>7 DEF SameMemory, Kernels
  <1>9. Spaces(f, D2, W)
    BY <1>4
  <1> HIDE DEF D2
  <1>10. Spaces(t, D2, W)
    BY <1>8, <1>9, KernelMem, SpaceKept
  <1>11. Live(t) = Live(f)
    BY <1>8 DEF Live
  <1>12. Directories(t) = D2 /\ OwnDirs(t)
    BY <1>6, <1>8, <1>11 DEF Directories, OwnDirs
  <1>13. t.cr3 = InForce(t)
    <2>1. CASE e = ks.curenv
      BY <1>4, <1>8, <2>1 DEF InForce, SameMemory
    <2>2. CASE e # ks.curenv
      <3>1. t.cr3 = InForce(ks) /\ t.curenv = ks.curenv
        BY <1>1, <1>4, <1>8, <2>2 DEF SameMemory
      <3>2. ks.curenv # NULL => t.envs[ks.curenv] = ks.envs[ks.curenv]
        BY <1>2, <1>6, <1>8, <2>2
      <3> QED
        BY <3>1, <3>2 DEF InForce
    <2> QED
      BY <2>1, <2>2
  <1>14. Spaces(t, Directories(t), W)
    BY <1>10, <1>12
  <1>15. ~t.panicked
    BY <1>10, SpaceFacts
  <1> QED
    BY <1>4, <1>8, <1>12, <1>13, <1>14, <1>15 DEF EnvSpace, Stopped

(* Above UTOP and outside the window at UVPT no page is the user's. *)
LEMMA KernelPage ==
    ASSUME NEW m, NEW D, NEW W, Spaces(m, D, W), NEW d \in D, NEW va \in VA, va[1] \notin UserSlot,
           va[1] # UVPTSlot, NEW pde, pde = m.pt[d][va[1]], pde # NULL,
           NEW pte, pte = Translate(m, d, va), pte # NULL
    PROVE  "U" \notin pte.perm
  <1> DEFINE s == va[1]
             i == va[2]
             K == kern_pgdir
             t == pde.ppn
  <1>1. s \in Slot /\ i \in Slot /\ va = <<s, i>> /\ s \notin UserSlot
    BY DEF VA
  <1>2. pte = m.pt[t][i]
    BY DEF Translate
  <1>3. s # UVPTSlot
    OBVIOUS
  <1>4. pde = m.pt[K][s]
    BY <1>1, <1>3 DEF Spaces, KernCopy
  <1>5. pde = mem_init.pt[K][s]
    BY <1>1, <1>4, SpaceFacts
  <1>6. t \in Page /\ t \in Kept(mem_init)
    <2>1. MemInv(mem_init, {K}, {}, {})
      BY MemInit
    <2>2. pde \in Entry
      BY <1>1, <1>5, <2>1, KernPgdir DEF MemInv, MemType
    <2>3. t \in Page
      BY <2>2 DEF Entry
    <2>4. s \in UTopSlot .. NSlots - 1 \ {UVPTSlot}
      BY <1>1, <1>3, SlotAssumption DEF Slot, UserSlot
    <2>5. t \in KernTables(mem_init)
      BY <1>5, <2>4 DEF KernTables
    <2> QED
      BY <2>3, <2>5 DEF Kept
  <1>7. pte = mem_init.pt[t][i]
    BY <1>1, <1>2, <1>6 DEF Spaces, AsBooted
  <1>8. pte = Translate(mem_init, K, <<s, i>>)
    BY <1>5, <1>7 DEF Translate
  <1> HIDE DEF s, i, t
  <1> QED
    BY <1>1, <1>3, <1>8, MemInit

(* User code cannot write above UTOP. *)
LEMMA KernelReadOnly ==
    ASSUME NEW m, NEW D, NEW W, Spaces(m, D, W), NEW d \in D, NEW va \in VA, va[1] \notin UserSlot,
           NEW pde, pde = m.pt[d][va[1]], pde # NULL,
           NEW pte, pte = Translate(m, d, va), pte # NULL,
           {"W", "U"} \subseteq pde.perm \cap pte.perm
    PROVE  FALSE
  <1>1. va[1] \in Slot \ UserSlot
    BY DEF VA
  <1>2. CASE va[1] = UVPTSlot
    <2>1. pde = [ppn |-> d, perm |-> {"U"}]
      BY <1>1, <1>2 DEF Spaces, KernCopy
    <2>2. pde.perm = {"U"}
      BY <2>1
    <2> QED
      BY <2>2
  <1>3. CASE va[1] # UVPTSlot
    <2>1. "U" \notin pte.perm
      BY <1>3, KernelPage
    <2> QED
      BY <2>1
  <1> QED
    BY <1>2, <1>3

(* So what it writes changes no address space. *)
LEMMA WriteMem ==
    ASSUME NEW ks \in Kernels, EnvTable(ks), ~Stopped(ks), NEW W, EnvSpace(ks, W),
           ks.curenv # NULL, NEW va \in VA,
           NEW pde, pde = ks.pt[ks.cr3][va[1]], pde # NULL,
           NEW pte, pte = Translate(ks, ks.cr3, va), pte # NULL,
           {"W", "U"} \subseteq pde.perm \cap pte.perm,
           NEW t, t = [ks EXCEPT !.pt[pte.ppn] = DataPage]
    PROVE  EnvSpace(t, W) /\ ~Stopped(t)
  <1> DEFINE D == Directories(ks)
             d == ks.cr3
  <1>1. Spaces(ks, D, W) /\ OwnDirs(ks) /\ d = InForce(ks) /\ ~ks.faulted
    BY DEF EnvSpace, Stopped
  <1>2. d \in D /\ d \in Dirs(D)
    BY <1>1, InForceDir
  <1>d. pde = ks.pt[d][va[1]] /\ pte = Translate(ks, d, va)
    OBVIOUS
  <1> HIDE DEF D, d
  <1>3. va[1] \in UserSlot
    BY <1>1, <1>2, <1>d, KernelReadOnly
  <1>4. va \in UserSlot \X Slot
    BY <1>3 DEF VA
  <1>5. Spaces(t, D, W) /\ t.cr3 = ks.cr3
    BY <1>1, <1>2, <1>4, <1>d, MappedWrite
  <1>6. SameEnvs(ks, t) /\ t.faulted = ks.faulted
    BY DEF Kernels, SameEnvs
  <1>7. Directories(t) = D /\ OwnDirs(t) /\ InForce(t) = InForce(ks)
    BY <1>1, <1>6, DirsSame DEF D
  <1>8. Spaces(t, Directories(t), W)
    BY <1>5, <1>7
  <1>9. ~t.panicked
    BY <1>5, SpaceFacts
  <1> QED
    BY <1>1, <1>5, <1>6, <1>7, <1>8, <1>9 DEF EnvSpace, Stopped, d

(* The processor caches what the tables in force hold. *)
LEMMA FillMem ==
    ASSUME NEW ks \in Kernels, EnvTable(ks), ~Stopped(ks), NEW W, EnvSpace(ks, W),
           NEW va \in VA, Translate(ks, ks.cr3, va) # NULL,
           NEW t, t = tlb_fill(ks, va), t \in Kernels
    PROVE  EnvSpace(t, W) /\ ~Stopped(t)
  <1> DEFINE D == Directories(ks)
             e == Translate(ks, ks.cr3, va)
             n == [va |-> va, ppn |-> e.ppn, perm |-> e.perm]
             T == ks.tlb \cup {n}
  <1>1. Spaces(ks, D, W) /\ OwnDirs(ks) /\ ks.cr3 = InForce(ks) /\ Coherent(ks) /\ ks.cr3 \in Dirs(D)
    BY DEF EnvSpace, Spaces
  <1>2. t = [ks EXCEPT !.tlb = T]
    BY DEF tlb_fill
  <1>3. e \in [ppn : Page, perm : Perm]
    <2>1. ks.cr3 \in Page
      BY DEF Kernels
    <2>2. e \in Entry
      BY <2>1, TranslateType
    <2> QED
      BY <2>2 DEF Entry
  <1>4. e = [ppn |-> e.ppn, perm |-> e.perm]
    BY <1>3
  <1>e. e = Translate(ks, ks.cr3, va)
    OBVIOUS
  <1> HIDE DEF e
  <1>5. n.va = va /\ n.ppn = e.ppn /\ n.perm = e.perm
    OBVIOUS
  <1> HIDE DEF n
  <1>t. T = ks.tlb \cup {n}
    OBVIOUS
  <1> HIDE DEF T
  <1>6. /\ SameEnvs(ks, t) /\ t.faulted = ks.faulted /\ t.tlb = T
        /\ t.panicked = ks.panicked /\ t.pp_ref = ks.pp_ref /\ t.pp_link = ks.pp_link
        /\ t.page_free_list = ks.page_free_list /\ t.pt = ks.pt /\ t.cr3 = ks.cr3
    BY <1>2 DEF Kernels, SameEnvs
  <1>7. Coherent(t)
    <2> SUFFICES ASSUME NEW x \in T
                 PROVE  Translate(t, t.cr3, x.va) = [ppn |-> x.ppn, perm |-> x.perm]
      BY <1>6 DEF Coherent
    <2>1. Translate(t, t.cr3, x.va) = Translate(ks, ks.cr3, x.va)
      BY <1>6 DEF Translate
    <2>2. CASE x \in ks.tlb
      BY <1>1, <2>1, <2>2 DEF Coherent
    <2>3. CASE x = n
      BY <1>4, <1>5, <1>e, <2>1, <2>3
    <2> QED
      BY <1>t, <2>2, <2>3
  <1> HIDE DEF D
  <1>8. Spaces(t, D, W)
    <2>1. MemType(t) /\ t.cr3 \in Dirs(D)
      BY <1>1, <1>6, KernelMem
    <2> QED
      BY <1>1, <1>6, <1>7, <2>1, SpaceFrame
  <1>9. Directories(t) = D /\ OwnDirs(t) /\ InForce(t) = InForce(ks)
    BY <1>1, <1>6, DirsSame DEF D
  <1>10. Spaces(t, Directories(t), W)
    BY <1>8, <1>9
  <1> QED
    BY <1>1, <1>6, <1>9, <1>10 DEF EnvSpace, Stopped

(* What boot leaves, before there are environments. *)
LEMMA BootMem0 ==
    ASSUME NEW x, BootState(x), x.pages \subseteq Page, NEW t, t = env_init(x.m)
    PROVE  EnvSpace(t, x.pages) /\ ~Stopped(t)
  <1> DEFINE m == x.m
             W == x.pages
  <1>1. /\ MemInv(m, {kern_pgdir}, W, {})
        /\ m.pt = mem_init.pt /\ m.cr3 = kern_pgdir /\ m.tlb = {} /\ m.panicked = FALSE
    BY DEF BootState
  <1>2. MemType(m)
    BY <1>1 DEF MemInv
  <1>3. t = env_init(m)
    OBVIOUS
  <1> HIDE DEF m, W
  <1>4. /\ t \in Kernels /\ Live(t) = {} /\ t.curenv = NULL
        /\ t.pp_ref = m.pp_ref /\ t.pp_link = m.pp_link
        /\ t.page_free_list = m.page_free_list /\ t.panicked = m.panicked
        /\ t.pt = m.pt /\ t.cr3 = m.cr3 /\ t.tlb = m.tlb
        /\ ~t.faulted
    BY <1>1, <1>2, <1>3, EnvInitStep
  <1>5. Dirs({}) = {kern_pgdir} /\ W \cup {} = W
    BY DEF Dirs
  <1>6. MemInv(m, Dirs({}), W \cup {}, {})
    BY <1>1, <1>5
  <1>7. \A p : Refs(m, Dirs({}), p) = {}
    <2>0. MemInv(mem_init, {kern_pgdir}, {}, {}) /\ \A s \in UserSlot : mem_init.pt[kern_pgdir][s] = NULL
      BY MemInit
    <2>1. \A s \in UserSlot : m.pt[kern_pgdir][s] = NULL
      BY <1>1, <2>0
    <2>2. \A q : ~IsTable(m, Dirs({}), q)
      BY <1>5, <2>1 DEF IsTable, Names
    <2> QED
      BY <1>5, <2>1, <2>2 DEF Refs, Names
  <1>8. Spaces(m, {}, W)
    <2>1. Single(m, Dirs({})) /\ \A p \in W : Refs(m, Dirs({}), p) = {}
      BY <1>7 DEF Single
    <2>2. AsBooted(m) /\ KernCopy(m, {}) /\ UserPdes(m, {})
      BY <1>1 DEF AsBooted, KernCopy, UserPdes
    <2>3. Coherent(m) /\ m.cr3 \in Dirs({})
      BY <1>1, <1>5 DEF Coherent
    <2> QED
      BY <1>6, <2>1, <2>2, <2>3 DEF Spaces
  <1>9. Spaces(t, {}, W)
    <2>1. SameMemory(m, t) /\ MemType(t)
      BY <1>4, KernelMem DEF SameMemory
    <2> QED
      BY <1>8, <2>1, SpaceKept
  <1>10. Directories(t) = {} /\ OwnDirs(t) /\ InForce(t) = kern_pgdir
    BY <1>4 DEF Directories, OwnDirs, InForce
  <1>11. Spaces(t, Directories(t), W)
    BY <1>9, <1>10
  <1> QED
    BY <1>1, <1>4, <1>10, <1>11 DEF EnvSpace, Stopped, W

(* What UserRefs() holds: entries of the directory and of its tables. *)
LEMMA UserRefsIn ==
    ASSUME NEW m, NEW d, NEW p, NEW r
    PROVE  r \in UserRefs(m, d, p) <=>
               \/ \E i \in UserSlot : r = <<d, i>> /\ Names(m, d, i, p)
               \/ \E s \in UserSlot : m.pt[d][s] # NULL
                     /\ \E i \in Slot : /\ r = <<m.pt[d][s].ppn, i>>
                                        /\ Names(m, m.pt[d][s].ppn, i, p)
  <1> DEFINE tables == {m.pt[d][i].ppn : i \in {i \in UserSlot : m.pt[d][i] # NULL}}
             at(t, slots) == {<<t, i>> : i \in {i \in slots :
                                  m.pt[t][i] # NULL /\ m.pt[t][i].ppn = p}}
  <1>1. UserRefs(m, d, p) = at(d, UserSlot) \cup UNION {at(t, Slot) : t \in tables}
    BY DEF UserRefs
  <1>2. \A t, slots : r \in at(t, slots) <=> \E i \in slots : r = <<t, i>> /\ Names(m, t, i, p)
    BY DEF Names
  <1>3. \A t : t \in tables <=> \E s \in UserSlot : m.pt[d][s] # NULL /\ t = m.pt[d][s].ppn
    OBVIOUS
  <1> HIDE DEF tables, at
  <1>4. r \in UserRefs(m, d, p) <=> r \in at(d, UserSlot) \/ \E t \in tables : r \in at(t, Slot)
    BY <1>1
  <1> QED
    BY <1>2, <1>3, <1>4

(* The references of all the address spaces together. *)
LEMMA SpaceRefs ==
    ASSUME NEW m, NEW D, NEW W, Spaces(m, D, W), NEW p
    PROVE  UNION {UserRefs(m, d, p) : d \in D} = Refs(m, Dirs(D), p)
  <1>0. /\ D \subseteq Page /\ UserSlot \subseteq Slot /\ D \subseteq Dirs(D)
        /\ \A c \in Dirs(D) : c \in D \/ c = kern_pgdir
        /\ \A s \in UserSlot : m.pt[kern_pgdir][s] = NULL
        /\ MemInv(m, Dirs(D), W \cup D, D)
    <2>1. D \subseteq Page /\ \A s \in UserSlot : m.pt[kern_pgdir][s] = NULL
      BY SpaceFacts
    <2>2. UserSlot \subseteq Slot
      BY SlotAssumption DEF UserSlot, Slot
    <2>3. MemInv(m, Dirs(D), W \cup D, D)
      BY DEF Spaces
    <2> QED
      BY <2>1, <2>2, <2>3 DEF Dirs
  <1>1. ASSUME NEW d \in D, NEW r \in UserRefs(m, d, p) PROVE r \in Refs(m, Dirs(D), p)
    <2>1. CASE \E i \in UserSlot : r = <<d, i>> /\ Names(m, d, i, p)
      BY <1>0, <2>1 DEF Refs
    <2>2. CASE \E s \in UserSlot : m.pt[d][s] # NULL
                  /\ \E i \in Slot : /\ r = <<m.pt[d][s].ppn, i>>
                                     /\ Names(m, m.pt[d][s].ppn, i, p)
      <3>1. PICK s \in UserSlot : m.pt[d][s] # NULL
                  /\ \E i \in Slot : /\ r = <<m.pt[d][s].ppn, i>>
                                     /\ Names(m, m.pt[d][s].ppn, i, p)
        BY <2>2
      <3> DEFINE t == m.pt[d][s].ppn
      <3>2. PICK i \in Slot : r = <<t, i>> /\ Names(m, t, i, p)
        BY <3>1
      <3>3. t \in Page /\ IsTable(m, Dirs(D), t)
        BY <1>0, <3>1, TableFacts
      <3> HIDE DEF t
      <3> QED
        BY <3>2, <3>3 DEF Refs
    <2> QED
      BY <2>1, <2>2, UserRefsIn
  <1>2. ASSUME NEW r \in Refs(m, Dirs(D), p) PROVE \E d \in D : r \in UserRefs(m, d, p)
    <2>1. PICK t \in Page, i \in Slot : r = <<t, i>>
      BY DEF Refs
    <2>2. Names(m, t, i, p) /\ ((t \in Dirs(D) /\ i \in UserSlot) \/ IsTable(m, Dirs(D), t))
      BY <2>1 DEF Refs
    <2>3. CASE t \in Dirs(D) /\ i \in UserSlot
      <3>1. t \in D
        BY <1>0, <2>2, <2>3 DEF Names
      <3> QED
        BY <2>1, <2>2, <2>3, <3>1, UserRefsIn
    <2>4. CASE IsTable(m, Dirs(D), t)
      <3>1. PICK c \in Dirs(D), s \in UserSlot : m.pt[c][s] # NULL /\ m.pt[c][s].ppn = t
        BY <2>4 DEF IsTable, Names
      <3>2. c \in D
        BY <1>0, <3>1
      <3>3. r = <<m.pt[c][s].ppn, i>> /\ Names(m, m.pt[c][s].ppn, i, p)
        BY <2>1, <2>2, <3>1
      <3>4. r \in UserRefs(m, c, p)
        BY <3>1, <3>3, UserRefsIn
      <3> QED
        BY <3>2, <3>4
    <2> QED
      BY <2>2, <2>3, <2>4
  <1> QED
    BY <1>1, <1>2

(* A directory is referred to by its environment alone, everything else by *)
(* page table entries alone.                                               *)
LEMMA EnvRefsAre ==
    ASSUME NEW ks \in Kernels, NEW W, EnvSpace(ks, W), NEW p \in Page
    PROVE  LET D == Directories(ks)
           IN  /\ p \in D => Refs(ks, Dirs(D), p) = {} /\ \E x : EnvRefs(ks, p) = {x}
               /\ p \notin D => EnvRefs(ks, p) = Refs(ks, Dirs(D), p)
  <1> DEFINE D == Directories(ks)
             own == {<<"env_pgdir", i>> : i \in {i \in Live(ks) : ks.envs[i].env_pgdir = p}}
  <1>1. Spaces(ks, D, W) /\ OwnDirs(ks)
    BY DEF EnvSpace
  <1>2. EnvRefs(ks, p) = Refs(ks, Dirs(D), p) \cup own
    BY <1>1, SpaceRefs DEF EnvRefs
  <1>3. CASE p \in D
    <2>1. Refs(ks, Dirs(D), p) = {}
      BY <1>1, <1>3 DEF Spaces, MemInv, Apart, Dirs
    <2>2. PICK e \in Live(ks) : ks.envs[e].env_pgdir = p
      BY <1>3 DEF Directories
    <2>3. \A i \in Live(ks) : ks.envs[i].env_pgdir = p <=> i = e
      BY <1>1, <2>2 DEF OwnDirs
    <2>4. own = {<<"env_pgdir", e>>}
      BY <2>3
    <2> QED
      BY <1>2, <1>3, <2>1, <2>4
  <1>4. CASE p \notin D
    <2>1. own = {}
      BY <1>4 DEF Directories
    <2> QED
      BY <1>2, <1>4, <2>1
  <1> QED
    BY <1>3, <1>4
=============================================================================
