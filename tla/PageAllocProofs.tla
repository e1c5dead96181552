-------------------------- MODULE PageAllocProofs --------------------------
(***************************************************************************)
(* Theorems about Alloc, for every number of pages, every layout of    *)
(* physical memory and every width of pp_ref.                              *)
(*                                                                         *)
(* The induction invariant adds to the exact free list that a page off the *)
(* list has a NULL link, which is what keeps page_free() from mistaking a  *)
(* page in use for a free one.                                             *)
(***************************************************************************)
EXTENDS PageAlloc, KernelLemmas

RecordOK(m) ==
    m \in [pp_ref : [Page -> 0 .. RefMax],
           pp_link : [Page -> PageOrNull],
           page_free_list : PageOrNull,
           panicked : BOOLEAN]

-----------------------------------------------------------------------------
(* The three operations of the allocator, on any record whose free list    *)
(* holds the pages F: what they return, and what becomes of the list.      *)

(* page_alloc() takes a page of F off the list and unlinks it; it fails    *)
(* only when F is empty.                                                   *)
LEMMA AllocCorrect ==
    ASSUME NEW m, RecordOK(m), NEW F \in SUBSET Page,
           SomeFreeList(m, F), UnlinkedOutside(m, F)
    PROVE  LET p == page_alloc_ret(m)
               a == page_alloc(m)
           IN  /\ RecordOK(a)
               /\ a.pp_ref = m.pp_ref /\ a.panicked = m.panicked
               /\ p = NULL => F = {} /\ a = m
               /\ p # NULL => p \in F
               /\ SomeFreeList(a, F \ {p})
               /\ UnlinkedOutside(a, F \ {p})
  <1> DEFINE p == page_alloc_ret(m)
             a == page_alloc(m)
  <1>1. CASE m.page_free_list = NULL
    <2>1. p = NULL /\ a = m /\ F = {} /\ F \ {p} = F
      BY <1>1, ListHead, NullAssumption DEF page_alloc_ret, page_alloc, Page
    <2> QED
      BY <2>1
  <1>2. CASE m.page_free_list # NULL
    <2>1. p \in F /\ p \in Page /\ p = m.page_free_list
      BY <1>2, ListHead, NullAssumption DEF page_alloc_ret, Page
    <2>2. a = [m EXCEPT !.pp_link[p] = NULL, !.page_free_list = m.pp_link[p]]
      BY <1>2 DEF page_alloc, page_alloc_ret
    <2>3. /\ a.page_free_list = m.pp_link[p]
          /\ a.pp_link = [m.pp_link EXCEPT ![p] = NULL]
          /\ a.pp_ref = m.pp_ref /\ a.panicked = m.panicked
      BY <2>2 DEF RecordOK
    <2>4. RecordOK(a)
      <3>1. m.pp_link[p] \in PageOrNull /\ NULL \in PageOrNull
        BY <2>1 DEF RecordOK, PageOrNull
      <3>2. a = [pp_ref |-> m.pp_ref, pp_link |-> [m.pp_link EXCEPT ![p] = NULL],
                 page_free_list |-> m.pp_link[p], panicked |-> m.panicked]
        <4> HIDE DEF a, p
        <4> QED
          BY <2>2 DEF RecordOK
      <3> HIDE DEF a, p
      <3> QED
        BY <3>1, <3>2 DEF RecordOK
    <2>5. \A q \in Page \ {p} : a.pp_link[q] = m.pp_link[q]
      BY <2>3 DEF RecordOK
    <2>6. a.pp_link[p] = NULL
      BY <2>1, <2>3 DEF RecordOK
    <2>7. SomeFreeList(a, F \ {p})
      BY <1>2, <2>1, <2>3, <2>5, ListPop
    <2>8. UnlinkedOutside(a, F \ {p})
      BY <2>5, <2>6 DEF UnlinkedOutside
    <2> QED
      BY <1>2, <2>1, <2>3, <2>4, <2>7, <2>8
  <1> QED
    BY <1>1, <1>2

(* page_free() of an unreferenced page that is off the list does not panic *)
(* and adds the page to the list.                                          *)
LEMMA FreeCorrect ==
    ASSUME NEW m, RecordOK(m), NEW F \in SUBSET Page,
           SomeFreeList(m, F), UnlinkedOutside(m, F),
           NEW pp \in Page \ F, m.pp_ref[pp] = 0
    PROVE  LET a == page_free(m, pp)
           IN  /\ RecordOK(a)
               /\ a.pp_ref = m.pp_ref /\ a.panicked = m.panicked
               /\ SomeFreeList(a, F \cup {pp})
               /\ UnlinkedOutside(a, F \cup {pp})
  <1> DEFINE a == page_free(m, pp)
  <1>1. m.pp_link[pp] = NULL
    BY DEF UnlinkedOutside
  <1>2. a = [m EXCEPT !.pp_link[pp] = m.page_free_list, !.page_free_list = pp]
    BY <1>1 DEF page_free
  <1>3. /\ a.page_free_list = pp
        /\ a.pp_link = [m.pp_link EXCEPT ![pp] = m.page_free_list]
        /\ a.pp_ref = m.pp_ref /\ a.panicked = m.panicked
    BY <1>2 DEF RecordOK
  <1>4. RecordOK(a)
    <2>1. pp \in PageOrNull /\ m.page_free_list \in PageOrNull
      BY DEF RecordOK, PageOrNull
    <2>2. a = [pp_ref |-> m.pp_ref, pp_link |-> [m.pp_link EXCEPT ![pp] = m.page_free_list],
               page_free_list |-> pp, panicked |-> m.panicked]
      BY <1>2 DEF RecordOK
    <2> QED
      BY <2>1, <2>2 DEF RecordOK
  <1>5. \A q \in Page \ {pp} : a.pp_link[q] = m.pp_link[q]
    BY <1>3 DEF RecordOK
  <1>6. a.pp_link[pp] = m.page_free_list
    BY <1>3 DEF RecordOK
  <1>7. SomeFreeList(a, F \cup {pp})
    <2>1. \A q \in F : a.pp_link[q] = m.pp_link[q]
      BY <1>5
    <2> HIDE DEF a
    <2> QED
      BY <1>3, <1>6, <2>1, ListPush
  <1>8. UnlinkedOutside(a, F \cup {pp})
    BY <1>5 DEF UnlinkedOutside
  <1> QED
    BY <1>3, <1>4, <1>7, <1>8

-----------------------------------------------------------------------------
(* What callers hold was classified by page_init() and is not reserved. *)
OwnersOK ==
    /\ \A p \in owned : p < next /\ p \notin ReservedPages
    /\ returned \notin ReservedPages

(* The reserved pages page_init() has seen keep their one reference. *)
ReservedOK == \A p \in ReservedPages : p < next => book.pp_ref[p] = 1

(* The induction invariant. *)
Inv ==
    /\ TypeOK
    /\ NoPanic
    /\ SomeFreeList(book, FreePages)
    /\ UnlinkedOutside(book, FreePages)
    /\ OwnersOK
    /\ ReservedOK

USE DEF ReservedPages

(* What page_init() leaves satisfies the invariant. *)
LEMMA InitInv == PoolInit => Inv
  <1> SUFFICES ASSUME PoolInit PROVE Inv
    OBVIOUS
  <1> USE NPagesAssumption, RefMaxAssumption
  <1>0. 0 \in Page /\ 1 \in 1 .. NPages
    BY DEF Page
  <1>1. /\ book = [pp_ref |-> [[p \in Page |-> 0] EXCEPT ![0] = 1],
                  pp_link |-> [p \in Page |-> NULL],
                  page_free_list |-> NULL, panicked |-> FALSE]
        /\ book.pp_ref[0] = 1
        /\ next = 1 /\ owned = {} /\ returned = NULL
    BY <1>0 DEF PoolInit, PagesBeforeLoop
  <1>2. TypeOK
    <2>0. 0 \in 0 .. RefMax /\ 1 \in 0 .. RefMax
      OBVIOUS
    <2>1. [[p \in Page |-> 0] EXCEPT ![0] = 1] \in [Page -> 0 .. RefMax]
      BY <2>0
    <2> QED
      BY <1>0, <1>1, <2>1 DEF TypeOK, PageOrNull
  <1>3. FreePages = {}
    BY <1>1 DEF FreePages, Page
  <1>4. SomeFreeList(book, {})
    <2> DEFINE s == [j \in 1 .. 0 |-> 0]
    <2>1. s \in [1 .. 0 -> {}]
      OBVIOUS
    <2>2. IsFreeList(book, {}, 0, s)
      BY <1>1, <2>1 DEF IsFreeList
    <2> QED
      BY <2>1, <2>2 DEF SomeFreeList
  <1>5. UnlinkedOutside(book, {})
    BY <1>1 DEF UnlinkedOutside
  <1>6. OwnersOK
    BY <1>1, NullAssumption DEF OwnersOK, Page
  <1>7. ReservedOK
    BY <1>1 DEF ReservedOK, Page
  <1> QED
    BY <1>1, <1>2, <1>3, <1>4, <1>5, <1>6, <1>7 DEF Inv, NoPanic

(* page_init() classifies one more page. *)
LEMMA PageInitInv == Inv /\ PageInit => Inv'
  <1> SUFFICES ASSUME Inv, PageInit PROVE Inv'
    OBVIOUS
  <1> USE NPagesAssumption, RefMaxAssumption
  <1>1. next \in Page /\ next \in Nat \ {0} /\ next \notin FreePages /\ next \notin owned
    BY DEF Inv, TypeOK, PageInit, Page, FreePages, OwnersOK
  <1>2. next' = next + 1 /\ next' \in 1 .. NPages /\ UNCHANGED <<owned, returned>>
    BY <1>1 DEF PageInit, Page
  <1>3. RecordOK(book) /\ FreePages \in SUBSET Page
    BY DEF Inv, TypeOK, RecordOK, FreePages
  <1>4. CASE InitiallyFree(next)
    <2>1. book' = [pp_ref |-> [book.pp_ref EXCEPT ![next] = 0],
                  pp_link |-> [book.pp_link EXCEPT ![next] = book.page_free_list],
                  page_free_list |-> next, panicked |-> book.panicked]
      BY <1>3, <1>4 DEF PageInit, page_init_step, RecordOK
    <2>2. /\ book'.pp_link[next] = book.page_free_list /\ book'.pp_ref[next] = 0
          /\ \A p \in Page \ {next} :
                book'.pp_link[p] = book.pp_link[p] /\ book'.pp_ref[p] = book.pp_ref[p]
      BY <1>1, <1>3, <2>1 DEF RecordOK
    <2>3. TypeOK'
      <3>1. next \in PageOrNull /\ book.page_free_list \in PageOrNull
        BY <1>1, <1>3 DEF RecordOK, PageOrNull
      <3>2. book'.pp_link \in [Page -> PageOrNull]
        BY <1>3, <2>1, <3>1 DEF RecordOK
      <3>3. 0 \in 0 .. RefMax /\ 1 \in 0 .. RefMax
        OBVIOUS
      <3>4. book'.pp_ref \in [Page -> 0 .. RefMax]
        BY <1>3, <2>1, <3>3 DEF RecordOK
      <3> QED
        BY <1>2, <1>3, <2>1, <3>1, <3>2, <3>4 DEF Inv, TypeOK, RecordOK
    <2>4. FreePages' = FreePages \cup {next}
      BY <1>1, <1>2, <2>2 DEF FreePages, Page
    <2>5. SomeFreeList(book', FreePages \cup {next})
      <3>1. book'.page_free_list = next
        BY <2>1
      <3>2. SomeFreeList(book, FreePages) /\ next \in Page \ FreePages
        BY <1>1 DEF Inv
      <3>3. \A p \in FreePages : book'.pp_link[p] = book.pp_link[p]
        BY <1>1, <1>3, <2>2
      <3> QED
        BY <1>3, <2>2, <3>1, <3>2, <3>3, ListPush
    <2>6. UnlinkedOutside(book', FreePages \cup {next})
      BY <2>2 DEF Inv, UnlinkedOutside
    <2>7. next \notin ReservedPages
      BY <1>1, <1>4, LayoutAssumption DEF InitiallyFree, Page
    <2>8. OwnersOK'
      BY <1>1, <1>2 DEF Inv, OwnersOK, TypeOK, Page
    <2>9. ReservedOK'
      BY <1>1, <1>2, <2>2, <2>7 DEF Inv, ReservedOK, Page
    <2> QED
      BY <2>1, <2>3, <2>4, <2>5, <2>6, <2>8, <2>9 DEF Inv, NoPanic
  <1>5. CASE ~InitiallyFree(next)
    <2>1. book' = [pp_ref |-> [book.pp_ref EXCEPT ![next] = 1],
                  pp_link |-> [book.pp_link EXCEPT ![next] = NULL],
                  page_free_list |-> book.page_free_list, panicked |-> book.panicked]
      BY <1>3, <1>5 DEF PageInit, page_init_step, RecordOK
    <2>2. /\ book'.pp_link[next] = NULL /\ book'.pp_ref[next] = 1
          /\ \A p \in Page \ {next} :
                book'.pp_link[p] = book.pp_link[p] /\ book'.pp_ref[p] = book.pp_ref[p]
      BY <1>1, <1>3, <2>1 DEF RecordOK
    <2>3. TypeOK'
      <3>1. NULL \in PageOrNull
        BY DEF PageOrNull
      <3>2. book'.pp_link \in [Page -> PageOrNull]
        BY <1>3, <2>1, <3>1 DEF RecordOK
      <3>3. 0 \in 0 .. RefMax /\ 1 \in 0 .. RefMax
        OBVIOUS
      <3>4. book'.pp_ref \in [Page -> 0 .. RefMax]
        BY <1>3, <2>1, <3>3 DEF RecordOK
      <3> QED
        BY <1>2, <1>3, <2>1, <3>2, <3>4 DEF Inv, TypeOK, RecordOK
    <2>4. FreePages' = FreePages
      BY <1>1, <1>2, <2>2 DEF FreePages, Page
    <2>5. SomeFreeList(book', FreePages)
      <3>1. \A p \in FreePages : book'.pp_link[p] = book.pp_link[p]
        BY <1>1, <1>3, <2>2
      <3>2. SomeFreeList(book, FreePages) /\ book'.page_free_list = book.page_free_list
        BY <2>1 DEF Inv
      <3> QED
        BY <1>3, <3>1, <3>2, ListFrame
    <2>6. UnlinkedOutside(book', FreePages)
      BY <2>2 DEF Inv, UnlinkedOutside
    <2>8. OwnersOK'
      BY <1>1, <1>2 DEF Inv, OwnersOK, TypeOK, Page
    <2>9. ReservedOK'
      BY <1>1, <1>2, <2>2 DEF Inv, ReservedOK, Page
    <2> QED
      BY <2>1, <2>3, <2>4, <2>5, <2>6, <2>8, <2>9 DEF Inv, NoPanic
  <1> QED
    BY <1>4, <1>5

(* page_alloc() moves a page from the list to its caller. *)
LEMMA PageAllocInv == Inv /\ Alloc => Inv'
  <1> SUFFICES ASSUME Inv, Alloc PROVE Inv'
    OBVIOUS
  <1> DEFINE p == page_alloc_ret(book)
  <1>1. RecordOK(book) /\ FreePages \in SUBSET Page /\ SomeFreeList(book, FreePages)
        /\ UnlinkedOutside(book, FreePages)
    BY DEF Inv, TypeOK, RecordOK, FreePages
  <1>2. /\ RecordOK(book')
        /\ book'.pp_ref = book.pp_ref /\ book'.panicked = book.panicked
        /\ p = NULL => FreePages = {} /\ book' = book
        /\ p # NULL => p \in FreePages
        /\ SomeFreeList(book', FreePages \ {p})
        /\ UnlinkedOutside(book', FreePages \ {p})
    <2>1. book' = page_alloc(book)
      BY DEF Alloc
    <2> QED
      BY <1>1, <2>1, AllocCorrect
  <1>3. /\ returned' = p /\ next' = next
        /\ owned' = IF p = NULL THEN owned ELSE owned \cup {p}
    BY DEF Alloc
  <1> HIDE DEF p
  <1>4. FreePages' = FreePages \ {p}
    BY <1>2, <1>3, NullAssumption DEF FreePages, Page
  <1>5. TypeOK'
    BY <1>1, <1>2, <1>3 DEF Inv, TypeOK, RecordOK, PageOrNull
  <1>6. p # NULL => p < next /\ p \notin ReservedPages
    BY <1>2 DEF Inv, ReservedOK, FreePages
  <1>7. p = NULL => p \notin ReservedPages
    BY NullAssumption DEF Page
  <1>8. OwnersOK' /\ ReservedOK'
    BY <1>2, <1>3, <1>6, <1>7 DEF Inv, OwnersOK, ReservedOK
  <1> QED
    BY <1>2, <1>4, <1>5, <1>8 DEF Inv, NoPanic

(* A reference to a page somebody holds does not touch the list. *)
LEMMA PageIncrefInv == ASSUME NEW p \in Page PROVE Inv /\ PageIncref(p) => Inv'
  <1> SUFFICES ASSUME Inv, PageIncref(p) PROVE Inv'
    OBVIOUS
  <1>1. RecordOK(book) /\ FreePages \in SUBSET Page /\ SomeFreeList(book, FreePages)
        /\ UnlinkedOutside(book, FreePages) /\ p \in owned /\ book.pp_ref[p] \in 0 .. RefMax
    BY DEF Inv, TypeOK, RecordOK, FreePages, PageIncref
  <1>2. /\ book' = [pp_ref |-> [book.pp_ref EXCEPT ![p] = book.pp_ref[p] + 1],
                   pp_link |-> book.pp_link,
                   page_free_list |-> book.page_free_list, panicked |-> book.panicked]
        /\ next' = next /\ owned' = owned /\ returned' = returned
        /\ book.pp_ref[p] + 1 \in 1 .. RefMax
    BY <1>1, RefMaxAssumption DEF PageIncref, page_incref, Incremented, RecordOK
  <1>3. /\ book'.pp_ref[p] # 0
        /\ \A q \in Page \ {p} : book'.pp_ref[q] = book.pp_ref[q]
    BY <1>1, <1>2 DEF RecordOK
  <1>4. TypeOK'
    <2>1. book'.pp_ref \in [Page -> 0 .. RefMax]
      BY <1>1, <1>2 DEF RecordOK
    <2> QED
      BY <1>1, <1>2, <2>1 DEF Inv, TypeOK, RecordOK
  <1>5. FreePages' = FreePages
    BY <1>1, <1>2, <1>3 DEF FreePages
  <1>6. SomeFreeList(book', FreePages) /\ UnlinkedOutside(book', FreePages)
    <2>1. book'.page_free_list = book.page_free_list /\ book'.pp_link = book.pp_link
      BY <1>2
    <2> QED
      BY <1>1, <2>1, ListFrame DEF UnlinkedOutside
  <1>7. OwnersOK' /\ ReservedOK'
    BY <1>1, <1>2, <1>3 DEF Inv, OwnersOK, ReservedOK
  <1> QED
    BY <1>2, <1>4, <1>5, <1>6, <1>7 DEF Inv, NoPanic

(* Dropping the last reference puts the page on the list, dropping another *)
(* one leaves the list alone.                                              *)
LEMMA PageDecrefInv == ASSUME NEW p \in Page PROVE Inv /\ PageDecref(p) => Inv'
  <1> SUFFICES ASSUME Inv, PageDecref(p) PROVE Inv'
    OBVIOUS
  <1> DEFINE d == [book EXCEPT !.pp_ref[p] = Decremented(book.pp_ref[p])]
  <1>1. RecordOK(book) /\ FreePages \in SUBSET Page /\ SomeFreeList(book, FreePages)
        /\ UnlinkedOutside(book, FreePages) /\ p \in owned /\ p \notin FreePages
        /\ book.pp_ref[p] \in 1 .. RefMax
    BY DEF Inv, TypeOK, RecordOK, FreePages, PageDecref
  <1>2. d = [pp_ref |-> [book.pp_ref EXCEPT ![p] = book.pp_ref[p] - 1],
             pp_link |-> book.pp_link,
             page_free_list |-> book.page_free_list, panicked |-> book.panicked]
    BY <1>1 DEF RecordOK, Decremented
  <1>3. book' = IF d.pp_ref[p] = 0 THEN page_free(d, p) ELSE d
    BY DEF PageDecref, page_decref
  <1>4. /\ next' = next /\ returned' = returned
        /\ owned' = IF book'.pp_ref[p] = 0 THEN owned \ {p} ELSE owned
    BY DEF PageDecref
  <1> HIDE DEF d
  <1>5. /\ d.pp_ref[p] = book.pp_ref[p] - 1
        /\ \A q \in Page \ {p} : d.pp_ref[q] = book.pp_ref[q]
        /\ d.pp_link = book.pp_link /\ d.page_free_list = book.page_free_list
        /\ d.panicked = book.panicked
    BY <1>1, <1>2 DEF RecordOK
  <1>6. RecordOK(d)
    <2>1. book.pp_ref[p] - 1 \in 0 .. RefMax
      BY <1>1, RefMaxAssumption
    <2>2. d.pp_ref \in [Page -> 0 .. RefMax]
      BY <1>1, <1>2, <2>1 DEF RecordOK
    <2> QED
      BY <1>1, <1>2, <2>2 DEF RecordOK
  <1>7. SomeFreeList(d, FreePages) /\ UnlinkedOutside(d, FreePages)
    BY <1>1, <1>5, ListFrame DEF UnlinkedOutside
  <1>8. CASE d.pp_ref[p] = 0
    <2>1. /\ RecordOK(book') /\ book'.pp_ref = d.pp_ref /\ book'.panicked = d.panicked
          /\ SomeFreeList(book', FreePages \cup {p})
          /\ UnlinkedOutside(book', FreePages \cup {p})
      BY <1>1, <1>3, <1>6, <1>7, <1>8, FreeCorrect
    <2>2. owned' = owned \ {p} /\ book'.pp_ref[p] = 0
      BY <1>4, <1>8, <2>1
    <2>3. FreePages' = FreePages \cup {p}
      BY <1>1, <1>4, <1>5, <2>1, <2>2 DEF FreePages, Inv, OwnersOK
    <2>4. TypeOK'
      BY <1>4, <2>1, <2>2 DEF Inv, TypeOK, RecordOK
    <2>5. OwnersOK' /\ ReservedOK'
      BY <1>1, <1>4, <1>5, <2>1, <2>2 DEF Inv, OwnersOK, ReservedOK
    <2> QED
      BY <1>5, <2>1, <2>3, <2>4, <2>5 DEF Inv, NoPanic
  <1>9. CASE d.pp_ref[p] # 0
    <2>1. book' = d /\ owned' = owned
      BY <1>3, <1>4, <1>9
    <2>2. FreePages' = FreePages
      BY <1>1, <1>4, <1>5, <2>1 DEF FreePages
    <2>3. TypeOK'
      BY <1>4, <1>6, <2>1 DEF Inv, TypeOK, RecordOK
    <2>4. OwnersOK' /\ ReservedOK'
      BY <1>1, <1>4, <1>5, <2>1 DEF Inv, OwnersOK, ReservedOK
    <2> QED
      BY <1>5, <1>7, <2>1, <2>2, <2>3, <2>4 DEF Inv, NoPanic
  <1> QED
    BY <1>8, <1>9

(* A caller that gives back a page it never referred to. *)
LEMMA PageFreeInv == ASSUME NEW p \in Page PROVE Inv /\ Free(p) => Inv'
  <1> SUFFICES ASSUME Inv, Free(p) PROVE Inv'
    OBVIOUS
  <1>1. RecordOK(book) /\ FreePages \in SUBSET Page /\ SomeFreeList(book, FreePages)
        /\ UnlinkedOutside(book, FreePages) /\ p \in owned /\ p \notin FreePages
        /\ book.pp_ref[p] = 0
    BY DEF Inv, TypeOK, RecordOK, FreePages, Free
  <1>2. /\ book' = page_free(book, p) /\ next' = next /\ returned' = returned
        /\ owned' = owned \ {p}
    BY DEF Free
  <1>3. /\ RecordOK(book') /\ book'.pp_ref = book.pp_ref /\ book'.panicked = book.panicked
        /\ SomeFreeList(book', FreePages \cup {p})
        /\ UnlinkedOutside(book', FreePages \cup {p})
    BY <1>1, <1>2, FreeCorrect
  <1>4. FreePages' = FreePages \cup {p}
    BY <1>1, <1>2, <1>3 DEF FreePages, Inv, OwnersOK
  <1>5. TypeOK'
    BY <1>2, <1>3 DEF Inv, TypeOK, RecordOK
  <1>6. OwnersOK' /\ ReservedOK'
    BY <1>2, <1>3 DEF Inv, OwnersOK, ReservedOK
  <1> QED
    BY <1>3, <1>4, <1>5, <1>6 DEF Inv, NoPanic

(* Every call keeps the invariant. *)
LEMMA StepInv == Inv /\ [PoolNext]_poolVars => Inv'
  <1> SUFFICES ASSUME Inv, [PoolNext]_poolVars PROVE Inv'
    OBVIOUS
  <1>1. CASE PageInit
    BY <1>1, PageInitInv
  <1>2. CASE Alloc
    BY <1>2, PageAllocInv
  <1>3. CASE \E p \in Page : PageIncref(p)
    BY <1>3, PageIncrefInv
  <1>4. CASE \E p \in Page : PageDecref(p)
    BY <1>4, PageDecrefInv
  <1>5. CASE \E p \in Page : Free(p)
    BY <1>5, PageFreeInv
  <1>6. CASE UNCHANGED poolVars
    BY <1>6 DEF poolVars, Inv, TypeOK, NoPanic, FreePages, OwnersOK, ReservedOK
  <1> QED
    BY <1>1, <1>2, <1>3, <1>4, <1>5, <1>6 DEF PoolNext

-----------------------------------------------------------------------------
(* The induction invariant holds in every state of every behaviour. *)
THEOREM Invariance == PoolSpec => []Inv
  BY InitInv, StepInv, PTL DEF PoolSpec

(* The state of the allocator is always of its type. *)
THEOREM TypeCorrect == PoolSpec => []TypeOK
  <1>1. Inv => TypeOK
    BY DEF Inv
  <1> QED
    BY <1>1, Invariance, PTL

(* The free list always holds exactly the pages nobody references or       *)
(* holds, each of them once: no page in use can be handed out, and no page *)
(* is lost.                                                                *)
THEOREM FreeListCorrect == PoolSpec => []FreeListComplete
  <1>1. Inv => FreeListComplete
    BY ListLength DEF Inv, FreeListComplete, FreePages
  <1> QED
    BY <1>1, Invariance, PTL

(* page_free() does not panic for callers that follow the contract. *)
THEOREM NeverPanics == PoolSpec => []NoPanic
  <1>1. Inv => NoPanic
    BY DEF Inv
  <1> QED
    BY <1>1, Invariance, PTL

(* Page 0, the I/O hole and the kernel's pages are never handed out. *)
THEOREM ReservedSafe == PoolSpec => []ReservedUntouched
  <1>1. Inv => ReservedUntouched
    BY DEF Inv, ReservedUntouched, OwnersOK, ReservedOK
  <1> QED
    BY <1>1, Invariance, PTL

(* The allocator implements the abstract pool of pages. *)
THEOREM Refinement == PoolSpec => ImplementsPhysPool
  <1> DEFINE B == {p \in Page : p < next} \ FreePages
  <1>1. PoolInit => Pool!Init
    <2> SUFFICES ASSUME PoolInit PROVE Pool!Init
      OBVIOUS
    <2>1. FreePages = {} /\ returned = NULL
      BY NPagesAssumption DEF PoolInit, PagesBeforeLoop, FreePages, Page
    <2> QED
      BY <2>1 DEF Pool!Init
  <1>2. Inv /\ Inv' /\ [PoolNext]_poolVars => [Pool!Next]_Pool!vars
    <2> SUFFICES ASSUME Inv, Inv', [PoolNext]_poolVars PROVE [Pool!Next]_Pool!vars
      OBVIOUS
    <2>1. CASE PageInit
      <3>1. next \in Page /\ next' = next + 1 /\ next \in Nat /\ returned' = returned
            /\ owned' = owned /\ next \notin owned
        BY <2>1, NPagesAssumption DEF Inv, TypeOK, PageInit, Page, OwnersOK
      <3>2. \A p \in Page \ {next} : book'.pp_ref[p] = book.pp_ref[p]
        BY <2>1, <3>1 DEF PageInit, page_init_step, Inv, TypeOK
      <3>3. next \notin FreePages /\ next \notin B
        BY <3>1 DEF FreePages
      <3>4. CASE next \in FreePages'
        <4>1. FreePages' = FreePages \cup {next} /\ B' = B
          BY <3>1, <3>2, <3>3, <3>4 DEF FreePages, Page
        <4>2. next \notin ReservedPages
          BY <3>1, <3>4 DEF Inv, ReservedOK, FreePages
        <4> QED
          BY <3>1, <3>3, <4>1, <4>2 DEF Pool!Next, Pool!Classify
      <3>5. CASE next \notin FreePages'
        <4>1. FreePages' = FreePages /\ B' = B \cup {next}
          BY <3>1, <3>2, <3>3, <3>5 DEF FreePages, Page
        <4> QED
          BY <3>1, <3>3, <4>1 DEF Pool!Next, Pool!Classify
      <3> QED
        BY <3>4, <3>5
    <2>2. CASE Alloc
      <3> DEFINE p == page_alloc_ret(book)
      <3>1. RecordOK(book) /\ FreePages \in SUBSET Page /\ SomeFreeList(book, FreePages)
            /\ UnlinkedOutside(book, FreePages) /\ book' = page_alloc(book)
        BY <2>2 DEF Inv, TypeOK, RecordOK, FreePages, Alloc
      <3>2. /\ book'.pp_ref = book.pp_ref
            /\ p = NULL => FreePages = {}
            /\ p # NULL => p \in FreePages
        BY <3>1, AllocCorrect
      <3>3. /\ returned' = p /\ next' = next
            /\ owned' = IF p = NULL THEN owned ELSE owned \cup {p}
        BY <2>2 DEF Alloc
      <3> HIDE DEF p
      <3>4. CASE p = NULL
        <4>1. FreePages' = FreePages /\ B' = B /\ FreePages = {}
          BY <3>2, <3>3, <3>4 DEF FreePages
        <4> QED
          BY <3>3, <3>4, <4>1 DEF Pool!Next, Pool!AllocateFails
      <3>5. CASE p # NULL
        <4>1. p \in FreePages /\ FreePages' = FreePages \ {p} /\ B' = B \cup {p}
          BY <3>2, <3>3, <3>5 DEF FreePages
        <4> QED
          BY <3>3, <4>1 DEF Pool!Next, Pool!Allocate
      <3> QED
        BY <3>4, <3>5
    <2>3. ASSUME NEW p \in Page, PageIncref(p) PROVE [Pool!Next]_Pool!vars
      <3>1. /\ book.pp_ref \in [Page -> 0 .. RefMax] /\ p \in owned
            /\ book' = page_incref(book, p)
            /\ next' = next /\ owned' = owned /\ returned' = returned
        BY <2>3 DEF Inv, TypeOK, PageIncref
      <3>2. \A q \in Page \ {p} : book'.pp_ref[q] = book.pp_ref[q]
        BY <3>1 DEF page_incref, Inv, TypeOK
      <3>3. FreePages' = FreePages /\ B' = B
        BY <3>1, <3>2 DEF FreePages
      <3> QED
        BY <3>1, <3>3 DEF Pool!vars
    <2>4. ASSUME NEW p \in Page, PageDecref(p) \/ Free(p) PROVE [Pool!Next]_Pool!vars
      <3>1. /\ book.pp_ref \in [Page -> 0 .. RefMax] /\ p \in owned
            /\ p < next /\ p \notin ReservedPages
            /\ next' = next /\ returned' = returned
        BY <2>4 DEF Inv, TypeOK, PageDecref, Free, OwnersOK
      <3>2. /\ \A q \in Page \ {p} : book'.pp_ref[q] = book.pp_ref[q]
            /\ owned' = IF book'.pp_ref[p] = 0 THEN owned \ {p} ELSE owned
        <4>1. CASE Free(p)
          BY <4>1 DEF Free, page_free, Inv, TypeOK
        <4>2. CASE PageDecref(p)
          <5> DEFINE d == [book EXCEPT !.pp_ref[p] = Decremented(book.pp_ref[p])]
          <5>1. \A q \in Page \ {p} : d.pp_ref[q] = book.pp_ref[q]
            BY DEF Inv, TypeOK
          <5>2. book' = IF d.pp_ref[p] = 0 THEN page_free(d, p) ELSE d
            BY <4>2 DEF PageDecref, page_decref
          <5>3. \A q \in Page : page_free(d, p).pp_ref[q] = d.pp_ref[q]
            BY DEF page_free, Inv, TypeOK
          <5> HIDE DEF d
          <5>4. \A q \in Page \ {p} : book'.pp_ref[q] = book.pp_ref[q]
            BY <5>1, <5>2, <5>3
          <5> QED
            BY <4>2, <5>4 DEF PageDecref
        <4> QED
          BY <2>4, <4>1, <4>2
      <3>3. CASE p \in owned'
        <4>1. FreePages' = FreePages /\ B' = B
          BY <3>1, <3>2, <3>3 DEF FreePages
        <4> QED
          BY <3>1, <4>1 DEF Pool!vars
      <3>4. CASE p \notin owned'
        <4>1. FreePages' = FreePages \cup {p} /\ B' = B \ {p} /\ p \in B
          BY <3>1, <3>2, <3>4 DEF FreePages
        <4> QED
          BY <3>1, <4>1 DEF Pool!Next, Pool!Release
      <3> QED
        BY <3>3, <3>4
    <2>5. CASE UNCHANGED poolVars
      BY <2>5 DEF poolVars, Pool!vars, FreePages
    <2> QED
      BY <2>1, <2>2, <2>3, <2>4, <2>5 DEF PoolNext
  <1> QED
    BY <1>1, <1>2, Invariance, PTL DEF PoolSpec, ImplementsPhysPool, Pool!Spec

=============================================================================
