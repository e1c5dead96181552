----------------------------- MODULE PmapTests -----------------------------
(***************************************************************************)
(* The self-tests that mem_init() of project3/kern/pmap.c runs at boot, as *)
(* the sequences of calls and assertions they are.  Module Boot carries    *)
(* them out.  A page is named by the C variable that points to it.         *)
(***************************************************************************)
EXTENDS Integers, Sequences

(* Calls and the assertions made of their results. *)
Alloc(x)                 == [do |-> "alloc", x |-> x]        \* assert((x = page_alloc(0)))
AllocIs(x)               == [do |-> "realloc", x |-> x, zero |-> FALSE]  \* assert(page_alloc(0) == x)
AllocZeroIs(x)           == [do |-> "realloc", x |-> x, zero |-> TRUE]   \* ... ALLOC_ZERO
Free(x)                  == [do |-> "free", x |-> x]
Insert(x, va, perm)      == [do |-> "insert", x |-> x, va |-> va, perm |-> perm, fails |-> FALSE]
InsertFails(x, va, perm) == [do |-> "insert", x |-> x, va |-> va, perm |-> perm, fails |-> TRUE]
Remove(va)               == [do |-> "remove", va |-> va]
Walk(va)                 == [do |-> "walk", va |-> va]       \* pgdir_walk(kern_pgdir, va, 1)
Fill(x, n)               == [do |-> "fill", x |-> x, n |-> n]   \* memset(page2kva(x), n, PGSIZE)
StoreVA(va, n)           == [do |-> "store", va |-> va, n |-> n]
LoadVA(va, n)            == [do |-> "load", va |-> va, n |-> n] \* assert(*va == n)
CountFree                == [do |-> "count"]
Steal                    == [do |-> "steal"]                 \* fl = page_free_list; ... = 0
GiveBack                 == [do |-> "give_back"]
DropTable(va, x)         == [do |-> "drop_table", va |-> va, x |-> x]

(* Assertions that change nothing. *)
Assert(is)               == [do |-> "assert", is |-> is]
NoneLeft                 == Assert("none_left")              \* !page_alloc(0)
Distinct                 == Assert("distinct")
SameCount                == Assert("same_count")
About(is, x)             == [do |-> "assert", is |-> is, x |-> x]
Zeroed(x)                == About("zeroed", x)
Unlinked(x)              == About("unlinked", x)
Ref(x, n)                == [do |-> "assert", is |-> "ref", x |-> x, n |-> n]
Holds(x, n)              == [do |-> "assert", is |-> "holds", x |-> x, n |-> n]
MapsTo(va, x)            == [do |-> "assert", is |-> "maps_to", va |-> va, x |-> x]
TableIs(va, x)           == [do |-> "assert", is |-> "table_is", va |-> va, x |-> x]
Unmapped(va)             == [do |-> "assert", is |-> "unmapped", va |-> va]
WalkFinds(va)            == [do |-> "assert", is |-> "walk_finds", va |-> va]
Allows(va, p)            == [do |-> "assert", is |-> "allows", va |-> va, p |-> p]
TableAllows(va, p)       == [do |-> "assert", is |-> "table_allows", va |-> va, p |-> p]
Forbids(va, p)           == [do |-> "assert", is |-> "forbids", va |-> va, p |-> p]

v0 == <<0, 0>>      \* 0x0
v1 == <<0, 1>>      \* PGSIZE
t1 == <<1, 0>>      \* PTSIZE
t2 == <<1, 1>>      \* PGSIZE * NPDENTRIES + PGSIZE

TakeThree == <<Alloc("pp0"), Alloc("pp1"), Alloc("pp2"), Distinct>>
FreeThree == <<Free("pp0"), Free("pp1"), Free("pp2")>>

-----------------------------------------------------------------------------
check_page_alloc ==
    <<CountFree>> \o TakeThree \o <<Steal, NoneLeft>>
    \* free and re-allocate, then ALLOC_ZERO
    \o FreeThree \o TakeThree
    \o <<NoneLeft, Fill("pp0", 1), Free("pp0"), AllocZeroIs("pp0"), Zeroed("pp0"), GiveBack>>
    \o FreeThree \o <<SameCount>>

check_page ==
    TakeThree
    \o <<Steal, NoneLeft, Unmapped(v0), InsertFails("pp1", v0, {"W"}),
         \* pp0 becomes the page table
         Free("pp0"), Insert("pp1", v0, {"W"}), TableIs(v0, "pp0"), MapsTo(v0, "pp1"),
         Ref("pp1", 1), Ref("pp0", 1),
         Insert("pp2", v1, {"W"}), MapsTo(v1, "pp2"), Ref("pp2", 1), NoneLeft,
         \* over itself
         Insert("pp2", v1, {"W"}), MapsTo(v1, "pp2"), Ref("pp2", 1), NoneLeft, WalkFinds(v1),
         Insert("pp2", v1, {"W", "U"}), MapsTo(v1, "pp2"), Ref("pp2", 1),
         Allows(v1, "U"), TableAllows(v1, "U"),
         Insert("pp2", v1, {"W"}), Allows(v1, "W"), Forbids(v1, "U"),
         InsertFails("pp0", t1, {"W"}),
         \* pp1 replaces pp2
         Insert("pp1", v1, {"W"}), Forbids(v1, "U"), MapsTo(v0, "pp1"), MapsTo(v1, "pp1"),
         Ref("pp1", 2), Ref("pp2", 0), AllocIs("pp2"),
         Remove(v0), Unmapped(v0), MapsTo(v1, "pp1"), Ref("pp1", 1), Ref("pp2", 0),
         Insert("pp1", v1, {}), Ref("pp1", 1), Unlinked("pp1"),
         Remove(v1), Unmapped(v0), Unmapped(v1), Ref("pp1", 0), Ref("pp2", 0),
         AllocIs("pp1"), NoneLeft, TableIs(v0, "pp0"), Ref("pp0", 1), DropTable(v0, "pp0"),
         \* pgdir_walk() alone, and into a page that holds other data
         Free("pp0"), Walk(t2), WalkFinds(t2), DropTable(t2, "pp0"),
         Fill("pp0", 255), Free("pp0"), Walk(v0), Zeroed("pp0"), DropTable(v0, "pp0"),
         GiveBack>>
    \o FreeThree

check_page_installed_pgdir ==
    <<Alloc("pp0"), Alloc("pp1"), Alloc("pp2"), Free("pp0"), Fill("pp1", 1), Fill("pp2", 2),
      Insert("pp1", v1, {"W"}), Ref("pp1", 1), LoadVA(v1, 1),
      Insert("pp2", v1, {"W"}), LoadVA(v1, 2), Ref("pp2", 1), Ref("pp1", 0),
      StoreVA(v1, 3), Holds("pp2", 3),
      Remove(v1), Ref("pp2", 0), TableIs(v0, "pp0"), Ref("pp0", 1), DropTable(v0, "pp0"),
      Free("pp0")>>
=============================================================================
