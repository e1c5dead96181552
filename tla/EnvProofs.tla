----------------------------- MODULE EnvProofs -----------------------------
(***************************************************************************)
(* Proofs about Env: first the table of environments, whatever memory      *)
(* looks like, then memory, whose invariant is that of KernelLemmas for    *)
(* the directories of all environments together.                           *)
(***************************************************************************)
EXTENDS Env, KernelLemmas

-----------------------------------------------------------------------------
(* The invariant of the environments, whatever memory looks like. *)
EnvInv ==
    /\ k \in Kernels /\ EnvTable(k) /\ PastIds(k, past)
    /\ hog \subseteq Page /\ machine \in Machines

(* Boot leaves the environments that way. *)
LEMMA InitEnv == Init => EnvInv
  <1> SUFFICES ASSUME Init PROVE EnvInv
    OBVIOUS
  <1> DEFINE b == Booted(machine.taken)
  <1>1. machine.taken \in Nat /\ machine \in Machines
    BY HarnessAssumption DEF Init
  <1>2. BootState(b) /\ b.pages \subseteq Page
    BY <1>1, BootedState
  <1>3. k = env_init(b.m) /\ hog = b.pages /\ past = {}
    BY DEF Init
  <1> HIDE DEF b
  <1>4. MemType(b.m) /\ b.m.panicked = FALSE
    BY <1>2 DEF BootState, MemInv
  <1> QED
    BY <1>1, <1>2, <1>3, <1>4, EnvInitStep DEF EnvInv

(* Every step keeps them that way. *)
LEMMA NextEnv == EnvInv /\ [Next]_vars => EnvInv'
  <1> SUFFICES ASSUME EnvInv, [Next]_vars PROVE EnvInv'
    OBVIOUS
  <1>0. /\ k \in Kernels /\ EnvTable(k) /\ PastIds(k, past)
        /\ hog \subseteq Page /\ machine \in Machines
    BY DEF EnvInv
  <1>1. CASE EnvAlloc
    <2> DEFINE res == env_alloc(k, CurenvId(k))
    <2>1. /\ k' = res.m /\ UNCHANGED setup
          /\ past' = IF k' = k THEN past ELSE Forget(k.env_free_list)
      BY <1>1 DEF EnvAlloc
    <2>2. \/ res.r < 0 /\ res.m = k
          \/ res.r = 0 /\ GivesEnv(k, res.m, res.e, CurenvId(k))
      BY <1>0, TableUse, EnvAllocStep
    <2>3. Forget(k.env_free_list) = StillPast(k, past, k.env_free_list)
      BY DEF Forget, StillPast
    <2> HIDE DEF res
    <2>4. CASE k' = k
      BY <1>0, <2>1, <2>4 DEF EnvInv, setup
    <2>5. CASE k' # k
      <3>1. GivesEnv(k, res.m, res.e, CurenvId(k)) /\ res.e = k.env_free_list
        BY <2>1, <2>2, <2>5 DEF GivesEnv
      <3>2. EnvTable(res.m) /\ PastIds(res.m, StillPast(k, past, res.e))
        BY <1>0, <3>1, GivenTable
      <3>3. k' \in Kernels /\ EnvTable(k') /\ PastIds(k', past')
        BY <2>1, <2>3, <2>5, <3>1, <3>2 DEF GivesEnv
      <3> QED
        BY <1>0, <2>1, <3>3 DEF EnvInv, setup
    <2> QED
      BY <2>4, <2>5
  <1>2. ASSUME NEW binary \in machine.programs, EnvCreate(binary) PROVE EnvInv'
    <2>1. /\ k' = env_create(k, binary) /\ UNCHANGED setup
          /\ past' = IF k.env_free_list = NULL THEN past ELSE Forget(k.env_free_list)
      BY <1>2 DEF EnvCreate
    <2>2. Forget(k.env_free_list) = StillPast(k, past, k.env_free_list)
      BY DEF Forget, StillPast
    <2>3. binary \in Programs
      BY <1>0, HarnessAssumption DEF Programs
    <2>4. k' \in Kernels /\ EnvTable(k') /\ PastIds(k', past')
      BY <1>0, <2>1, <2>2, <2>3, EnvCreateStep
    <2> QED
      BY <1>0, <2>1, <2>4 DEF EnvInv, setup
  <1>3. ASSUME NEW e \in EnvIdx, EnvRun(e) PROVE EnvInv'
    <2>1. k' = env_run(k, e) /\ UNCHANGED <<setup, past>> /\ e \in Live(k)
      BY <1>3 DEF EnvRun, Live
    <2>2. k' \in Kernels /\ EnvTable(k') /\ PastIds(k', past)
      BY <1>0, <2>1, EnvRunStep
    <2> QED
      BY <1>0, <2>1, <2>2 DEF EnvInv, setup
  <1>4. ASSUME NEW e \in EnvIdx, EnvDestroy(e) PROVE EnvInv'
    <2> DEFINE f == env_free(k, e)
    <2>1. /\ k' = IF e = k.curenv THEN [f EXCEPT !.curenv = NULL] ELSE f
          /\ past' = past \cup {k.envs[e].env_id} /\ UNCHANGED setup /\ e \in Live(k)
      BY <1>4 DEF EnvDestroy
    <2>2. TakesEnv(k, f, e)
      BY <1>0, <2>1, EnvFreeStep
    <2> HIDE DEF f
    <2>3. k' \in Kernels /\ EnvTable(k') /\ PastIds(k', past')
      BY <1>0, <2>1, <2>2, TakenTable
    <2> QED
      BY <1>0, <2>1, <2>3 DEF EnvInv, setup
  <1>5. ASSUME NEW va \in VA, UserWrite(va) PROVE EnvInv'
    <2> DEFINE t == Translate(k, k.cr3, va)
    <2>1. /\ k' = [k EXCEPT !.pt[t.ppn] = DataPage] /\ UNCHANGED <<setup, past>> /\ t # NULL
      BY <1>5 DEF UserWrite, UserWritable
    <2>2. t \in Entry
      BY <1>0, TranslateType DEF Kernels
    <2> HIDE DEF t
    <2>3. t.ppn \in Page
      BY <2>1, <2>2 DEF Entry
    <2>4. k' \in Like(k)
      BY <1>0, <2>1, <2>3, FillStep
    <2>5. k' \in Kernels /\ SameEnvs(k, k')
      BY <2>4 DEF Like
    <2> QED
      BY <1>0, <2>1, <2>5, TableFrame DEF EnvInv, setup
  <1>6. ASSUME NEW va \in (UserSlot \X Slot) \cup ({UVPTSlot} \X UserSlot), TlbFill(va) PROVE EnvInv'
    <2> DEFINE t == Translate(k, k.cr3, va)
               c == [va |-> va, ppn |-> t.ppn, perm |-> t.perm]
    <2>1. /\ k' = [k EXCEPT !.tlb = k.tlb \cup {c}] /\ UNCHANGED <<setup, past>> /\ t # NULL
      BY <1>6 DEF TlbFill, tlb_fill
    <2>2. va \in VA
      BY SlotAssumption DEF VA, UserSlot, Slot
    <2>3. t \in Entry
      BY <1>0, <2>2, TranslateType DEF Kernels
    <2> HIDE DEF t
    <2>4. c \in [va : VA, ppn : Page, perm : Perm]
      BY <2>1, <2>2, <2>3 DEF Entry
    <2> HIDE DEF c
    <2>5. k' \in Kernels /\ SameEnvs(k, k')
      BY <1>0, <2>1, <2>4 DEF Kernels, SameEnvs
    <2> QED
      BY <1>0, <2>1, <2>5, TableFrame DEF EnvInv, setup
  <1>7. CASE UNCHANGED vars
    BY <1>0, <1>7 DEF EnvInv, vars
  <1> QED
    BY <1>1, <1>2, <1>3, <1>4, <1>5, <1>6, <1>7 DEF Next, Stop

(* Every state reached has it. *)
LEMMA EnvInvariant == Spec => []EnvInv
  BY InitEnv, NextEnv, PTL DEF Spec

(* The kernel's state stays within its types: no id of an environment      *)
(* turns negative, whatever generations there were, and no count of        *)
(* references, page number or link leaves its range.                       *)
THEOREM EnvTypeCorrect == Spec => []TypeOK
  <1>1. EnvInv => TypeOK
    BY DEF EnvInv, TypeOK, Kernels, EnvRecord, PastIds
  <1> QED
    BY <1>1, EnvInvariant, PTL

(* env_free_list holds exactly the free Envs, each once, and only curenv   *)
(* is running, after any calls of env_alloc(), env_create(), env_run() and *)
(* env_free().                                                             *)
THEOREM FreeEnvsListed == Spec => []EnvListExact
  <1>1. EnvInv => EnvListExact
    <2> SUFFICES ASSUME EnvInv PROVE EnvListExact
      OBVIOUS
    <2> DEFINE F == EnvIdx \ Live(k)
               n == Cardinality(F)
               l == EnvList(k)
    <2>1. PICK s \in [1 .. n -> F] : IsFreeList(l, F, n, s)
      BY ListLength DEF EnvInv, EnvTable, FreeListIs
    <2>2. /\ l.page_free_list = k.env_free_list
          /\ \A i \in EnvIdx : l.pp_link[i] = k.envs[i].env_link
      BY DEF EnvList
    <2> HIDE DEF l, n
    <2>3. /\ k.env_free_list = IF n = 0 THEN NULL ELSE s[1]
          /\ \A j \in 1 .. n : k.envs[s[j]].env_link = IF j = n THEN NULL ELSE s[j + 1]
          /\ \A i, j \in 1 .. n : s[i] = s[j] => i = j
      BY <2>1, <2>2 DEF IsFreeList
    <2>4. \A e \in EnvIdx : k.envs[e].env_status = "ENV_RUNNING" <=> k.curenv = e
      BY DEF EnvInv, EnvTable
    <2> QED
      BY <2>1, <2>3, <2>4 DEF EnvListExact, n
  <1> QED
    BY <1>1, EnvInvariant, PTL

(* envid2env() finds a live environment by its id and nothing by the id of *)
(* a destroyed one, until the generations of the slot start over.          *)
THEOREM IdsNameOneEnv == Spec => []IdsSound
  <1>1. EnvInv => IdsSound
    <2> SUFFICES ASSUME EnvInv PROVE IdsSound
      OBVIOUS
    <2>0. k.envs \in [EnvIdx -> EnvRecord] /\ EnvTable(k) /\ PastIds(k, past)
      BY DEF EnvInv, Kernels
    <2>1. ASSUME NEW e \in Live(k)
          PROVE  k.envs[e].env_id > 0 /\ envid2env(k, k.envs[e].env_id, FALSE).e = e
      <3> DEFINE id == k.envs[e].env_id
      <3>1. e \in EnvIdx /\ k.envs[e].env_status # "ENV_FREE"
        BY DEF Live
      <3>2. id \in 0 .. IdMax /\ id # 0 /\ ENVX(id) = e
        BY <2>0, <3>1 DEF EnvRecord, EnvTable
      <3> DEFINE res == envid2env(k, id, FALSE)
      <3>3. res = [r |-> 0, e |-> e]
        BY <3>1, <3>2 DEF envid2env
      <3> HIDE DEF res
      <3>4. res.e = e
        BY <3>3
      <3>5. id > 0
        BY <3>2, EnvAssumption
      <3> QED
        BY <3>4, <3>5 DEF res
    <2>2. ASSUME NEW id \in past
          PROVE  envid2env(k, id, FALSE).r = -E_BAD_ENV
      <3> DEFINE e == ENVX(id)
      <3>1. id \in 1 .. IdMax /\ (e \in Live(k) => id # k.envs[e].env_id) /\ e \in EnvIdx
        BY <2>0, Generation DEF PastIds
      <3>2. k.envs[e].env_status = "ENV_FREE" \/ k.envs[e].env_id # id
        BY <3>1 DEF Live
      <3> DEFINE res == envid2env(k, id, FALSE)
      <3>3. res = [r |-> -E_BAD_ENV, e |-> NULL]
        BY <3>1, <3>2 DEF envid2env
      <3> HIDE DEF res
      <3>4. res.r = -E_BAD_ENV
        BY <3>3
      <3> QED
        BY <3>4 DEF res
    <2> QED
      BY <2>1, <2>2 DEF IdsSound
  <1> QED
    BY <1>1, EnvInvariant, PTL

-----------------------------------------------------------------------------
(* The invariant of the environments and the memory they are made of. *)
EnvMemInv == EnvInv /\ (Running => EnvSpace(k, hog))

(* Boot establishes it. *)
LEMMA InitEnvMem == Init => EnvMemInv
  <1> SUFFICES ASSUME Init PROVE EnvMemInv
    OBVIOUS
  <1>1. EnvInv
    BY InitEnv
  <1> DEFINE b == Booted(machine.taken)
  <1>2. machine.taken \in Nat
    BY HarnessAssumption DEF Init
  <1>3. BootState(b) /\ b.pages \subseteq Page
    BY <1>2, BootedState
  <1>4. k = env_init(b.m) /\ hog = b.pages
    BY DEF Init
  <1> HIDE DEF b
  <1>5. EnvSpace(k, b.pages)
    BY <1>3, <1>4, BootMem0
  <1> QED
    BY <1>1, <1>4, <1>5 DEF EnvMemInv

(* Every step keeps it. *)
LEMMA NextEnvMem == EnvMemInv /\ [Next]_vars => EnvMemInv'
  <1> SUFFICES ASSUME EnvMemInv, [Next]_vars PROVE EnvMemInv'
    OBVIOUS
  <1>1. /\ EnvInv /\ EnvInv'
        /\ k \in Kernels /\ k' \in Kernels /\ EnvTable(k)
        /\ hog \subseteq Page /\ machine \in Machines
    BY NextEnv DEF EnvMemInv, EnvInv
  <1>2. ASSUME Running PROVE EnvSpace(k, hog) /\ ~Stopped(k)
    BY <1>2 DEF EnvMemInv, Running
  <1> SUFFICES ASSUME ~Stopped(k') PROVE EnvSpace(k', hog')
    BY <1>1 DEF EnvMemInv, Running
  <1>3. CASE EnvAlloc
    <2> DEFINE res == env_alloc(k, CurenvId(k))
    <2>1. Running /\ k' = res.m /\ hog' = hog
      BY <1>3 DEF EnvAlloc, setup
    <2>2. CurenvId(k) \in 0 .. IdMax
      BY <1>1, TableUse
    <2> HIDE DEF res
    <2>3. EnvSpace(res.m, hog)
      BY <1>1, <1>2, <2>1, <2>2, AllocMem DEF res
    <2> QED
      BY <2>1, <2>3
  <1>4. ASSUME NEW binary \in machine.programs, EnvCreate(binary) PROVE EnvSpace(k', hog')
    <2>1. Running /\ k.curenv = NULL /\ k' = env_create(k, binary) /\ hog' = hog
      BY <1>4 DEF EnvCreate, setup
    <2>2. binary \in Programs
      BY <1>1, HarnessAssumption DEF Programs
    <2>3. EnvSpace(k', hog)
      BY <1>1, <1>2, <2>1, <2>2, CreateMem
    <2> QED
      BY <2>1, <2>3
  <1>5. ASSUME NEW e \in EnvIdx, EnvRun(e) PROVE EnvSpace(k', hog')
    <2>1. Running /\ k' = env_run(k, e) /\ e \in Live(k) /\ hog' = hog
      BY <1>5 DEF EnvRun, Live, setup
    <2>2. EnvSpace(k', hog)
      BY <1>1, <1>2, <2>1, RunMem
    <2> QED
      BY <2>1, <2>2
  <1>6. ASSUME NEW e \in EnvIdx, EnvDestroy(e) PROVE EnvSpace(k', hog')
    <2> DEFINE f == env_free(k, e)
    <2>1. Running /\ e \in Live(k) /\ hog' = hog
          /\ k' = IF e = k.curenv THEN [f EXCEPT !.curenv = NULL] ELSE f
      BY <1>6 DEF EnvDestroy, setup
    <2>f. f = env_free(k, e)
      OBVIOUS
    <2> HIDE DEF f
    <2>2. EnvSpace(k', hog)
      BY <1>1, <1>2, <2>1, <2>f, DestroyMem
    <2> QED
      BY <2>1, <2>2
  <1>7. ASSUME NEW va \in VA, UserWrite(va) PROVE EnvSpace(k', hog')
    <2> DEFINE pde == k.pt[k.cr3][va[1]]
               pte == Translate(k, k.cr3, va)
    <2>1. /\ Running /\ k.curenv # NULL /\ hog' = hog
          /\ pde # NULL /\ pte # NULL /\ {"W", "U"} \subseteq pde.perm \cap pte.perm
          /\ k' = [k EXCEPT !.pt[pte.ppn] = DataPage]
      BY <1>7 DEF UserWrite, UserWritable, setup
    <2>2. pde = k.pt[k.cr3][va[1]] /\ pte = Translate(k, k.cr3, va)
      OBVIOUS
    <2> HIDE DEF pde, pte
    <2>3. EnvSpace(k', hog)
      BY <1>1, <1>2, <2>1, <2>2, WriteMem
    <2> QED
      BY <2>1, <2>3
  <1>8. ASSUME NEW va \in (UserSlot \X Slot) \cup ({UVPTSlot} \X UserSlot), TlbFill(va)
        PROVE  EnvSpace(k', hog')
    <2>1. Running /\ Translate(k, k.cr3, va) # NULL /\ k' = tlb_fill(k, va) /\ hog' = hog
      BY <1>8 DEF TlbFill, setup
    <2>2. va \in VA
      BY SlotAssumption DEF VA, UserSlot, Slot
    <2>3. EnvSpace(k', hog)
      BY <1>1, <1>2, <2>1, <2>2, FillMem
    <2> QED
      BY <2>1, <2>3
  <1>9. CASE UNCHANGED vars
    BY <1>2, <1>9 DEF vars, Running
  <1> QED
    BY <1>3, <1>4, <1>5, <1>6, <1>7, <1>8, <1>9 DEF Next, Stop

(* Every state reached has it. *)
LEMMA EnvMemInvariant == Spec => []EnvMemInv
  BY InitEnvMem, NextEnvMem, PTL DEF Spec

-----------------------------------------------------------------------------
(* pp_ref counts, over all address spaces and whatever was created, run    *)
(* and destroyed, exactly the mappings, page tables and directories.       *)
THEOREM EnvRefCountExact == Spec => []RefCountExact
  <1>1. EnvMemInv => RefCountExact
    <2> SUFFICES ASSUME EnvMemInv, Running, NEW p \in Page
                 PROVE  k.pp_ref[p] = IF p \in ReservedPages \cup KernTables(k)
                                      THEN 1 ELSE Cardinality(EnvRefs(k, p))
      BY DEF RefCountExact
    <2> DEFINE D == Directories(k)
               R == Refs(k, Dirs(D), p)
    <2>1. k \in Kernels /\ EnvSpace(k, hog) /\ Spaces(k, D, hog)
      BY DEF EnvMemInv, EnvInv, EnvSpace
    <2>2. k.pp_ref[p] = IF p \in Kept(k) THEN 1 ELSE Cardinality(R) + Counted(D, p)
      BY <2>1 DEF Spaces, MemInv, Counts
    <2>3. Cardinality(R) \in Nat
      BY RefsFinite
    <2>4. CASE p \in Kept(k)
      BY <2>2, <2>4 DEF Kept
    <2>5. CASE p \notin Kept(k) /\ p \in D
      <3>1. R = {} /\ \E x : EnvRefs(k, p) = {x}
        BY <2>1, <2>5, EnvRefsAre
      <3>2. Cardinality(EnvRefs(k, p)) = 1 /\ Cardinality(R) = 0
        BY <3>1, FS_EmptySet, FS_Singleton
      <3> QED
        BY <2>2, <2>5, <3>2 DEF Counted, Kept
    <2>6. CASE p \notin Kept(k) /\ p \notin D
      <3>1. EnvRefs(k, p) = R
        BY <2>1, <2>6, EnvRefsAre
      <3> QED
        BY <2>2, <2>3, <2>6, <3>1 DEF Counted, Kept
    <2> QED
      BY <2>4, <2>5, <2>6
  <1> QED
    BY <1>1, EnvMemInvariant, PTL

(* env_free() gives back everything an environment was made of, and an     *)
(* env_alloc() that fails loses nothing: the free list holds the pages     *)
(* that nothing refers to, each once.                                      *)
THEOREM EnvNoPageLost == Spec => []NoPageLost
  <1>1. EnvMemInv => NoPageLost
    <2> SUFFICES ASSUME EnvMemInv, Running PROVE NoPageLost
      BY DEF NoPageLost
    <2> DEFINE D == Directories(k)
               F == {p \in Page : /\ EnvRefs(k, p) = {}
                                  /\ p \notin hog \cup ReservedPages \cup KernTables(k)}
    <2>1. k \in Kernels /\ EnvSpace(k, hog) /\ Spaces(k, D, hog)
      BY DEF EnvMemInv, EnvInv, EnvSpace
    <2>2. ASSUME NEW p \in Page
          PROVE  EnvRefs(k, p) = {} <=> (Refs(k, Dirs(D), p) = {} /\ p \notin D)
      <3>1. CASE p \in D
        <4>1. \E x : EnvRefs(k, p) = {x}
          BY <2>1, <3>1, EnvRefsAre
        <4> QED
          BY <3>1, <4>1
      <3>2. CASE p \notin D
        <4>1. EnvRefs(k, p) = Refs(k, Dirs(D), p)
          BY <2>1, <3>2, EnvRefsAre
        <4> QED
          BY <3>2, <4>1
      <3> QED
        BY <3>1, <3>2
    <2>3. F = Unused(k, Dirs(D), hog \cup D)
      BY <2>2 DEF Unused, Kept
    <2>4. SomeFreeList(k, F) /\ F \in SUBSET Page
      BY <2>1, <2>3 DEF Spaces, MemInv, ListOK
    <2> HIDE DEF F
    <2>5. FreeListWalks(k, F)
      BY <2>4, ListWalks
    <2> QED
      BY <2>5 DEF NoPageLost, F
  <1> QED
    BY <1>1, EnvMemInvariant, PTL

(* The processor never runs on a directory that was freed, runs on that of *)
(* the running environment while there is one, and uses no translation     *)
(* the tables it runs on do not hold.                                      *)
THEOREM RunsOnOwnTables == Spec => []Cr3Valid
  <1>1. EnvMemInv => Cr3Valid
    BY DEF EnvMemInv, EnvSpace, Spaces, InForce, Cr3Valid
  <1> QED
    BY <1>1, EnvMemInvariant, PTL

(* No page is in two address spaces below UTOP, and above it all are the   *)
(* kernel's but for UVPT.                                                  *)
THEOREM EnvsSeparate == Spec => []AddressSpacesSeparate
  <1>1. EnvMemInv => AddressSpacesSeparate
    <2> SUFFICES ASSUME EnvMemInv, Running, NEW e \in Live(k), NEW d, d = k.envs[e].env_pgdir
                 PROVE  /\ \A i \in Slot \ UserSlot :
                               k.pt[d][i] = IF i = UVPTSlot THEN [ppn |-> d, perm |-> {"U"}]
                                                            ELSE k.pt[kern_pgdir][i]
                        /\ \A p \in Page : UserRefs(k, d, p) # {} => EnvRefs(k, p) = UserRefs(k, d, p)
      BY DEF AddressSpacesSeparate
    <2> DEFINE D == Directories(k)
    <2>1. k \in Kernels /\ EnvSpace(k, hog) /\ Spaces(k, D, hog) /\ d \in D
      BY DEF EnvMemInv, EnvInv, EnvSpace, Directories
    <2>d. D = Directories(k)
      OBVIOUS
    <2> HIDE DEF D
    <2>2. KernCopy(k, D)
      BY <2>1 DEF Spaces
    <2>3. ASSUME NEW p \in Page, UserRefs(k, d, p) # {} PROVE EnvRefs(k, p) = UserRefs(k, d, p)
      <3> DEFINE R == Refs(k, Dirs(D), p)
                 U == UserRefs(k, d, p)
      <3>1. U \subseteq R
        <4>1. UNION {UserRefs(k, c, p) : c \in D} = R
          BY <2>1, SpaceRefs
        <4> QED
          BY <2>1, <4>1
      <3>2. \A r1, r2 \in R : r1 = r2
        BY <2>1 DEF Spaces, Single
      <3> HIDE DEF R, U
      <3>3. U # {}
        BY <2>3 DEF U
      <3>4. U = R
        BY <3>1, <3>2, <3>3
      <3>5. p \notin D
        BY <2>1, <2>d, <3>1, <3>3, EnvRefsAre DEF R
      <3> QED
        BY <2>1, <2>d, <3>4, <3>5, EnvRefsAre DEF R, U
    <2> QED
      BY <2>1, <2>2, <2>3 DEF KernCopy
  <1> QED
    BY <1>1, EnvMemInvariant, PTL

=============================================================================
