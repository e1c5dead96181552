------------------------------- MODULE EnvOps -------------------------------
(***************************************************************************)
(* The environment functions of project3/kern/env.c as operators on the    *)
(* kernel record of PmapOps with these fields more:                        *)
(*                                                                         *)
(*   envs           the envs[] array                                       *)
(*   env_free_list  the index of the first free Env, NULL for none         *)
(*   curenv         the index of the running Env, NULL for none            *)
(*   faulted        TRUE once the kernel touched an address that its page  *)
(*                  tables do not map                                      *)
(*                                                                         *)
(* An Env pointer is its index in envs[].  Saved registers, env_type and   *)
(* env_runs are left out: no function here decides anything by them.       *)
(***************************************************************************)
EXTENDS PmapOps, Sequences

CONSTANTS
    NENV,           \* environments, a power of two
    GenStep,        \* 1 << ENVGENSHIFT, a multiple of NENV
    IdMax,          \* the largest envid_t (2^31 - 1 for an int32_t)
    StackVA         \* USTACKTOP - PGSIZE

ASSUME EnvAssumption ==
    /\ NENV \in Nat \ {0}
    /\ GenStep \in Nat \ {0} /\ GenStep % NENV = 0
    /\ IdMax \in Nat /\ IdMax >= GenStep + NENV /\ (IdMax + 1) % NENV = 0
    /\ StackVA \in UserSlot \X Slot
    /\ NULL \notin 0 .. NENV - 1

EnvIdx == 0 .. NENV - 1

E_BAD_ENV     == 2
E_NO_FREE_ENV == 5

Status == {"ENV_FREE", "ENV_DYING", "ENV_RUNNABLE", "ENV_RUNNING", "ENV_NOT_RUNNABLE"}

(* Signed arithmetic of the width of envid_t. *)
WrapId(x) == IF x > IdMax THEN x - 2 * (IdMax + 1) ELSE x

(* ENVX() and the mask ~(NENV - 1). *)
ENVX(id)          == id % NENV
GenerationOf(x)   == (x \div NENV) * NENV

(* Faulty ids: one that lets the generation turn negative, one that reuses  *)
(* the slot's last id.                                                      *)
NextEnvId_Negative(old, e) == GenerationOf(WrapId(old + GenStep)) + e
NextEnvId_Reused(old, e) == GenStep + e

(* The id env_alloc() gives to slot e, whose last id is old. *)
NextEnvId(old, e) ==
    LET generation == GenerationOf(WrapId(old + GenStep))
    IN  (IF generation <= 0 THEN GenStep ELSE generation) + e

-----------------------------------------------------------------------------
(* env_init(): every Env free, on the list in the order of the array. *)
env_init(k) ==
    [pp_ref |-> k.pp_ref, pp_link |-> k.pp_link,
     page_free_list |-> k.page_free_list, panicked |-> k.panicked,
     pt |-> k.pt, cr3 |-> k.cr3, tlb |-> k.tlb,
     envs |-> [i \in EnvIdx |->
                 [env_id |-> 0, env_parent_id |-> 0, env_status |-> "ENV_FREE",
                  env_pgdir |-> NULL,
                  env_link |-> IF i = NENV - 1 THEN NULL ELSE i + 1]],
     env_free_list |-> 0, curenv |-> NULL, faulted |-> FALSE]

(* Memory after mem_init(), when other kernel code has taken n pages. *)
Booted(n) ==
    LET taken[i \in 0 .. n] ==
            IF i = 0 THEN [m |-> mem_init, pages |-> {}]
            ELSE [m     |-> page_alloc(taken[i - 1].m),
                  pages |-> taken[i - 1].pages
                              \cup ({page_alloc_ret(taken[i - 1].m)} \ {NULL})]
    IN  taken[n]

CurenvId(k) == IF k.curenv = NULL THEN 0 ELSE k.envs[k.curenv].env_id

(* envid2env(): what it returns, and the Env it stores through env_store. *)
envid2env(k, envid, checkperm) ==
    LET e == ENVX(envid)
    IN  IF envid = 0
        THEN [r |-> 0, e |-> k.curenv]
        ELSE IF \/ k.envs[e].env_status = "ENV_FREE"
                \/ k.envs[e].env_id # envid
                \/ /\ checkperm
                   /\ e # k.curenv
                   /\ k.envs[e].env_parent_id # CurenvId(k)
        THEN [r |-> -E_BAD_ENV, e |-> NULL]
        ELSE [r |-> 0, e |-> e]

(* A faulty env_setup_vm() that takes no reference to the directory. *)
env_setup_vm_Uncounted(k, e) ==
    LET p == page_alloc_ret(k)
    IN  IF p = NULL
        THEN [m |-> k, r |-> -E_NO_MEM]
        ELSE [m |-> [page_alloc_zero(k) EXCEPT
                        !.envs[e].env_pgdir = p,
                        !.pt[p] = [k.pt[kern_pgdir] EXCEPT
                                     ![UVPTSlot] = [ppn |-> p, perm |-> {"U"}]]],
              r |-> 0]

(* A faulty env_setup_vm() that leaves the kernel's own entry at UVPT. *)
env_setup_vm_KernelUVPT(k, e) ==
    LET p == page_alloc_ret(k)
    IN  IF p = NULL
        THEN [m |-> k, r |-> -E_NO_MEM]
        ELSE [m |-> [page_incref(page_alloc_zero(k), p) EXCEPT
                        !.envs[e].env_pgdir = p, !.pt[p] = k.pt[kern_pgdir]],
              r |-> 0]

(* env_setup_vm(): a page directory of its own, a copy of the kernel's     *)
(* except that it maps itself at UVPT.                                     *)
env_setup_vm(k, e) ==
    LET p == page_alloc_ret(k)
    IN  IF p = NULL
        THEN [m |-> k, r |-> -E_NO_MEM]
        ELSE [m |-> [page_incref(page_alloc_zero(k), p) EXCEPT
                        !.envs[e].env_pgdir = p,
                        !.pt[p] = [k.pt[kern_pgdir] EXCEPT
                                     ![UVPTSlot] = [ppn |-> p, perm |-> {"U"}]]],
              r |-> 0]

(* A faulty env_alloc() that drops the whole list of free Envs. *)
env_alloc_ListLost(k, parent_id) ==
    LET e  == k.env_free_list
        vm == env_setup_vm(k, e)
    IN  IF e = NULL
        THEN [m |-> k, e |-> NULL, r |-> -E_NO_FREE_ENV]
        ELSE IF vm.r < 0
        THEN [m |-> vm.m, e |-> NULL, r |-> vm.r]
        ELSE [m |-> [vm.m EXCEPT
                        !.envs[e].env_id = NextEnvId(k.envs[e].env_id, e),
                        !.envs[e].env_parent_id = parent_id,
                        !.envs[e].env_status = "ENV_RUNNABLE",
                        !.env_free_list = NULL],
              e |-> e, r |-> 0]

(* env_alloc(): the first free Env gets a directory and a new id. *)
env_alloc(k, parent_id) ==
    LET e  == k.env_free_list
        vm == env_setup_vm(k, e)
    IN  IF e = NULL
        THEN [m |-> k, e |-> NULL, r |-> -E_NO_FREE_ENV]
        ELSE IF vm.r < 0
        THEN [m |-> vm.m, e |-> NULL, r |-> vm.r]
        ELSE [m |-> [vm.m EXCEPT
                        !.envs[e].env_id = NextEnvId(k.envs[e].env_id, e),
                        !.envs[e].env_parent_id = parent_id,
                        !.envs[e].env_status = "ENV_RUNNABLE",
                        !.env_free_list = k.envs[e].env_link],
              e |-> e, r |-> 0]

-----------------------------------------------------------------------------
Stopped(k) == k.panicked \/ k.faulted

(* What user code, or the ELF image, leaves in a data page: read as a page *)
(* table, it maps page 0 everywhere.                                       *)
DataPage == [i \in Slot |-> [ppn |-> 0, perm |-> {"W", "U"}]]

(* One page of region_alloc().  What page_insert() returns is kept in an   *)
(* unsigned variable, so the test for a negative value never succeeds and  *)
(* a page that could not be mapped is passed over.                         *)
region_alloc_page(k, e, va) ==
    LET newPage == page_alloc_ret(k)
    IN  IF newPage = NULL
        THEN [k EXCEPT !.panicked = TRUE]
        ELSE page_insert(page_alloc(k), k.envs[e].env_pgdir, newPage, va, {"W", "U"}).m

(* memset() and memcpy() to a page of the environment being loaded, through *)
(* the page tables in force.                                                *)
write_page(k, va) ==
    IF Translate(k, k.cr3, va) = NULL
    THEN [k EXCEPT !.faulted = TRUE]
    ELSE [k EXCEPT !.pt[Translate(k, k.cr3, va).ppn] = DataPage]

(* Apply Step to k for the elements of seq in order, as long as the kernel runs. *)
ForEach(k, seq, Step(_, _)) ==
    LET after[i \in 0 .. Len(seq)] ==
            IF i = 0 THEN k
            ELSE IF Stopped(after[i - 1]) THEN after[i - 1]
            ELSE Step(after[i - 1], seq[i])
    IN  after[Len(seq)]

(* region_alloc() and the copy of one segment, a sequence of user pages. *)
load_segment(k, e, pages) ==
    LET Region(s, va) == region_alloc_page(s, e, va)
    IN  ForEach(ForEach(k, pages, Region), pages, write_page)

(* The initial stack: one zeroed page below USTACKTOP.  Here the result of *)
(* page_insert() is signed and checked.                                    *)
load_stack(k, e) ==
    LET newPage == page_alloc_ret(k)
        res     == page_insert(page_alloc_zero(k), k.envs[e].env_pgdir,
                               newPage, StackVA, {"W", "U"})
    IN  IF Stopped(k) THEN k
        ELSE IF newPage = NULL THEN [k EXCEPT !.panicked = TRUE]
        ELSE IF res.r < 0 THEN [res.m EXCEPT !.panicked = TRUE]
        ELSE res.m

(* load_icode(): binary is the sequence of the segments it loads.  The     *)
(* environment's own page tables are in force while it copies.             *)
load_icode(k, e, binary) ==
    LET Segment(s, pages) == load_segment(s, e, pages)
        loaded == load_stack(ForEach(lcr3(k, k.envs[e].env_pgdir), binary, Segment), e)
    IN  IF Stopped(loaded) THEN loaded ELSE lcr3(loaded, kern_pgdir)

(* env_create() panics when env_alloc() fails. *)
env_create(k, binary) ==
    LET res == env_alloc(k, 0)
    IN  IF res.r < 0
        THEN [res.m EXCEPT !.panicked = TRUE]
        ELSE load_icode(res.m, res.e, binary)

-----------------------------------------------------------------------------
(* A faulty free_table() that does not give the page table back. *)
free_table_Leaky(k, e, pdeno) ==
    LET pgdir == k.envs[e].env_pgdir
        Unmap(s, pteno) == page_remove(s, pgdir, <<pdeno, pteno>>)
    IN  IF k.pt[pgdir][pdeno] = NULL
        THEN k
        ELSE Store(ForEach(k, [i \in 1 .. NSlots |-> i - 1], Unmap), PtePtr(pgdir, pdeno), NULL)

(* Free one page table of e's user part: unmap what it maps, then drop it. *)
free_table(k, e, pdeno) ==
    LET pgdir   == k.envs[e].env_pgdir
        table   == k.pt[pgdir][pdeno].ppn
        Unmap(s, pteno) == page_remove(s, pgdir, <<pdeno, pteno>>)
        unmapped == ForEach(k, [i \in 1 .. NSlots |-> i - 1], Unmap)
    IN  IF k.pt[pgdir][pdeno] = NULL
        THEN k
        ELSE page_decref(Store(unmapped, PtePtr(pgdir, pdeno), NULL), table)

(* A faulty env_free() that frees the address space in force. *)
env_free_Stays(k, e) ==
    LET FreeTable(s, pdeno) == free_table(s, e, pdeno)
        emptied == ForEach(k, [i \in 1 .. UTopSlot |-> i - 1], FreeTable)
        pgdir   == emptied.envs[e].env_pgdir
    IN  [page_decref([emptied EXCEPT !.envs[e].env_pgdir = NULL], pgdir) EXCEPT
            !.envs[e].env_status = "ENV_FREE",
            !.envs[e].env_link = k.env_free_list,
            !.env_free_list = e]

(* env_free(): leave the address space if it is in force, unmap the user   *)
(* part, free the directory, and put the Env in front of the free list.    *)
env_free(k, e) ==
    LET away == IF e = k.curenv THEN lcr3(k, kern_pgdir) ELSE k
        FreeTable(s, pdeno) == free_table(s, e, pdeno)
        emptied == ForEach(away, [i \in 1 .. UTopSlot |-> i - 1], FreeTable)
        pgdir   == emptied.envs[e].env_pgdir
    IN  [page_decref([emptied EXCEPT !.envs[e].env_pgdir = NULL], pgdir) EXCEPT
            !.envs[e].env_status = "ENV_FREE",
            !.envs[e].env_link = k.env_free_list,
            !.env_free_list = e]

(* A faulty env_run() that stays on the page tables in force. *)
env_run_NoSwitch(k, e) ==
    LET put == IF k.curenv = NULL
               THEN k
               ELSE [k EXCEPT !.envs[k.curenv].env_status = "ENV_RUNNABLE"]
    IN  [put EXCEPT !.curenv = e, !.envs[e].env_status = "ENV_RUNNING"]

(* env_run(): e becomes the running environment. *)
env_run(k, e) ==
    LET put == IF k.curenv = NULL
               THEN k
               ELSE [k EXCEPT !.envs[k.curenv].env_status = "ENV_RUNNABLE"]
    IN  lcr3([put EXCEPT !.curenv = e, !.envs[e].env_status = "ENV_RUNNING"],
             k.envs[e].env_pgdir)

-----------------------------------------------------------------------------
(* The environments that exist, and the references that ought to exist. *)
Live(k) == {i \in EnvIdx : k.envs[i].env_status # "ENV_FREE"}

Directories(k) == {k.envs[i].env_pgdir : i \in Live(k)}

EnvRefs(k, p) ==
    (UNION {UserRefs(k, d, p) : d \in Directories(k)})
        \cup {<<"env_pgdir", i>> : i \in {i \in Live(k) : k.envs[i].env_pgdir = p}}
=============================================================================
