-------------------------------- MODULE Env --------------------------------
(***************************************************************************)
(* The environments of project3/kern/env.c over the physical and virtual   *)
(* memory they are made of.  After boot the kernel creates environments    *)
(* from binaries; then it runs, allocates and destroys them in any order.  *)
(* The running environment writes wherever its page tables let it, and     *)
(* the processor caches translations.  Other kernel code holds some pages, *)
(* so that memory runs out at every point of every function.               *)
(*                                                                         *)
(* Destroying the running environment leaves no environment running, as    *)
(* env_destroy() of lab4/kern/env.c has it.                                *)
(***************************************************************************)
EXTENDS EnvOps

CONSTANTS
    Machines    \* bound: what is tried together, a set of records of
                \*   taken     pages other kernel code holds
                \*   programs  each the sequence of its segments' pages
                \*   tlb       translations cached at a time
                \*   dead      ids of destroyed environments remembered

ASSUME HarnessAssumption ==
    \A x \in Machines :
        /\ x.taken \in Nat /\ x.tlb \in Nat /\ x.dead \in Nat
        /\ x.programs \subseteq Seq(Seq(UserSlot \X Slot))

VARIABLES
    k,          \* the kernel's state, the record of EnvOps
    machine,    \* the one of Machines this is
    hog,        \* pages other kernel code holds
    past        \* ids of destroyed environments, until their slot's
                \* generations start over

vars == <<k, machine, hog, past>>

setup == <<machine, hog>>

Init ==
    /\ machine \in Machines
    /\ k = env_init(Booted(machine.taken).m)
    /\ hog = Booted(machine.taken).pages
    /\ past = {}

Running == ~Stopped(k)

(* Old ids of slot e come back once a slot has used all generations, when  *)
(* there is no larger id for it.                                           *)
Forget(e) == {id \in past : ~(ENVX(id) = e /\ k.envs[e].env_id + GenStep > IdMax)}

EnvAlloc ==
    /\ Running
    /\ k' = env_alloc(k, CurenvId(k)).m
    /\ past' = IF k' = k THEN past ELSE Forget(k.env_free_list)
    /\ UNCHANGED setup

(* Only before the first environment runs. *)
EnvCreate(binary) ==
    /\ Running
    /\ k.curenv = NULL
    /\ k' = env_create(k, binary)
    /\ past' = IF k.env_free_list = NULL THEN past ELSE Forget(k.env_free_list)
    /\ UNCHANGED setup

EnvRun(e) ==
    /\ Running
    /\ k.envs[e].env_status \in {"ENV_RUNNABLE", "ENV_RUNNING"}
    /\ k' = env_run(k, e)
    /\ UNCHANGED <<setup, past>>

EnvDestroy(e) ==
    /\ Running
    /\ e \in Live(k)
    /\ Cardinality(past) < machine.dead
    /\ k' = IF e = k.curenv THEN [env_free(k, e) EXCEPT !.curenv = NULL] ELSE env_free(k, e)
    /\ past' = past \cup {k.envs[e].env_id}
    /\ UNCHANGED setup

(* The processor lets user code write at va: both levels allow it. *)
UserWritable(va) ==
    LET pde == k.pt[k.cr3][va[1]]
        pte == Translate(k, k.cr3, va)
    IN  pde # NULL /\ pte # NULL /\ {"W", "U"} \subseteq pde.perm \cap pte.perm

UserWrite(va) ==
    /\ Running
    /\ k.curenv # NULL
    /\ UserWritable(va)
    /\ k' = [k EXCEPT !.pt[Translate(k, k.cr3, va).ppn] = DataPage]
    /\ UNCHANGED <<setup, past>>

TlbFill(va) ==
    /\ Running
    /\ Translate(k, k.cr3, va) # NULL
    /\ Cardinality(k.tlb) < machine.tlb
    /\ k' = tlb_fill(k, va)
    /\ UNCHANGED <<setup, past>>

(* After a panic or a fault in the kernel nothing of this happens any more. *)
Stop ==
    /\ Stopped(k)
    /\ UNCHANGED vars

Next ==
    \/ EnvAlloc
    \/ \E binary \in machine.programs : EnvCreate(binary)
    \/ \E e \in EnvIdx : EnvRun(e) \/ EnvDestroy(e)
    \/ \E va \in VA : UserWrite(va)
    \/ \E va \in (UserSlot \X Slot) \cup ({UVPTSlot} \X UserSlot) : TlbFill(va)
    \/ Stop

Spec == Init /\ [][Next]_vars

-----------------------------------------------------------------------------
TypeOK ==
    /\ k \in [pp_ref : [Page -> 0 .. RefMax],
              pp_link : [Page -> PageOrNull],
              page_free_list : PageOrNull,
              panicked : BOOLEAN,
              pt : [Page -> [Slot -> Entry]],
              cr3 : Page,
              tlb : SUBSET [va : VA, ppn : Page, perm : Perm],
              envs : [EnvIdx -> [env_id : 0 .. IdMax, env_parent_id : 0 .. IdMax,
                                 env_status : Status, env_pgdir : PageOrNull,
                                 env_link : EnvIdx \cup {NULL}]],
              env_free_list : EnvIdx \cup {NULL},
              curenv : EnvIdx \cup {NULL},
              faulted : BOOLEAN]
    /\ hog \subseteq Page /\ machine \in Machines
    /\ past \subseteq 1 .. IdMax

(* pp_ref counts the references that exist, over all address spaces: user  *)
(* mappings, page tables and env_pgdir.                                    *)
RefCountExact ==
    Running =>
        \A p \in Page :
            k.pp_ref[p] = IF p \in ReservedPages \cup KernTables(k)
                          THEN 1
                          ELSE Cardinality(EnvRefs(k, p))

(* Freeing an environment gives back everything it was made of, and a call *)
(* that fails loses nothing: the pages on the free list are exactly those  *)
(* nothing refers to.                                                      *)
NoPageLost ==
    Running =>
        FreeListWalks(k, {p \in Page : /\ EnvRefs(k, p) = {}
                                    /\ p \notin hog \cup ReservedPages \cup KernTables(k)})

(* env_free_list holds exactly the free Envs, each once, and the running   *)
(* environment is the one curenv names.                                    *)
EnvListExact ==
    /\ \A e \in EnvIdx : k.envs[e].env_status = "ENV_RUNNING" <=> k.curenv = e
    /\ LET F == EnvIdx \ Live(k)
           n == Cardinality(F)
       IN  \E s \in [1 .. n -> F] :
               /\ k.env_free_list = IF n = 0 THEN NULL ELSE s[1]
               /\ \A j \in 1 .. n : k.envs[s[j]].env_link = IF j = n THEN NULL ELSE s[j + 1]
               /\ \A i, j \in 1 .. n : s[i] = s[j] => i = j

(* The id of a live environment names that environment and no other, and   *)
(* the id of a destroyed one names none (the comment of envid2env()).      *)
IdsSound ==
    /\ \A e \in Live(k) : k.envs[e].env_id > 0 /\ envid2env(k, k.envs[e].env_id, FALSE).e = e
    /\ \A id \in past : envid2env(k, id, FALSE).r = -E_BAD_ENV

(* The processor never runs on a page directory that was freed, runs on    *)
(* that of the running environment while there is one, and never uses a    *)
(* translation that is not in the tables it runs on.                       *)
Cr3Valid ==
    Running =>
        /\ k.cr3 = IF k.curenv = NULL THEN kern_pgdir ELSE k.envs[k.curenv].env_pgdir
        /\ Coherent(k)

(* Above UTOP all address spaces are the kernel's, except that each maps   *)
(* its own tables at UVPT; below, no page is shared.                       *)
AddressSpacesSeparate ==
    Running =>
        \A e \in Live(k) :
            LET d == k.envs[e].env_pgdir
            IN  /\ \A i \in Slot \ UserSlot :
                      k.pt[d][i] = IF i = UVPTSlot THEN [ppn |-> d, perm |-> {"U"}]
                                                   ELSE k.pt[kern_pgdir][i]
                /\ \A p \in Page : UserRefs(k, d, p) # {} => EnvRefs(k, p) = UserRefs(k, d, p)

(* Loading a program never touches memory that is not mapped: region_alloc() *)
(* panics when an allocation fails ("Panic if any allocation attempt fails", *)
(* its comment says).                                                      *)
NoKernelFault == ~k.faulted
=============================================================================
