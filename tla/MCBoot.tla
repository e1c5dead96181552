------------------------------- MODULE MCBoot -------------------------------
(***************************************************************************)
(* The boot of one processor and the spin lock of the others, in one run.  *)
(* They share no state: three processors work on the lock once one of the  *)
(* machines has booted.                                                    *)
(*                                                                         *)
(* Pages of 4 units and tables of 26 entries: entry_pgdir maps 26 pages,   *)
(* KERNBASE is two slots below the top, and a machine has 26 to 52 pages.  *)
(* Pages 7 and 8 are the I/O hole, the kernel starts at page 9.            *)
(***************************************************************************)
EXTENDS Boot, Spinlock

(* An image of kernel.ld: text and data on pages of their own. *)
Image(text, data, bss) ==
    LET dataPage == 9 + PagesFor(text, PGSIZE)
    IN  [magic |-> TRUE,
         ph |-> <<[p_pa |-> 36, p_offset |-> 4, p_filesz |-> text, p_memsz |-> text],
                  [p_pa |-> dataPage * PGSIZE, p_offset |-> (dataPage - 8) * PGSIZE,
                   p_filesz |-> data, p_memsz |-> data + bss]>>]

MCKernels ==
    {Image(text, data, bss) : text \in {3, 5}, data \in {12, 13}, bss \in {0, 1, 3}}
        \cup {[Image(3, 12, 1) EXCEPT !.magic = FALSE]}

MCCMOS == {[basemem |-> 27, extmem |-> 68, ext16mem |-> 0],
           [basemem |-> 28, extmem |-> 79, ext16mem |-> 0],
           [basemem |-> 27, extmem |-> 60, ext16mem |-> 48],
           [basemem |-> 24, extmem |-> 60, ext16mem |-> 128]}

Booted ==
    /\ stage = "done" /\ ~mem.panicked
    /\ cmos = CHOOSE c \in CMOS : TRUE
    /\ kernel = CHOOSE x \in Kernels : x.magic

(* Every processor has found a wrong call and panicked. *)
AllPanicked == \A c \in CPU : pc[c] \in {"panic_lock", "panic_unlock"}

MCInit == Init /\ LockInit

MCNext ==
    \/ LockInit /\ Next /\ UNCHANGED lockVars
    \/ Booted /\ LockNext /\ UNCHANGED vars
    \/ AllPanicked /\ UNCHANGED <<vars, lockVars>>

MCSpec == MCInit /\ [][MCNext]_<<vars, lockVars>> /\ Fairness
=============================================================================
