-------------------------------- MODULE Traps --------------------------------
(***************************************************************************)
(* How a trap gets from the processor to trap() of project3/kern/trap.c:   *)
(* the gates trap_init() sets up, the entry points of kern/trapentry.S,    *)
(* and the stack they leave, which trap() reads as a struct Trapframe.     *)
(* The handler a gate names pushes the number of the gate's own vector, so *)
(* the table is given by the sets of vectors that differ.                  *)
(***************************************************************************)
EXTENDS Integers, Sequences

T_GPFLT   == 13
T_PGFLT   == 14
T_BRKPT   == 3
T_SYSCALL == 48
GD_KT     == 8
UserCS    == 24 + 3     \* GD_UT | 3
UserDS    == 32 + 3     \* GD_UD | 3
FL_IF     == 512

(* The processor's exceptions and interrupts, those for which it pushes an *)
(* error code, and such a code.                                            *)
Exceptions == (0 .. 8) \cup (10 .. 14) \cup (16 .. 19)
PushesCode == {8, 17} \cup (10 .. 14)
Code       == 2

(* SETGATE: gates a program may name in an int instruction (DPL 3), and    *)
(* gates that turn interrupts off.                                         *)
UserGates      == {T_BRKPT, T_SYSCALL}
InterruptGates == {2, 8, 18}

(* A faulty table that takes the alignment check for one without a code. *)
TRAPHANDLER_NOEC_Align == (0 .. 7) \cup {16, 17, 18, 19, T_SYSCALL}

(* The vectors whose entry point is a TRAPHANDLER_NOEC. *)
TRAPHANDLER_NOEC == (0 .. 7) \cup {16, 18, 19, T_SYSCALL}

(* int n of a program: a vector without a gate, or with one that is not    *)
(* for programs, is a general protection fault.                            *)
SoftwareInt(n) == IF n \in UserGates THEN n ELSE T_GPFLT

(* The kernel's stack at the call of trap(), above the registers: what the *)
(* processor pushes in user mode c, then what the entry point pushes.      *)
Pushed(v, c) ==
    <<c.ss, c.esp, c.eflags, c.cs, c.eip>>
    \o (IF v \in PushesCode THEN <<Code>> ELSE <<>>)
    \o (IF v \in TRAPHANDLER_NOEC THEN <<0>> ELSE <<>>)
    \o <<v>>

(* The stack read as a struct Trapframe, from its lowest word up.          *)
Trapframe(stack) ==
    LET Above(n) == IF n < Len(stack) THEN stack[Len(stack) - n] ELSE 0
    IN  [tf_trapno |-> Above(0), tf_err |-> Above(1), tf_eip |-> Above(2), tf_cs |-> Above(3),
         tf_eflags |-> Above(4), tf_esp |-> Above(5), tf_ss |-> Above(6)]

(* FL_IF once the handler of vector v runs. *)
InterruptsOn(v, c) == v \notin InterruptGates /\ (c.eflags \div FL_IF) % 2 = 1

(* env_pop_tf(): what the program runs on with. *)
env_pop_tf(tf) ==
    [eip |-> tf.tf_eip, cs |-> tf.tf_cs, eflags |-> tf.tf_eflags, esp |-> tf.tf_esp, ss |-> tf.tf_ss]
=============================================================================
