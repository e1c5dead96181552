------------------------------ MODULE Spinlock ------------------------------
(***************************************************************************)
(* The spin lock of lab4/kern/spinlock.c, built with DEBUG_SPINLOCK, with  *)
(* any number of processors calling spin_lock() and spin_unlock() on it.   *)
(*                                                                         *)
(* Only xchg() is atomic.  The debugging check holding() reads lk->locked  *)
(* and lk->cpu one after the other while other processors change them, and *)
(* a store to lk->cpu waits in the processor's store buffer, where only    *)
(* the processor itself sees it, until it reaches memory; xchg() carries   *)
(* the lock prefix and so waits for the buffer to drain.                   *)
(*                                                                         *)
(* The saved call stack lk->pcs and lk->name only feed messages.           *)
(***************************************************************************)
EXTENDS Integers, Sequences

CONSTANTS
    CPU,        \* the processors
    NoCPU       \* the null pointer

ASSUME NoCPUAssumption == NoCPU \notin CPU

VARIABLES
    locked,     \* lk->locked
    cpu,        \* lk->cpu, in memory
    buffer,     \* per processor, its stores to lk->cpu that memory has not seen
    pc,         \* per processor, what it executes next
    mine        \* per processor, whether its last spin_lock() returned and it
                \* has not called spin_unlock() to the end since

lockVars == <<locked, cpu, buffer, pc, mine>>

(* What processor c reads from lk->cpu. *)
CpuSeenBy(c) == IF buffer[c] = << >> THEN cpu ELSE buffer[c][Len(buffer[c])]

Goto(c, label) == pc' = [pc EXCEPT ![c] = label]

(* __spin_initlock(), and the initial value of kernel_lock. *)
LockInit ==
    /\ locked = 0
    /\ cpu = NoCPU
    /\ buffer = [c \in CPU |-> << >>]
    /\ pc = [c \in CPU |-> "outside"]
    /\ mine = [c \in CPU |-> FALSE]

-----------------------------------------------------------------------------
(* A processor calls spin_lock(), whether it owns the lock or not. *)
CallLock(c) ==
    /\ pc[c] = "outside"
    /\ Goto(c, "lock_locked")
    /\ UNCHANGED <<locked, cpu, buffer, mine>>

(* holding() in spin_lock(): lock->locked, then lock->cpu == thiscpu. *)
LockReadLocked(c) ==
    /\ pc[c] = "lock_locked"
    /\ Goto(c, IF locked = 0 THEN "lock_xchg" ELSE "lock_cpu")
    /\ UNCHANGED <<locked, cpu, buffer, mine>>

LockReadCpu(c) ==
    /\ pc[c] = "lock_cpu"
    /\ Goto(c, IF CpuSeenBy(c) = c THEN "panic_lock" ELSE "lock_xchg")
    /\ UNCHANGED <<locked, cpu, buffer, mine>>

(* A faulty exchange, which takes the lock whatever it found there. *)
LockXchg_Always(c) ==
    /\ pc[c] = "lock_xchg"
    /\ buffer[c] = << >>
    /\ locked' = 1
    /\ Goto(c, "lock_record")
    /\ UNCHANGED <<cpu, buffer, mine>>

(* while (xchg(&lk->locked, 1) != 0): set the lock, go on if it was clear. *)
LockXchg(c) ==
    /\ pc[c] = "lock_xchg"
    /\ buffer[c] = << >>
    /\ locked' = 1
    /\ Goto(c, IF locked = 0 THEN "lock_record" ELSE "lock_xchg")
    /\ UNCHANGED <<cpu, buffer, mine>>

(* lk->cpu = thiscpu, and spin_lock() returns. *)
LockRecord(c) ==
    /\ pc[c] = "lock_record"
    /\ buffer' = [buffer EXCEPT ![c] = Append(buffer[c], c)]
    /\ mine' = [mine EXCEPT ![c] = TRUE]
    /\ Goto(c, "outside")
    /\ UNCHANGED <<locked, cpu>>

(* A processor calls spin_unlock(), whether it owns the lock or not. *)
CallUnlock(c) ==
    /\ pc[c] = "outside"
    /\ Goto(c, "unlock_locked")
    /\ UNCHANGED <<locked, cpu, buffer, mine>>

(* holding() in spin_unlock(). *)
UnlockReadLocked(c) ==
    /\ pc[c] = "unlock_locked"
    /\ Goto(c, IF locked = 0 THEN "panic_unlock" ELSE "unlock_cpu")
    /\ UNCHANGED <<locked, cpu, buffer, mine>>

(* A faulty holding() that only looks at lk->locked. *)
UnlockReadCpu_Any(c) ==
    /\ pc[c] = "unlock_cpu"
    /\ Goto(c, "unlock_clear")
    /\ UNCHANGED <<locked, cpu, buffer, mine>>

UnlockReadCpu(c) ==
    /\ pc[c] = "unlock_cpu"
    /\ Goto(c, IF CpuSeenBy(c) = c THEN "unlock_clear" ELSE "panic_unlock")
    /\ UNCHANGED <<locked, cpu, buffer, mine>>

(* A faulty spin_unlock() that leaves lk->cpu as it is. *)
UnlockClear_Missing(c) ==
    /\ pc[c] = "unlock_clear"
    /\ Goto(c, "unlock_xchg")
    /\ UNCHANGED <<locked, cpu, buffer, mine>>

(* lk->cpu = 0 *)
UnlockClear(c) ==
    /\ pc[c] = "unlock_clear"
    /\ buffer' = [buffer EXCEPT ![c] = Append(buffer[c], NoCPU)]
    /\ Goto(c, "unlock_xchg")
    /\ UNCHANGED <<locked, cpu, mine>>

(* A faulty spin_unlock() that returns without clearing the lock word. *)
UnlockXchg_Missing(c) ==
    /\ pc[c] = "unlock_xchg"
    /\ buffer[c] = << >>
    /\ mine' = [mine EXCEPT ![c] = FALSE]
    /\ Goto(c, "outside")
    /\ UNCHANGED <<locked, cpu, buffer>>

(* xchg(&lk->locked, 0), and spin_unlock() returns. *)
UnlockXchg(c) ==
    /\ pc[c] = "unlock_xchg"
    /\ buffer[c] = << >>
    /\ locked' = 0
    /\ mine' = [mine EXCEPT ![c] = FALSE]
    /\ Goto(c, "outside")
    /\ UNCHANGED <<cpu, buffer>>

(* The oldest store in c's buffer reaches memory. *)
Drain(c) ==
    /\ buffer[c] # << >>
    /\ cpu' = Head(buffer[c])
    /\ buffer' = [buffer EXCEPT ![c] = Tail(buffer[c])]
    /\ UNCHANGED <<locked, pc, mine>>

(* What a processor does inside a call, once it made it. *)
InCall(c) ==
    \/ LockReadLocked(c) \/ LockReadCpu(c) \/ LockXchg(c) \/ LockRecord(c)
    \/ UnlockReadLocked(c) \/ UnlockReadCpu(c) \/ UnlockClear(c) \/ UnlockXchg(c)

LockNext == \E c \in CPU : CallLock(c) \/ CallUnlock(c) \/ InCall(c) \/ Drain(c)

LockSpec == LockInit /\ [][LockNext]_lockVars

(* A processor inside a call goes on executing, its stores reach memory,   *)
(* and an owner that is not in a call gives the lock up at some time.      *)
Fairness ==
    \A c \in CPU : WF_lockVars(InCall(c)) /\ WF_lockVars(Drain(c)) /\ WF_lockVars(mine[c] /\ CallUnlock(c))

FairLockSpec == LockSpec /\ Fairness

-----------------------------------------------------------------------------
LockLabels   == {"lock_xchg", "lock_record"}
UnlockLabels == {"unlock_clear", "unlock_xchg"}

TypeOK ==
    /\ locked \in {0, 1}
    /\ cpu \in CPU \cup {NoCPU}
    /\ buffer \in [CPU -> Seq(CPU \cup {NoCPU})]
    /\ pc \in [CPU -> {"outside", "lock_locked", "lock_cpu", "unlock_locked", "unlock_cpu",
                       "panic_lock", "panic_unlock"} \cup LockLabels \cup UnlockLabels]
    /\ mine \in [CPU -> BOOLEAN]

(* No two processors own the lock, whatever calls the others make. *)
MutualExclusion == \A c, d \in CPU : mine[c] /\ mine[d] => c = d

(* holding() is right in spite of its unprotected reads: a processor that  *)
(* owns the lock and asks for it again panics instead of waiting for       *)
(* itself, a processor that does not own it never gets to release it, and  *)
(* nobody else panics.                                                     *)
HoldingAccurate ==
    \A c \in CPU :
        /\ pc[c] \in LockLabels \/ pc[c] = "panic_unlock" => ~mine[c]
        /\ pc[c] \in UnlockLabels \/ pc[c] = "panic_lock" => mine[c]

(* The lock is a mutex: its owner is the processor whose xchg() found it   *)
(* clear, until that processor's xchg() clears it.                         *)
Owners == {c \in CPU : mine[c] \/ pc[c] = "lock_record"}

AbstractLock == INSTANCE Mutex WITH owners <- Owners

ImplementsMutex == AbstractLock!Spec

(* The lock does not get stuck: if a processor spins for it, some          *)
(* processor gets it, unless the one that has it panics with it.           *)
SomeoneGetsIn ==
    (\E c \in CPU : pc[c] = "lock_xchg")
        ~> (\E c \in CPU : mine[c] \/ pc[c] = "panic_lock")
=============================================================================
