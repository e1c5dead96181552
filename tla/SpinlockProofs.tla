--------------------------- MODULE SpinlockProofs ---------------------------
(***************************************************************************)
(* Theorems about Spinlock, for any set of processors.                     *)
(*                                                                         *)
(* The induction invariant has two parts.  The lock word is set exactly    *)
(* while some processor owns the lock, and one processor at a time does.   *)
(* The debugging field is trustworthy for the processor that reads it: in  *)
(* spite of the store buffers, an owner sees itself there, and nobody else *)
(* does, because an owner's stores have drained before it lets go.         *)
(***************************************************************************)
EXTENDS Spinlock, SequenceTheorems, TLAPS

LockWord ==
    /\ \A c, d \in Owners : c = d
    /\ locked = 1 <=> Owners # {}

(* The owner's stores are its own name or NoCPU; others have no stores      *)
(* under way and are not named in memory.                                  *)
StoresOK ==
    \A c \in CPU :
        /\ \A i \in 1 .. Len(buffer[c]) : buffer[c][i] \in {c, NoCPU}
        /\ c \notin Owners => buffer[c] = << >> /\ cpu # c

(* What an owner reads from lk->cpu, at each point of its call. *)
SeenOK ==
    \A c \in CPU :
        /\ pc[c] = "lock_record" => buffer[c] = << >>
        /\ mine[c] /\ pc[c] # "unlock_xchg" => CpuSeenBy(c) = c
        /\ pc[c] = "unlock_xchg" => CpuSeenBy(c) = NoCPU

Inv == TypeOK /\ HoldingAccurate /\ LockWord /\ StoresOK /\ SeenOK

USE DEF LockLabels, UnlockLabels

-----------------------------------------------------------------------------
(* Draining the oldest store does not change the newest one. *)
LEMMA SeeDrained ==
    ASSUME NEW S, NEW s \in Seq(S), s # << >>
    PROVE  /\ Head(s) \in S /\ Tail(s) \in Seq(S)
           /\ Len(s) \in 1 .. Len(s) /\ Head(s) = s[1] /\ 1 \in 1 .. Len(s)
           /\ Tail(s) = << >> => Head(s) = s[Len(s)]
           /\ Tail(s) # << >> => Tail(s)[Len(Tail(s))] = s[Len(s)]
           /\ \A i \in 1 .. Len(Tail(s)) : i + 1 \in 1 .. Len(s) /\ Tail(s)[i] = s[i + 1]
  <1>1. Len(s) \in Nat /\ Len(s) # 0
    BY EmptySeq, LenProperties
  <1>2. Head(s) = s[1] /\ Head(s) \in S /\ Tail(s) \in Seq(S) /\ Len(Tail(s)) = Len(s) - 1
        /\ \A i \in 1 .. Len(Tail(s)) : Tail(s)[i] = s[i + 1]
    BY HeadTailProperties
  <1>3. Tail(s) = << >> <=> Len(Tail(s)) = 0
    BY <1>2, EmptySeq
  <1> QED
    BY <1>1, <1>2, <1>3

-----------------------------------------------------------------------------
(* The lock starts free, with no processor at it. *)
LEMMA InitInv == LockInit => Inv
  <1> SUFFICES ASSUME LockInit PROVE Inv
    OBVIOUS
  <1>1. Owners = {}
    BY DEF LockInit, Owners
  <1>2. << >> \in Seq(CPU \cup {NoCPU}) /\ Len(<< >>) = 0
    OBVIOUS
  <1>3. TypeOK
    BY <1>2 DEF LockInit, TypeOK
  <1>4. HoldingAccurate /\ SeenOK
    BY DEF LockInit, HoldingAccurate, SeenOK
  <1>5. LockWord
    BY <1>1 DEF LockInit, LockWord
  <1>6. StoresOK
    <2>1. ASSUME NEW c \in CPU PROVE buffer[c] = << >> /\ cpu # c
      BY NoCPUAssumption DEF LockInit
    <2>2. \A i \in 1 .. Len(<< >>) : FALSE
      BY <1>2
    <2> QED
      BY <2>1, <2>2 DEF StoresOK
  <1> QED
    BY <1>3, <1>4, <1>5, <1>6 DEF Inv

(* Steps of one processor that only move its pc, within the labels where   *)
(* it neither records nor releases the lock.                               *)
LEMMA MoveInv ==
    ASSUME NEW c \in CPU, NEW label, Inv,
           UNCHANGED <<locked, cpu, buffer, mine>>, Goto(c, label),
           pc[c] \notin {"lock_record", "unlock_xchg", "lock_xchg"},
           label \in {"outside", "lock_locked", "lock_cpu", "unlock_locked", "unlock_cpu",
                      "lock_xchg", "unlock_clear", "panic_lock", "panic_unlock"},
           label \in {"lock_xchg", "panic_unlock"} => ~mine[c],
           label \in {"unlock_clear", "panic_lock"} => mine[c]
    PROVE  Inv'
  <1>1. pc' = [pc EXCEPT ![c] = label] /\ DOMAIN pc = CPU
    BY DEF Goto, Inv, TypeOK
  <1>2. /\ \A d \in CPU \ {c} : pc'[d] = pc[d]
        /\ pc'[c] = label
    BY <1>1
  <1>3. TypeOK'
    BY DEF Inv, TypeOK, Goto
  <1>4. Owners' = Owners
    BY <1>2 DEF Owners
  <1>5. \A d \in CPU : CpuSeenBy(d)' = CpuSeenBy(d)
    BY DEF CpuSeenBy
  <1>6. HoldingAccurate' /\ SeenOK'
    BY <1>2, <1>5 DEF Inv, HoldingAccurate, SeenOK
  <1>7. LockWord' /\ StoresOK'
    BY <1>4 DEF Inv, LockWord, StoresOK
  <1> QED
    BY <1>3, <1>6, <1>7 DEF Inv

(* Entering spin_lock() or spin_unlock() keeps the invariant. *)
LEMMA CallInv == ASSUME NEW c \in CPU PROVE Inv /\ (CallLock(c) \/ CallUnlock(c)) => Inv'
  <1> SUFFICES ASSUME Inv, CallLock(c) \/ CallUnlock(c) PROVE Inv'
    OBVIOUS
  <1>1. CASE CallLock(c)
    BY <1>1, MoveInv DEF CallLock
  <1>2. CASE CallUnlock(c)
    BY <1>2, MoveInv DEF CallUnlock
  <1> QED
    BY <1>1, <1>2

(* The reads of holding() lead where they should. *)
LEMMA HoldingInv ==
    ASSUME NEW c \in CPU
    PROVE  Inv /\ (\/ LockReadLocked(c) \/ LockReadCpu(c)
                   \/ UnlockReadLocked(c) \/ UnlockReadCpu(c)) => Inv'
  <1> SUFFICES ASSUME Inv, \/ LockReadLocked(c) \/ LockReadCpu(c)
                           \/ UnlockReadLocked(c) \/ UnlockReadCpu(c)
               PROVE  Inv'
    OBVIOUS
  <1>1. mine[c] => locked = 1
    BY DEF Inv, LockWord, Owners
  <1>2. pc[c] \in {"lock_cpu", "unlock_cpu"} => (CpuSeenBy(c) = c <=> mine[c])
    BY DEF Inv, StoresOK, SeenOK, CpuSeenBy, Owners, TypeOK
  <1>3. CASE LockReadLocked(c)
    BY <1>1, <1>3, MoveInv DEF LockReadLocked
  <1>4. CASE LockReadCpu(c)
    BY <1>2, <1>4, MoveInv DEF LockReadCpu
  <1>5. CASE UnlockReadLocked(c)
    BY <1>1, <1>5, MoveInv DEF UnlockReadLocked
  <1>6. CASE UnlockReadCpu(c)
    BY <1>2, <1>6, MoveInv DEF UnlockReadCpu
  <1> QED
    BY <1>3, <1>4, <1>5, <1>6

(* The exchange that takes the lock. *)
LEMMA LockXchgInv == ASSUME NEW c \in CPU PROVE Inv /\ LockXchg(c) => Inv'
  <1> SUFFICES ASSUME Inv, LockXchg(c) PROVE Inv'
    OBVIOUS
  <1>1. /\ pc[c] = "lock_xchg" /\ buffer[c] = << >> /\ ~mine[c] /\ c \notin Owners
        /\ locked' = 1 /\ cpu' = cpu /\ buffer' = buffer /\ mine' = mine
    BY DEF LockXchg, Inv, HoldingAccurate, Owners
  <1>2. \A d \in CPU : CpuSeenBy(d)' = CpuSeenBy(d)
    BY <1>1 DEF CpuSeenBy
  <1>3. CASE locked = 0
    <2>1. /\ pc'[c] = "lock_record" /\ \A d \in CPU \ {c} : pc'[d] = pc[d]
          /\ pc' = [pc EXCEPT ![c] = "lock_record"]
      BY <1>3 DEF LockXchg, Goto, Inv, TypeOK
    <2>2. Owners = {} /\ Owners' = {c}
      BY <1>1, <1>3, <2>1 DEF Inv, LockWord, Owners
    <2>3. TypeOK'
      BY <1>1, <2>1 DEF Inv, TypeOK
    <2>4. HoldingAccurate' /\ SeenOK'
      BY <1>1, <1>2, <2>1 DEF Inv, HoldingAccurate, SeenOK
    <2>5. LockWord' /\ StoresOK'
      BY <1>1, <2>2 DEF Inv, LockWord, StoresOK
    <2> QED
      BY <2>3, <2>4, <2>5 DEF Inv
  <1>4. CASE locked # 0
    <2>1. pc' = pc /\ locked = 1
      BY <1>1, <1>4 DEF LockXchg, Goto, Inv, TypeOK
    <2>2. Owners' = Owners
      BY <1>1, <2>1 DEF Owners
    <2> QED
      BY <1>1, <1>2, <2>1, <2>2
      DEF Inv, TypeOK, HoldingAccurate, LockWord, StoresOK, SeenOK
  <1> QED
    BY <1>3, <1>4

(* The stores to lk->cpu: the new owner's name, and NoCPU before it lets go. *)
LEMMA StoreInv == ASSUME NEW c \in CPU PROVE Inv /\ (LockRecord(c) \/ UnlockClear(c)) => Inv'
  <1> SUFFICES ASSUME Inv, LockRecord(c) \/ UnlockClear(c) PROVE Inv'
    OBVIOUS
  <1> DEFINE v == IF pc[c] = "lock_record" THEN c ELSE NoCPU
             label == IF pc[c] = "lock_record" THEN "outside" ELSE "unlock_xchg"
  <1>1. /\ pc[c] \in {"lock_record", "unlock_clear"}
        /\ buffer' = [buffer EXCEPT ![c] = Append(buffer[c], v)]
        /\ pc' = [pc EXCEPT ![c] = label]
        /\ mine' = [mine EXCEPT ![c] = TRUE]
        /\ locked' = locked /\ cpu' = cpu
    BY DEF LockRecord, UnlockClear, Goto, Inv, TypeOK, HoldingAccurate
  <1>2. buffer[c] \in Seq(CPU \cup {NoCPU}) /\ v \in CPU \cup {NoCPU} /\ v \in {c, NoCPU}
    BY DEF Inv, TypeOK
  <1>3. /\ pc[c] = "lock_record" => pc'[c] = "outside"
        /\ pc[c] = "unlock_clear" => pc'[c] = "unlock_xchg"
        /\ mine'[c] /\ buffer'[c] = Append(buffer[c], v)
        /\ \A d \in CPU \ {c} : pc'[d] = pc[d] /\ mine'[d] = mine[d] /\ buffer'[d] = buffer[d]
    BY <1>1 DEF Inv, TypeOK
  <1>4. c \in Owners /\ Owners' = Owners
    BY <1>1, <1>3 DEF Inv, HoldingAccurate, Owners
  <1>5. /\ buffer'[c] \in Seq(CPU \cup {NoCPU})
        /\ \A i \in 1 .. Len(buffer'[c]) : buffer'[c][i] \in {c, NoCPU}
        /\ CpuSeenBy(c)' = v
    <2> HIDE DEF v
    <2>1. \A i \in 1 .. Len(buffer[c]) : buffer[c][i] \in {c, NoCPU}
      BY DEF Inv, StoresOK
    <2>2. Len(buffer[c]) \in Nat /\ Len(Append(buffer[c], v)) = Len(buffer[c]) + 1
          /\ Append(buffer[c], v) \in Seq(CPU \cup {NoCPU})
          /\ \A i \in 1 .. Len(buffer[c]) : Append(buffer[c], v)[i] = buffer[c][i]
          /\ Append(buffer[c], v)[Len(buffer[c]) + 1] = v
      <3> DEFINE s == buffer[c]
      <3>1. s \in Seq(CPU \cup {NoCPU}) /\ v \in CPU \cup {NoCPU}
        BY <1>2
      <3> HIDE DEF s
      <3>2. Len(s) \in Nat /\ Len(Append(s, v)) = Len(s) + 1
            /\ Append(s, v) \in Seq(CPU \cup {NoCPU})
            /\ \A i \in 1 .. Len(s) : Append(s, v)[i] = s[i]
            /\ Append(s, v)[Len(s) + 1] = v
        BY <3>1
      <3> QED
        BY <3>2 DEF s
    <2>3. \A i \in 1 .. Len(Append(buffer[c], v)) : Append(buffer[c], v)[i] \in {c, NoCPU}
      BY <1>2, <2>1, <2>2
    <2>4. Append(buffer[c], v) # << >>
      <3>1. Len(Append(buffer[c], v)) # 0
        BY <2>2
      <3>2. Len(<< >>) = 0
        OBVIOUS
      <3> QED
        BY <3>1, <3>2, Zenon
    <2> QED
      BY <1>3, <2>2, <2>3, <2>4 DEF CpuSeenBy
  <1>6. \A d \in CPU \ {c} : CpuSeenBy(d)' = CpuSeenBy(d)
    BY <1>1, <1>3 DEF CpuSeenBy
  <1>7. TypeOK'
    <2>1. buffer' \in [CPU -> Seq(CPU \cup {NoCPU})]
      BY <1>1, <1>3, <1>5 DEF Inv, TypeOK
    <2>2. mine' \in [CPU -> BOOLEAN]
      BY <1>1 DEF Inv, TypeOK
    <2> QED
      BY <1>1, <2>1, <2>2 DEF Inv, TypeOK
  <1>8. HoldingAccurate'
    BY <1>1, <1>3 DEF Inv, HoldingAccurate
  <1>9. LockWord'
    BY <1>1, <1>4 DEF Inv, LockWord
  <1>10. StoresOK'
    BY <1>1, <1>3, <1>4, <1>5 DEF Inv, StoresOK
  <1>11. SeenOK'
    BY <1>1, <1>3, <1>5, <1>6 DEF Inv, SeenOK
  <1> QED
    BY <1>7, <1>8, <1>9, <1>10, <1>11 DEF Inv

(* The exchange that lets the lock go: by then memory says NoCPU. *)
LEMMA UnlockXchgInv == ASSUME NEW c \in CPU PROVE Inv /\ UnlockXchg(c) => Inv'
  <1> SUFFICES ASSUME Inv, UnlockXchg(c) PROVE Inv'
    OBVIOUS
  <1>1. /\ pc[c] = "unlock_xchg" /\ buffer[c] = << >> /\ mine[c] /\ cpu = NoCPU
        /\ locked' = 0 /\ cpu' = cpu /\ buffer' = buffer
        /\ mine' = [mine EXCEPT ![c] = FALSE]
        /\ pc' = [pc EXCEPT ![c] = "outside"]
    BY DEF UnlockXchg, Goto, Inv, HoldingAccurate, SeenOK, CpuSeenBy
  <1>2. /\ pc'[c] = "outside" /\ ~mine'[c]
        /\ \A d \in CPU \ {c} : pc'[d] = pc[d] /\ mine'[d] = mine[d]
    BY <1>1 DEF Inv, TypeOK
  <1>3. Owners = {c} /\ Owners' = {}
    <2>1. c \in Owners /\ Owners \subseteq CPU
      BY <1>1 DEF Owners
    <2>2. Owners = {c}
      BY <2>1 DEF Inv, LockWord
    <2> QED
      BY <1>2, <2>2 DEF Owners
  <1>4. \A d \in CPU : CpuSeenBy(d)' = CpuSeenBy(d)
    BY <1>1 DEF CpuSeenBy
  <1>5. TypeOK'
    BY <1>1 DEF Inv, TypeOK
  <1>6. HoldingAccurate' /\ SeenOK'
    BY <1>2, <1>1, <1>4 DEF Inv, HoldingAccurate, SeenOK
  <1>7. LockWord'
    BY <1>1, <1>3 DEF LockWord
  <1>8. StoresOK'
    BY <1>1, <1>3, NoCPUAssumption DEF Inv, StoresOK
  <1> QED
    BY <1>5, <1>6, <1>7, <1>8 DEF Inv

(* Only the owner has stores under way, so nobody else's view changes. *)
LEMMA DrainInv == ASSUME NEW c \in CPU PROVE Inv /\ Drain(c) => Inv'
  <1> SUFFICES ASSUME Inv, Drain(c) PROVE Inv'
    OBVIOUS
  <1>1. /\ buffer[c] # << >> /\ cpu' = Head(buffer[c])
        /\ buffer' = [buffer EXCEPT ![c] = Tail(buffer[c])]
        /\ locked' = locked /\ pc' = pc /\ mine' = mine
        /\ buffer[c] \in Seq(CPU \cup {NoCPU})
    BY DEF Drain, Inv, TypeOK
  <1>2. c \in Owners /\ pc[c] # "lock_record" /\ Owners' = Owners
    BY <1>1 DEF Inv, StoresOK, SeenOK, Owners
  <1>3. /\ buffer'[c] = Tail(buffer[c])
        /\ \A d \in CPU \ {c} : buffer'[d] = buffer[d]
    BY <1>1 DEF Inv, TypeOK
  <1>4. /\ Head(buffer[c]) \in CPU \cup {NoCPU} /\ Tail(buffer[c]) \in Seq(CPU \cup {NoCPU})
        /\ Head(buffer[c]) \in {c, NoCPU}
        /\ \A i \in 1 .. Len(Tail(buffer[c])) : Tail(buffer[c])[i] \in {c, NoCPU}
    BY <1>1, SeeDrained DEF Inv, StoresOK
  <1>5. CpuSeenBy(c)' = CpuSeenBy(c)
    BY <1>1, <1>3, SeeDrained DEF CpuSeenBy
  <1>6. \A d \in CPU \ {c} : d \notin Owners /\ ~mine[d] /\ pc[d] # "lock_record" /\ cpu' # d
                             /\ pc[d] # "unlock_xchg"
    BY <1>1, <1>2, <1>4, NoCPUAssumption DEF Inv, LockWord, Owners, HoldingAccurate
  <1>7. TypeOK'
    BY <1>1, <1>4 DEF Inv, TypeOK
  <1>8. HoldingAccurate' /\ LockWord'
    BY <1>1, <1>2 DEF Inv, HoldingAccurate, LockWord
  <1>9. StoresOK'
    <2>1. ASSUME NEW d \in CPU
          PROVE  /\ \A i \in 1 .. Len(buffer'[d]) : buffer'[d][i] \in {d, NoCPU}
                 /\ d \notin Owners' => buffer'[d] = << >> /\ cpu' # d
      <3>1. CASE d = c
        BY <1>2, <1>3, <1>4, <3>1
      <3>2. CASE d # c
        BY <1>2, <1>3, <1>6, <3>2 DEF Inv, StoresOK
      <3> QED
        BY <3>1, <3>2
    <2> QED
      BY <2>1 DEF StoresOK
  <1>10. SeenOK'
    BY <1>1, <1>2, <1>5, <1>6 DEF Inv, SeenOK
  <1> QED
    BY <1>7, <1>8, <1>9, <1>10 DEF Inv

(* Every step of every processor keeps the invariant. *)
LEMMA StepInv == Inv /\ [LockNext]_lockVars => Inv'
  <1> SUFFICES ASSUME Inv, [LockNext]_lockVars PROVE Inv'
    OBVIOUS
  <1>1. ASSUME NEW c \in CPU, CallLock(c) \/ CallUnlock(c) PROVE Inv'
    BY <1>1, CallInv
  <1>2. ASSUME NEW c \in CPU, InCall(c) PROVE Inv'
    BY <1>2, HoldingInv, LockXchgInv, StoreInv, UnlockXchgInv DEF InCall
  <1>3. ASSUME NEW c \in CPU, Drain(c) PROVE Inv'
    BY <1>3, DrainInv
  <1>4. CASE UNCHANGED lockVars
    BY <1>4 DEF lockVars, Inv, TypeOK, HoldingAccurate, LockWord, StoresOK, SeenOK, Owners, CpuSeenBy
  <1> QED
    BY <1>1, <1>2, <1>3, <1>4 DEF LockNext

-----------------------------------------------------------------------------
(* The induction invariant holds in every state of every behaviour. *)
THEOREM Invariance == LockSpec => []Inv
  BY InitInv, StepInv, PTL DEF LockSpec

(* The variables of the lock are always of their types. *)
THEOREM TypeCorrect == LockSpec => []TypeOK
  <1>1. Inv => TypeOK
    BY DEF Inv
  <1> QED
    BY <1>1, Invariance, PTL

(* No two processors own the lock, whatever calls the others make. *)
THEOREM Exclusion == LockSpec => []MutualExclusion
  <1>1. Inv => MutualExclusion
    BY DEF Inv, LockWord, MutualExclusion, Owners
  <1> QED
    BY <1>1, Invariance, PTL

(* The debugging check holding() never errs in either direction. *)
THEOREM HoldingCorrect == LockSpec => []HoldingAccurate
  <1>1. Inv => HoldingAccurate
    BY DEF Inv
  <1> QED
    BY <1>1, Invariance, PTL

(* The spin lock implements the abstract mutex. *)
THEOREM Refinement == LockSpec => ImplementsMutex
  <1>1. LockInit => AbstractLock!Init
    BY DEF LockInit, AbstractLock!Init, Owners
  <1>2. Inv /\ Inv' /\ [LockNext]_lockVars => [AbstractLock!Next]_Owners
    <2> SUFFICES ASSUME Inv, Inv', [LockNext]_lockVars, Owners' # Owners
                 PROVE  AbstractLock!Next
      OBVIOUS
    <2>1. ASSUME NEW c \in CPU, LockXchg(c) PROVE AbstractLock!Next
      <3>1. pc[c] = "lock_xchg" /\ mine' = mine /\ ~mine[c] /\ c \notin Owners
        BY <2>1 DEF LockXchg, Inv, HoldingAccurate, Owners
      <3>2. locked = 0
        BY <2>1, <3>1 DEF LockXchg, Goto, Owners, Inv, TypeOK
      <3>3. pc' = [pc EXCEPT ![c] = "lock_record"] /\ Owners = {}
        BY <2>1, <3>2 DEF LockXchg, Goto, Inv, LockWord
      <3>4. Owners' = {c}
        BY <3>1, <3>3 DEF Owners, Inv, TypeOK
      <3> QED
        BY <3>3, <3>4 DEF AbstractLock!Next, AbstractLock!Acquire
    <2>2. ASSUME NEW c \in CPU, UnlockXchg(c) PROVE AbstractLock!Next
      <3>1. c \in Owners /\ Owners \subseteq CPU
        BY <2>2 DEF UnlockXchg, Inv, HoldingAccurate, Owners
      <3>2. Owners = {c}
        BY <3>1 DEF Inv, LockWord
      <3>3. Owners' = {}
        BY <2>2, <3>2 DEF UnlockXchg, Goto, Owners, Inv, TypeOK
      <3> QED
        BY <3>2, <3>3 DEF AbstractLock!Next, AbstractLock!Release
    <2>3. ASSUME NEW c \in CPU, LockRecord(c) PROVE FALSE
      BY <2>3 DEF LockRecord, Goto, Owners, Inv, TypeOK
    <2>4. ASSUME NEW c \in CPU,
                 \/ CallLock(c) \/ CallUnlock(c) \/ LockReadLocked(c) \/ LockReadCpu(c)
                 \/ UnlockReadLocked(c) \/ UnlockReadCpu(c) \/ UnlockClear(c) \/ Drain(c)
          PROVE  FALSE
      <3>1. mine' = mine
        BY <2>4 DEF CallLock, CallUnlock, LockReadLocked, LockReadCpu, UnlockReadLocked,
                    UnlockReadCpu, UnlockClear, Drain
      <3>2. \A d \in CPU : pc'[d] = "lock_record" <=> pc[d] = "lock_record"
        BY <2>4 DEF CallLock, CallUnlock, LockReadLocked, LockReadCpu, UnlockReadLocked,
                    UnlockReadCpu, UnlockClear, Drain, Goto, Inv, TypeOK
      <3> QED
        BY <3>1, <3>2 DEF Owners
    <2>5. CASE UNCHANGED lockVars
      BY <2>5 DEF lockVars, Owners
    <2> QED
      BY <2>1, <2>2, <2>3, <2>4, <2>5 DEF LockNext, InCall
  <1> QED
    BY <1>1, <1>2, Invariance, PTL DEF LockSpec, ImplementsMutex, AbstractLock!Spec

=============================================================================
