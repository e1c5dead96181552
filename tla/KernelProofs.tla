---------------------------- MODULE KernelProofs ----------------------------
(***************************************************************************)
(* Proofs about Kernel.  The invariant has a part about the trap frame,    *)
(* which needs no memory but the stack's, and a part that says for each    *)
(* mode what there is of the environment: nothing yet, an environment that *)
(* is sound in the sense of KernelLemmas, or what env_destroy() leaves.    *)
(* user_mem_check() needs no more of it than that the page tables are      *)
(* sound, and the arithmetic of addresses that wrap around.                *)
(***************************************************************************)
EXTENDS Kernel, KernelLemmas

(* The environments and their memory are sound, when other kernel code     *)
(* holds the pages W.                                                      *)
Sound(s, W) == s \in Kernels /\ EnvTable(s) /\ EnvSpace(s, W) /\ ~Stopped(s)

(* Before env_run(), with the environments of live. *)
Starting(s, W, live) == Sound(s, W) /\ Live(s) = live /\ s.curenv = NULL

(* The one environment runs, or the kernel works for it. *)
Runs(s, W) == Sound(s, W) /\ Live(s) = {0} /\ s.curenv = 0

(* It was destroyed: curenv still names it. *)
Gone(s, W) ==
    /\ s \in Kernels /\ Spaces(s, {}, W) /\ s.cr3 = kern_pgdir
    /\ Live(s) = {} /\ s.curenv = 0 /\ s.envs[0].env_pgdir = NULL

(* What holds of the kernel's state s where the processor is at place. *)
Where(place, s, W) ==
    /\ place \in {"boot", "created", "user", "monitor", "fault", "lost"}
    /\ place = "boot"    => Starting(s, W, {}) /\ s.env_free_list = 0
    /\ place = "created" => Starting(s, W, {0})
    /\ place = "user"    => Runs(s, W)
    /\ place = "monitor" => (s.panicked /\ s.curenv = NULL) \/ Runs(s, W) \/ Gone(s, W)
    /\ place = "fault"   => s.curenv = NULL \/ Runs(s, W) \/ Gone(s, W)
    /\ place = "lost"    => s.curenv = NULL \/ Gone(s, W)

MemoryInv == k \in Kernels /\ hog \subseteq Page /\ Where(mode, k, hog)

-----------------------------------------------------------------------------
(* Slot 0 of envs[] exists, and is not the null pointer. *)
LEMMA FirstEnv == 0 \in EnvIdx /\ NULL # 0
  BY EnvAssumption DEF EnvIdx

(* No id was given away and taken back. *)
LEMMA NonePast ==
    ASSUME NEW s
    PROVE  PastIds(s, {})
  BY DEF PastIds

(* The programs that i386_init() loads consist of user pages. *)
LEMMA UserPrograms == Binaries \subseteq Programs
  <1> SUFFICES ASSUME NEW b \in Binaries PROVE b \in Programs
    OBVIOUS
  <1> DEFINE P == (UserSlot \X Slot) \ {<<0, 0>>}
             Q == UserSlot \X Slot
  <1>1. b \in Seq(Seq(P))
    BY HarnessAssumption
  <1>2. P \subseteq Q
    OBVIOUS
  <1> HIDE DEF P, Q
  <1>3. Seq(P) \subseteq Seq(Q)
    <2> SUFFICES ASSUME NEW s \in Seq(P) PROVE s \in Seq(Q)
      OBVIOUS
    <2> QED
      BY <1>2
  <1>4. b \in Seq(Seq(Q))
    BY <1>1, <1>3
  <1> QED
    BY <1>4 DEF Programs, Q

(* env_run() of the one environment: it runs, on its own page tables. *)
LEMMA RunOne ==
    ASSUME NEW s, NEW W, Sound(s, W), Live(s) = {0}, NEW t, t = env_run(s, 0)
    PROVE  Runs(t, W)
  <1>1. s \in Kernels /\ EnvTable(s) /\ EnvSpace(s, W) /\ ~Stopped(s) /\ 0 \in Live(s)
    BY DEF Sound
  <1>2. /\ t \in Kernels /\ EnvTable(t) /\ t.curenv = 0 /\ Live(t) = Live(s)
        /\ t.panicked = s.panicked /\ t.faulted = s.faulted
    BY <1>1, NonePast, EnvRunStep
  <1>3. EnvSpace(t, W)
    BY <1>1, <1>2, RunMem
  <1> QED
    BY <1>1, <1>2, <1>3 DEF Runs, Sound, Stopped

(* env_free() of it: nothing is left of it. *)
LEMMA FreeOne ==
    ASSUME NEW s, NEW W, Runs(s, W), NEW t, t = env_free(s, 0)
    PROVE  Gone(t, W)
  <1> DEFINE d == s.envs[0].env_pgdir
             D == Directories(s)
  <1>1. /\ s \in Kernels /\ EnvTable(s) /\ EnvSpace(s, W) /\ ~s.faulted
        /\ 0 \in Live(s) /\ Live(s) = {0} /\ s.curenv = 0
    BY DEF Runs, Sound, Stopped
  <1>2. Spaces(s, D, W) /\ OwnDirs(s) /\ d \in D /\ D = {d}
    BY <1>1 DEF EnvSpace, Directories
  <1>3. TakesEnv(s, t, 0)
    BY <1>1, EnvFreeStep
  <1> HIDE DEF D
  <1>4. Spaces(t, D \ {d}, W) /\ t.cr3 = kern_pgdir
    BY <1>1, <1>2, EnvFreeSpace
  <1>5. Live(t) = Live(s) \ {0}
    BY <1>1, <1>2, <1>3, DirsTaken
  <1>6. D \ {d} = {} /\ Live(t) = {}
    BY <1>1, <1>2, <1>5
  <1> QED
    BY <1>1, <1>3, <1>4, <1>6 DEF Gone, TakesEnv

(* env_create() of the first environment, when the kernel survives it. *)
LEMMA CreateOne ==
    ASSUME NEW s, NEW W, Starting(s, W, {}), s.env_free_list = 0,
           NEW binary \in Binaries, NEW t, t = env_create(s, binary)
    PROVE  t \in Kernels /\ t.curenv = NULL /\ (~Stopped(t) => Starting(t, W, {0}))
  <1>1. /\ s \in Kernels /\ EnvTable(s) /\ EnvSpace(s, W) /\ ~Stopped(s)
        /\ Live(s) = {} /\ s.curenv = NULL /\ binary \in Programs
    BY UserPrograms DEF Starting, Sound
  <1>2. t \in Kernels /\ EnvTable(t) /\ t.curenv = NULL
    BY <1>1, NonePast, EnvCreateStep
  <1>3. ASSUME ~Stopped(t) PROVE Starting(t, W, {0})
    <2>1. EnvSpace(t, W)
      BY <1>1, <1>3, CreateMem
    <2>2. Spaces(s, Directories(s), W)
      BY <1>1 DEF EnvSpace
    <2>3. PICK m, e : GivesEnv(s, m, e, 0) /\ SameEnvs(m, t)
      BY <1>1, <1>3, <2>2, EnvCreateSpace
    <2>4. /\ e = 0 /\ t.envs[e].env_status = "ENV_RUNNABLE"
          /\ \A i \in EnvIdx : i # e => t.envs[i] = s.envs[i]
      BY <2>3 DEF GivesEnv, SameEnvs
    <2>5. Live(t) = {0}
      BY <1>1, <2>4, FirstEnv DEF Live
    <2> QED
      BY <1>2, <1>3, <2>1, <2>5 DEF Starting, Sound
  <1> QED
    BY <1>2, <1>3

(* Boot. *)
LEMMA InitMemory == Init => MemoryInv
  <1> SUFFICES ASSUME Init PROVE MemoryInv
    OBVIOUS
  <1>1. PICK n \in 0 .. HogMax : k = env_init(Booted(n).m) /\ hog = Booted(n).pages /\ mode = "boot"
    BY DEF Init
  <1> DEFINE b == Booted(n)
  <1>2. BootState(b) /\ b.pages \subseteq Page
    BY BootedState, HarnessAssumption
  <1>3. k = env_init(b.m) /\ hog = b.pages
    BY <1>1
  <1> HIDE DEF b
  <1>4. EnvSpace(k, hog) /\ ~Stopped(k)
    BY <1>2, <1>3, BootMem0
  <1>5. MemType(b.m) /\ b.m.panicked = FALSE
    BY <1>2 DEF BootState, MemInv
  <1>6. k \in Kernels /\ EnvTable(k) /\ Live(k) = {} /\ k.curenv = NULL
    BY <1>3, <1>5, EnvInitStep
  <1>7. k.env_free_list = 0
    BY <1>3 DEF env_init
  <1>8. Starting(k, hog, {})
    BY <1>4, <1>6 DEF Starting, Sound
  <1> QED
    BY <1>1, <1>2, <1>3, <1>6, <1>7, <1>8 DEF MemoryInv, Where

-----------------------------------------------------------------------------
(* A handler that ends the environment. *)
LEMMA DestroyRunning ==
    ASSUME Runs(k, hog), EnvDestroy(0)
    PROVE  mode' = "monitor" /\ cpu' = cpu /\ k' \in Kernels /\ Gone(k', hog)
  <1>1. k.envs[0].env_pgdir \in Page /\ NULL \notin Page
    BY NullAssumption DEF Runs, Sound, EnvTable, Live, Page
  <1>2. k' = env_free(k, 0) /\ mode' = "monitor" /\ cpu' = cpu
    BY <1>1 DEF EnvDestroy
  <1>3. Gone(k', hog)
    BY <1>2, FreeOne
  <1> QED
    BY <1>2, <1>3 DEF Gone

(* A handler that returns to it. *)
LEMMA ReturnRunning ==
    ASSUME Runs(k, hog), ReturnToUser(k)
    PROVE  mode' = "user" /\ cpu' = env_pop_tf(env_tf') /\ k' \in Kernels /\ Runs(k', hog)
  <1>1. /\ Sound(k, hog) /\ Live(k) = {0} /\ k.curenv = 0 /\ k.curenv # NULL
        /\ k.envs[0].env_status = "ENV_RUNNING"
    BY FirstEnv DEF Runs, Sound, EnvTable
  <1>2. k' = env_run(k, 0) /\ mode' = "user" /\ cpu' = env_pop_tf(env_tf')
    BY <1>1 DEF ReturnToUser
  <1>3. Runs(k', hog)
    BY <1>1, <1>2, RunOne
  <1> QED
    BY <1>2, <1>3 DEF Runs, Sound

-----------------------------------------------------------------------------
(* The error code that trap() finds. *)
ErrorCode(v) == IF v \in PushesCode THEN Code ELSE 0

(* For each vector that can be raised exactly one of the processor and the *)
(* entry point pushes an error code.                                       *)
LEMMA OneCode ==
    ASSUME NEW v \in Raised
    PROVE  v \in PushesCode <=> v \notin TRAPHANDLER_NOEC
  BY DEF Raised, Exceptions, SoftwareInt, UserGates, PushesCode, TRAPHANDLER_NOEC, T_BRKPT,
         T_SYSCALL, T_GPFLT

(* What is pushed comes last. *)
Longer(t, s, S, n, x) ==
    /\ t \in Seq(S) /\ Len(t) = n + 1 /\ t[n + 1] = x
    /\ \A i \in 1 .. n : t[i] = s[i]

LEMMA Pushes ==
    ASSUME NEW S, NEW s \in Seq(S), NEW n \in Nat, Len(s) = n, NEW x \in S
    PROVE  s \o <<>> = s /\ Longer(s \o <<x>>, s, S, n, x)
  BY DEF Longer

(* What trap() reads as the number, the error code and the registers c.    *)
IsFrame(s, v, c) ==
    /\ Len(s) = 7 /\ s[7] = v /\ s[6] = ErrorCode(v) /\ s[5] = c.eip /\ s[4] = c.cs
    /\ s[3] = c.eflags /\ s[2] = c.esp /\ s[1] = c.ss

(* So the words on the stack are those of a struct Trapframe, in place. *)
LEMMA WholeFrame ==
    ASSUME NEW v \in Raised, NEW c
    PROVE  Trapframe(Pushed(v, c)) =
               [tf_trapno |-> v, tf_err |-> ErrorCode(v), tf_eip |-> c.eip, tf_cs |-> c.cs,
                tf_eflags |-> c.eflags, tf_esp |-> c.esp, tf_ss |-> c.ss]
  <1> DEFINE h == <<c.ss, c.esp, c.eflags, c.cs, c.eip>>
             S == {c.ss, c.esp, c.eflags, c.cs, c.eip, ErrorCode(v), v}
             e == h \o <<ErrorCode(v)>>
             s == e \o <<v>>
  <1>1. Pushed(v, c) = s
    <2>0. h \in Seq(S) /\ ErrorCode(v) \in S
      OBVIOUS
    <2>1. h \o <<>> = h /\ e \o <<>> = e
      BY <2>0, Pushes
    <2>2. Pushed(v, c) = ((h \o (IF v \in PushesCode THEN <<Code>> ELSE <<>>))
                             \o (IF v \in TRAPHANDLER_NOEC THEN <<0>> ELSE <<>>)) \o <<v>>
      BY DEF Pushed
    <2> HIDE DEF h, S
    <2>3. CASE v \in PushesCode
      <3>1. v \notin TRAPHANDLER_NOEC /\ ErrorCode(v) = Code
        BY <2>3, OneCode DEF ErrorCode
      <3> QED
        BY <2>1, <2>2, <2>3, <3>1
    <2>4. CASE v \notin PushesCode
      <3>1. v \in TRAPHANDLER_NOEC /\ ErrorCode(v) = 0
        BY <2>4, OneCode DEF ErrorCode
      <3> QED
        BY <2>1, <2>2, <2>4, <3>1
    <2> QED
      BY <2>3, <2>4
  <1>2. IsFrame(s, v, c)
    <2>1. /\ h \in Seq(S) /\ ErrorCode(v) \in S /\ v \in S /\ Len(h) = 5
          /\ h[5] = c.eip /\ h[4] = c.cs /\ h[3] = c.eflags /\ h[2] = c.esp /\ h[1] = c.ss
      OBVIOUS
    <2> HIDE DEF h, S
    <2>2. 5 \in Nat /\ 6 \in Nat
      OBVIOUS
    <2>3. Longer(e, h, S, 5, ErrorCode(v))
      BY <2>1, <2>2, Pushes
    <2> HIDE DEF e
    <2>4. e \in Seq(S) /\ Len(e) = 6 /\ e[6] = ErrorCode(v) /\ \A i \in 1 .. 5 : e[i] = h[i]
      BY <2>3 DEF Longer
    <2>5. Longer(s, e, S, 6, v)
      BY <2>1, <2>4, <2>2, Pushes
    <2> HIDE DEF s
    <2>6. Len(s) = 7 /\ s[7] = v /\ \A i \in 1 .. 6 : s[i] = e[i]
      BY <2>5 DEF Longer
    <2> QED
      BY <2>1, <2>4, <2>6 DEF IsFrame
  <1> HIDE DEF s
  <1> QED
    BY <1>1, <1>2 DEF Trapframe, IsFrame

(* The environment's registers, and the last frame of it. *)
FrameInv ==
    /\ cpu = env_pop_tf(Start) /\ env_pop_tf(env_tf) = env_pop_tf(Start)
    /\ env_tf.tf_cs = UserCS
    /\ vector # NULL => env_tf.tf_trapno = vector /\ env_tf.tf_err = ErrorCode(vector)

(* The vectors of the three traps with a handler of their own. *)
LEMMA Handled == T_PGFLT \in Raised /\ T_BRKPT \in Raised /\ T_SYSCALL \in Raised
  <1>1. T_PGFLT \in Exceptions /\ T_BRKPT \in Exceptions
    BY DEF T_PGFLT, T_BRKPT, Exceptions
  <1>2. SoftwareInt(48) = T_SYSCALL /\ 48 \in 0 .. 255
    BY DEF SoftwareInt, UserGates, T_SYSCALL
  <1> QED
    BY <1>1, <1>2 DEF Raised

(* A trap saves the environment's registers and leaves a whole frame. *)
LEMMA TrapSaves ==
    ASSUME FrameInv, NEW v \in Raised, Trapped(v)
    PROVE  /\ vector' = v /\ env_tf'.tf_cs = UserCS /\ env_pop_tf(env_tf') = env_pop_tf(Start)
           /\ cpu' = cpu \/ cpu' = env_pop_tf(env_tf') => FrameInv'
  <1> DEFINE tf == Trapframe(Pushed(v, cpu))
  <1>1. cpu = [eip |-> 32, cs |-> UserCS, eflags |-> 0, esp |-> 64, ss |-> UserDS]
    BY DEF FrameInv, env_pop_tf, Start
  <1>2. tf = [tf_trapno |-> v, tf_err |-> ErrorCode(v), tf_eip |-> 32, tf_cs |-> UserCS,
              tf_eflags |-> 0, tf_esp |-> 64, tf_ss |-> UserDS]
    BY <1>1, WholeFrame
  <1>3. vector' = v /\ env_tf' = IF tf.tf_cs % 4 = 3 THEN tf ELSE env_tf
    BY DEF Trapped
  <1> HIDE DEF tf
  <1>4. tf.tf_cs % 4 = 3
    BY <1>2 DEF UserCS
  <1>5. env_tf' = tf
    BY <1>3, <1>4
  <1>6. env_tf'.tf_cs = UserCS /\ env_pop_tf(env_tf') = env_pop_tf(Start)
    BY <1>2, <1>5 DEF env_pop_tf, Start
  <1>7. env_tf'.tf_trapno = v /\ env_tf'.tf_err = ErrorCode(v)
    BY <1>2, <1>5
  <1> QED
    BY <1>3, <1>6, <1>7 DEF FrameInv

-----------------------------------------------------------------------------
(* The invariant of the kernel. *)
KernelInv == MemoryInv /\ FrameInv

(* Boot establishes it. *)
LEMMA InitKernel == Init => KernelInv
  <1> SUFFICES ASSUME Init PROVE KernelInv
    OBVIOUS
  <1>1. vector = NULL /\ env_tf = Start /\ cpu = env_pop_tf(Start)
    BY DEF Init
  <1>2. FrameInv
    BY <1>1 DEF FrameInv, Start
  <1> QED
    BY <1>2, InitMemory DEF KernelInv

(* So does a trap that ends the environment. *)
LEMMA TrapDestroys ==
    ASSUME KernelInv, NEW v \in Raised, Trapped(v), EnvDestroy(k.curenv), hog' = hog
    PROVE  KernelInv'
  <1>1. mode = "user" /\ Runs(k, hog) /\ k.curenv = 0 /\ FrameInv /\ hog \subseteq Page
    BY DEF KernelInv, MemoryInv, Where, Trapped, Runs
  <1>2. mode' = "monitor" /\ cpu' = cpu /\ k' \in Kernels /\ Gone(k', hog)
    BY <1>1, DestroyRunning
  <1>3. FrameInv'
    BY <1>1, <1>2, TrapSaves
  <1>4. Where(mode', k', hog')
    BY <1>2 DEF Where
  <1> QED
    BY <1>1, <1>2, <1>3, <1>4 DEF KernelInv, MemoryInv

(* And a system call that returns to it. *)
LEMMA TrapReturns ==
    ASSUME KernelInv, NEW v \in Raised, Trapped(v), ReturnToUser(k), hog' = hog
    PROVE  KernelInv'
  <1>1. mode = "user" /\ Runs(k, hog) /\ FrameInv /\ hog \subseteq Page
    BY DEF KernelInv, MemoryInv, Where, Trapped
  <1>2. mode' = "user" /\ cpu' = env_pop_tf(env_tf') /\ k' \in Kernels /\ Runs(k', hog)
    BY <1>1, ReturnRunning
  <1>3. FrameInv'
    BY <1>1, <1>2, TrapSaves
  <1>4. Where(mode', k', hog')
    BY <1>2 DEF Where
  <1> QED
    BY <1>1, <1>2, <1>3, <1>4 DEF KernelInv, MemoryInv

(* And a trap that leaves the environment as it is, in the monitor or with *)
(* a page fault of the kernel.                                             *)
LEMMA TrapStops ==
    ASSUME KernelInv, NEW v \in Raised, Trapped(v), mode' \in {"monitor", "fault"},
           k' = k, cpu' = cpu, hog' = hog
    PROVE  KernelInv'
  <1>1. mode = "user" /\ Runs(k, hog) /\ FrameInv /\ hog \subseteq Page /\ k \in Kernels
    BY DEF KernelInv, MemoryInv, Where, Trapped
  <1>2. FrameInv'
    BY <1>1, TrapSaves
  <1>3. Where(mode', k', hog')
    BY <1>1 DEF Where
  <1> QED
    BY <1>1, <1>2, <1>3 DEF KernelInv, MemoryInv

(* The environment that envid2env() finds is the one that runs. *)
LEMMA FoundRuns ==
    ASSUME Runs(k, hog), NEW envid \in 0 .. IdMax,
           NEW found, found = envid2env(k, envid, TRUE), ~(found.r < 0)
    PROVE  found.e = k.curenv
  <1>1. k.curenv = 0 /\ Live(k) = {0}
    BY DEF Runs
  <1>2. CASE envid = 0
    BY <1>2 DEF envid2env
  <1>3. CASE envid # 0
    <2> DEFINE e == ENVX(envid)
    <2>1. e \in EnvIdx
      BY Generation, EnvAssumption
    <2> HIDE DEF e
    <2>2. found.e = e /\ k.envs[e].env_status # "ENV_FREE"
      BY <1>3 DEF envid2env, E_BAD_ENV, e
    <2> QED
      BY <1>1, <2>1, <2>2 DEF Live
  <1> QED
    BY <1>2, <1>3

(* Every step keeps it. *)
LEMMA NextKernel == KernelInv /\ [Next]_vars => KernelInv'
  <1> SUFFICES ASSUME KernelInv, [Next]_vars PROVE KernelInv'
    OBVIOUS
  <1>0. k \in Kernels /\ hog \subseteq Page /\ Where(mode, k, hog) /\ FrameInv
    BY DEF KernelInv, MemoryInv
  <1>1. ASSUME NEW binary \in Binaries, EnvCreate(binary) PROVE KernelInv'
    <2>1. /\ k' = env_create(k, binary) /\ UNCHANGED <<hog, vector, env_tf, cpu>>
          /\ mode' = IF k'.panicked THEN "monitor" ELSE IF k'.faulted THEN "fault" ELSE "created"
          /\ Starting(k, hog, {}) /\ k.env_free_list = 0
      BY <1>0, <1>1 DEF EnvCreate, traps, Where
    <2>2. k' \in Kernels /\ k'.curenv = NULL /\ (~Stopped(k') => Starting(k', hog, {0}))
      BY <2>1, CreateOne
    <2>3. Where(mode', k', hog')
      BY <2>1, <2>2 DEF Where, Stopped
    <2>4. FrameInv'
      BY <1>0, <2>1 DEF FrameInv
    <2> QED
      BY <1>0, <2>1, <2>2, <2>3, <2>4 DEF KernelInv, MemoryInv
  <1>2. CASE RunFirst
    <2>1. /\ k' = env_run(k, 0) /\ mode' = "user" /\ cpu' = env_pop_tf(env_tf)
          /\ UNCHANGED <<hog, vector, env_tf>> /\ Sound(k, hog) /\ Live(k) = {0}
      BY <1>0, <1>2 DEF RunFirst, Where, Starting
    <2>2. Runs(k', hog)
      BY <2>1, RunOne
    <2>3. Where(mode', k', hog') /\ k' \in Kernels
      BY <2>1, <2>2 DEF Where, Runs, Sound
    <2>4. FrameInv'
      BY <1>0, <2>1 DEF FrameInv
    <2> QED
      BY <1>0, <2>1, <2>3, <2>4 DEF KernelInv, MemoryInv
  <1>3. CASE UserPageFault
    <2>1. /\ Trapped(T_PGFLT) /\ page_fault_handler(env_tf'.tf_cs) /\ hog' = hog
          /\ T_PGFLT \in Raised
      BY <1>3, Handled DEF UserPageFault
    <2>2. env_tf'.tf_cs = UserCS
      BY <1>0, <2>1, TrapSaves
    <2>3. k.curenv # NULL
      BY <1>0, <2>1, FirstEnv DEF Trapped, Where, Runs
    <2>4. EnvDestroy(k.curenv)
      BY <2>1, <2>2, <2>3 DEF page_fault_handler, UserCS
    <2> QED
      BY <2>1, <2>4, TrapDestroys
  <1>4. CASE KernelPageFault
    <2>1. mode = "fault" /\ page_fault_handler(GD_KT) /\ UNCHANGED <<hog, vector, env_tf>>
      BY <1>4 DEF KernelPageFault
    <2>2. CASE k.curenv = NULL
      <3>1. mode' = "lost" /\ UNCHANGED <<k, cpu>>
        BY <2>1, <2>2 DEF page_fault_handler, GD_KT
      <3>2. Where(mode', k', hog')
        BY <2>2, <3>1 DEF Where
      <3>3. FrameInv'
        BY <1>0, <2>1, <3>1 DEF FrameInv
      <3> QED
        BY <1>0, <2>1, <3>1, <3>2, <3>3 DEF KernelInv, MemoryInv
    <2>3. CASE Runs(k, hog)
      <3>1. k.curenv = 0 /\ k.curenv # NULL
        BY <2>3, FirstEnv DEF Runs
      <3>2. EnvDestroy(0)
        BY <2>1, <3>1 DEF page_fault_handler, GD_KT
      <3>3. mode' = "monitor" /\ cpu' = cpu /\ k' \in Kernels /\ Gone(k', hog)
        BY <2>3, <3>2, DestroyRunning
      <3>4. Where(mode', k', hog')
        BY <2>1, <3>3 DEF Where
      <3>5. FrameInv'
        BY <1>0, <2>1, <3>3 DEF FrameInv
      <3> QED
        BY <1>0, <2>1, <3>3, <3>4, <3>5 DEF KernelInv, MemoryInv
    <2>4. CASE Gone(k, hog)
      <3>1. k.curenv = 0 /\ k.curenv # NULL /\ k.envs[0].env_pgdir = NULL
        BY <2>4, FirstEnv DEF Gone
      <3>2. k' = k /\ mode' = "lost" /\ cpu' = cpu
        BY <2>1, <3>1 DEF page_fault_handler, GD_KT, EnvDestroy
      <3>3. Where(mode', k', hog')
        BY <2>1, <2>4, <3>2 DEF Where
      <3>4. FrameInv'
        BY <1>0, <2>1, <3>2 DEF FrameInv
      <3> QED
        BY <1>0, <2>1, <3>2, <3>3, <3>4 DEF KernelInv, MemoryInv
    <2> QED
      BY <1>0, <2>1, <2>2, <2>3, <2>4 DEF Where
  <1>5. CASE Backtrace
    <2>1. mode = "monitor" /\ mode' \in {"monitor", "fault"} /\ UNCHANGED <<k, hog, traps>>
      BY <1>5 DEF Backtrace
    <2>2. Where(mode', k', hog')
      BY <1>0, <2>1 DEF Where
    <2>3. FrameInv'
      BY <1>0, <2>1 DEF FrameInv, traps
    <2> QED
      BY <1>0, <2>1, <2>2, <2>3 DEF KernelInv, MemoryInv
  <1>6. CASE Breakpoint
    <2>1. Trapped(T_BRKPT) /\ mode' = "monitor" /\ UNCHANGED <<k, hog, cpu>> /\ T_BRKPT \in Raised
      BY <1>6, Handled DEF Breakpoint
    <2> QED
      BY <2>1, TrapStops
  <1>7. CASE OtherTrap
    <2>1. PICK v \in Raised : Trapped(v)
      BY <1>7 DEF OtherTrap
    <2>2. env_tf'.tf_cs = UserCS
      BY <1>0, <2>1, TrapSaves
    <2>3. EnvDestroy(k.curenv) /\ hog' = hog
      BY <1>7, <2>2 DEF OtherTrap, UserCS, GD_KT
    <2> QED
      BY <2>1, <2>3, TrapDestroys
  <1>8. ASSUME NEW s \in Address, NEW len \in Address, SysCputs(s, len)
        PROVE  KernelInv'
    <2>1. Trapped(T_SYSCALL) /\ hog' = hog /\ T_SYSCALL \in Raised
      BY <1>8, Handled DEF SysCputs
    <2>2. \/ EnvDestroy(k.curenv)
          \/ ReturnToUser(k)
          \/ mode' = "fault" /\ UNCHANGED <<k, cpu>>
      BY <1>8 DEF SysCputs
    <2> QED
      BY <2>1, <2>2, TrapDestroys, TrapReturns, TrapStops
  <1>9. CASE SysCgetc \/ SysGetenvid \/ SysUnknown
    <2>1. Trapped(T_SYSCALL) /\ ReturnToUser(k) /\ hog' = hog /\ T_SYSCALL \in Raised
      BY <1>9, Handled DEF SysCgetc, SysGetenvid, SysUnknown
    <2> QED
      BY <2>1, TrapReturns
  <1>10. ASSUME NEW envid \in 0 .. IdMax, SysEnvDestroy(envid) PROVE KernelInv'
    <2> DEFINE found == envid2env(k, envid, TRUE)
    <2>1. /\ Trapped(T_SYSCALL) /\ hog' = hog /\ T_SYSCALL \in Raised
          /\ IF found.r < 0 THEN ReturnToUser(k) ELSE EnvDestroy(found.e)
      BY <1>10, Handled DEF SysEnvDestroy
    <2>2. Runs(k, hog)
      BY <1>0, <2>1 DEF Trapped, Where
    <2>3. ~(found.r < 0) => found.e = k.curenv
      BY <2>2, FoundRuns
    <2> HIDE DEF found
    <2> QED
      BY <2>1, <2>3, TrapReturns, TrapDestroys
  <1>11. CASE UNCHANGED vars
    <2>1. UNCHANGED <<k, hog, mode, vector, env_tf, cpu>>
      BY <1>11 DEF vars, traps
    <2> QED
      BY <1>0, <2>1 DEF KernelInv, MemoryInv, FrameInv
  <1> QED
    BY <1>1, <1>2, <1>3, <1>4, <1>5, <1>6, <1>7, <1>8, <1>9, <1>10, <1>11 DEF Next, Halted

(* Every state reached has it. *)
LEMMA KernelInvariant == Spec => []KernelInv
  BY InitKernel, NextKernel, PTL DEF Spec

-----------------------------------------------------------------------------
(* Addresses by the number of their page, which wraps around with them.    *)
WrapsTo(a, A, P, c, x) ==
    /\ A \in Nat \ {0} /\ a \in 0 .. A - 1 /\ a = c * P + x
    /\ a \div P = c /\ a % P = x

LEMMA WrapDiv ==
    ASSUME NEW P \in Nat \ {0}, NEW S \in Nat \ {0}, NEW b \in Int, NEW x \in 0 .. P - 1,
           NEW A, A = S * P, NEW a, a = (b * P + x) % A
    PROVE  WrapsTo(a, A, P, b % S, x)
  <1> DEFINE h == b \div S
             c == b % S
             y == c * P + x
  <1>1. h \in Int /\ c \in 0 .. S - 1 /\ b = h * S + c
    OBVIOUS
  <1> HIDE DEF h, c
  <1>2. A \in Nat \ {0} /\ b * P = h * A + c * P
    <2>1. b * P = (h * S) * P + c * P
      BY <1>1
    <2>2. (h * S) * P = h * A
      BY <1>1
    <2>3. S >= 1 /\ P >= 1 /\ S * P \in Int
      OBVIOUS
    <2>4. S * P >= 1
      BY <2>3
    <2> QED
      BY <2>1, <2>2, <2>3, <2>4
  <1>3. c * P \in Int /\ 0 <= c * P /\ c * P <= A - P
    <2>1. c * P + P <= S * P
      <3>1. c + 1 <= S /\ (c + 1) * P = c * P + P
        BY <1>1
      <3>2. (c + 1) * P <= S * P
        BY <1>1, <3>1
      <3> QED
        BY <3>1, <3>2, <1>1
    <2>2. 0 <= c * P /\ c * P \in Int
      BY <1>1
    <2> QED
      BY <2>1, <2>2, <1>2
  <1>4. y \in 0 .. A - 1 /\ b * P + x = h * A + y
    <2>1. h * A \in Int
      BY <1>1, <1>2
    <2> QED
      BY <1>2, <1>3, <2>1
  <1> HIDE DEF y
  <1>5. (h * A + y) % A = y
    BY <1>1, <1>2, <1>4, DivMod
  <1>6. a = y
    BY <1>4, <1>5
  <1>7. (c * P + x) % P = x /\ (c * P + x) \div P = c
    BY <1>1, DivMod
  <1> QED
    BY <1>2, <1>4, <1>6, <1>7 DEF WrapsTo, y, c

(* Quotient and remainder, and a remainder taken twice. *)
LEMMA DivFacts ==
    ASSUME NEW P \in Nat \ {0}, NEW a \in Nat, NEW q, q = a \div P, NEW r, r = a % P
    PROVE  q \in Nat /\ r \in 0 .. P - 1 /\ a = q * P + r /\ q * P \in Nat
  <1>1. q \in Int /\ r \in 0 .. P - 1 /\ a = q * P + r
    OBVIOUS
  <1>2. q >= 0
    <2> SUFFICES ASSUME q <= -1 PROVE FALSE
      BY <1>1
    <2>1. q * P <= (-1) * P
      BY <1>1
    <2> QED
      BY <1>1, <2>1
  <1> QED
    BY <1>1, <1>2

(* <<PDX, PTX>> of the page with number c. *)
PageNo(c) == <<c \div NSlots, c % NSlots>>

(* An address lies in the window at UVPT or below when its page does. *)
InPage(a, c) ==
    /\ PageOf(a) = PageNo(c) /\ PageNo(c) \in VA
    /\ a >= ULIM <=> PageNo(c)[1] > UVPTSlot

LEMMA AddressPage ==
    ASSUME NEW a \in Address
    PROVE  InPage(a, a \div PGSIZE)
  <1> DEFINE c == a \div PGSIZE
             x == a % PGSIZE
             h == c \div NSlots
             g == c % NSlots
             B == NSlots * PGSIZE
             y == g * PGSIZE + x
  <1>1. /\ PGSIZE \in Nat \ {0} /\ NSlots \in Nat \ {0} /\ UVPTSlot \in Nat /\ UVPTSlot < NSlots
    BY PageSizeAssumption, SlotAssumption
  <1>2. a \in Nat /\ c \in Nat /\ x \in 0 .. PGSIZE - 1 /\ a = c * PGSIZE + x
    BY <1>1 DEF Address
  <1> HIDE DEF c, x
  <1>3. h \in Nat /\ g \in 0 .. NSlots - 1 /\ c = h * NSlots + g
    BY <1>1, <1>2
  <1> HIDE DEF h, g
  <1>4. B \in Nat \ {0} /\ y \in 0 .. B - 1
    <2>1. B \in Nat \ {0} /\ (g + 1) * PGSIZE <= B /\ (g + 1) * PGSIZE = g * PGSIZE + PGSIZE
      BY <1>1, <1>3
    <2>2. g * PGSIZE \in Nat
      BY <1>1, <1>3
    <2> QED
      BY <1>1, <1>2, <2>1, <2>2
  <1>5. a = h * B + y
    <2>1. c * PGSIZE = (h * NSlots) * PGSIZE + g * PGSIZE
      BY <1>1, <1>3
    <2>2. (h * NSlots) * PGSIZE = h * B
      BY <1>1, <1>3
    <2>3. h * B \in Nat /\ g * PGSIZE \in Nat
      BY <1>1, <1>3, <1>4
    <2> QED
      BY <1>1, <1>2, <2>1, <2>2, <2>3
  <1> HIDE DEF y
  <1>b. B = NSlots * PGSIZE
    OBVIOUS
  <1>s. AddressSpaceSize = NSlots * B
    BY <1>1, <1>b DEF AddressSpaceSize
  <1>u. ULIM = (UVPTSlot + 1) * B
    BY <1>1, <1>b DEF ULIM
  <1> HIDE DEF B
  <1>6. a \div B = h
    <2>1. h \in Int
      BY <1>3
    <2>2. (h * B + y) \div B = h
      BY <1>4, <2>1, DivMod
    <2> QED
      BY <1>5, <2>2
  <1>7. PageOf(a) = PageNo(c)
    BY <1>6, <1>b DEF PageOf, PageNo, c, h, g
  <1>8. PageNo(c) = <<h, g>>
    BY DEF PageNo, h, g
  <1>9. h < NSlots
    <2> SUFFICES ASSUME h >= NSlots PROVE FALSE
      BY <1>1, <1>3
    <2>1. h * B >= NSlots * B
      BY <1>1, <1>3, <1>4
    <2>2. a < NSlots * B
      BY <1>s, <1>1, <1>4 DEF Address
    <2>3. h * B \in Nat /\ NSlots * B \in Nat
      BY <1>1, <1>3, <1>4
    <2> QED
      BY <1>4, <1>5, <2>1, <2>2, <2>3
  <1>10. a >= ULIM <=> h > UVPTSlot
    <2>1. /\ h * B \in Nat /\ (UVPTSlot + 1) * B \in Nat
      BY <1>1, <1>3, <1>4
    <2>2. CASE h > UVPTSlot
      <3>1. h * B >= (UVPTSlot + 1) * B
        BY <1>1, <1>3, <1>4, <2>2
      <3> QED
        BY <1>4, <1>5, <1>u, <2>1, <2>2, <3>1
    <2>3. CASE h <= UVPTSlot
      <3>1. (h + 1) * B <= (UVPTSlot + 1) * B
        BY <1>1, <1>3, <1>4, <2>3
      <3>2. (h + 1) * B = h * B + B
        BY <1>3, <1>4
      <3> QED
        BY <1>3, <1>1, <1>4, <1>5, <1>u, <2>1, <2>3, <3>1, <3>2
    <2> QED
      BY <1>1, <1>3, <2>2, <2>3
  <1>11. PageNo(c) \in VA
    BY <1>1, <1>3, <1>8, <1>9 DEF VA, Slot
  <1>12. InPage(a, c)
    BY <1>7, <1>8, <1>10, <1>11 DEF InPage
  <1> QED
    BY <1>12 DEF c

LEMMA ModMod ==
    ASSUME NEW A \in Nat \ {0}, NEW b \in Int, NEW y \in Int
    PROVE  ((b % A) + y) % A = (b + y) % A
  <1> DEFINE h == b \div A
             c == b % A
             v == (c + y) \div A
             u == (c + y) % A
  <1>1. h \in Int /\ c \in Int /\ b = h * A + c /\ h * A \in Int
    OBVIOUS
  <1> HIDE DEF h, c
  <1>2. v \in Int /\ u \in 0 .. A - 1 /\ c + y = v * A + u /\ v * A \in Int
    BY <1>1
  <1> HIDE DEF v, u
  <1>3. (h + v) * A = h * A + v * A /\ h + v \in Int
    BY <1>1, <1>2
  <1>4. b + y = (h + v) * A + u
    BY <1>1, <1>2, <1>3
  <1>5. ((h + v) * A + u) % A = u
    BY <1>2, <1>3, DivMod
  <1> QED
    BY <1>4, <1>5 DEF u, c

(* The addresses user_mem_check() looks at and the bytes of the range are  *)
(* in the same pages.                                                      *)
Checked(va, len, n) ==
    /\ n \in Nat
    /\ \A i \in 0 .. n - 1 : \E j \in 0 .. len - 1 :
          Wrapped(va + i * PGSIZE) \div PGSIZE = Wrapped(va + j) \div PGSIZE
    /\ \A j \in 0 .. len - 1 : \E i \in 0 .. n - 1 :
          Wrapped(va + i * PGSIZE) \div PGSIZE = Wrapped(va + j) \div PGSIZE

LEMMA CheckedPages ==
    ASSUME NEW va \in Address, NEW len \in Address \ {0}, Countable(va, len),
           NEW n, n = Wrapped(ROUNDUP(Wrapped(va + len)) - ROUNDDOWN(va)) \div PGSIZE
    PROVE  Checked(va, len, n)
  <1> DEFINE P == PGSIZE
             S == NSlots * NSlots
             A == AddressSpaceSize
             q == va \div P
             r == va % P
             z == r + len - 1
             l == z \div P
             x == z % P
             N == l + 1
  <1>1. P \in Nat \ {0} /\ S \in Nat \ {0} /\ A = S * P /\ A \in Nat \ {0}
    <2>1. NSlots \in Nat \ {0}
      BY SlotAssumption
    <2>2. S \in Nat \ {0}
      <3>1. NSlots >= 1 /\ NSlots * NSlots \in Int
        BY <2>1
      <3>2. NSlots * NSlots >= NSlots
        BY <3>1, <2>1
      <3>3. S \in Int /\ S >= NSlots
        BY <3>1, <3>2
      <3> HIDE DEF S
      <3> QED
        BY <2>1, <3>1, <3>3
    <2>3. S * P \in Nat \ {0}
      <3>1. S \in Nat \ {0} /\ P \in Nat \ {0}
        BY <2>2, PageSizeAssumption
      <3> HIDE DEF S, P
      <3> QED
        BY <3>1
    <2> QED
      BY <2>2, <2>3, PageSizeAssumption DEF AddressSpaceSize
  <1>2. len \in Nat /\ len >= 1 /\ r + len <= A - P
    BY <1>1 DEF Address, Countable
  <1>3. va \in Nat /\ q \in Nat /\ r \in 0 .. P - 1 /\ va = q * P + r /\ q * P \in Nat
    BY <1>1 DEF Address
  <1> HIDE DEF P, S, A, q, r
  <1>4. z \in Nat /\ z < A - P
    BY <1>1, <1>2, <1>3
  <1>5. l \in Nat /\ x \in 0 .. P - 1 /\ z = l * P + x /\ l * P \in Nat
    BY <1>1, <1>4, DivFacts
  <1>a. z = r + len - 1 /\ N = l + 1
    OBVIOUS
  <1> HIDE DEF z, l, x, N
  <1>6. N \in 1 .. S - 1
    <2> SUFFICES ASSUME l >= S - 1 PROVE FALSE
      BY <1>1, <1>5, <1>a
    <2>1. l * P >= (S - 1) * P /\ (S - 1) * P = S * P - P
      BY <1>1, <1>5
    <2> QED
      BY <1>1, <1>4, <1>5, <2>1
  <1>7. n = N
    <2> DEFINE u == Wrapped(Wrapped(va + len) + P - 1)
               c == (q + N) % S
               w == (q + N) \div S
    <2>0. /\ q + N \in Int /\ c \in 0 .. S - 1 /\ w \in Int /\ q + N = w * S + c
          /\ w * S \in Int
      BY <1>1, <1>3, <1>6
    <2>1. u = ((q + N) * P + x) % A
      <3>1. u = (((va + len) % A) + (P - 1)) % A
        <4>1. (va + len) % A \in Int
          BY <1>1, <1>2, <1>3
        <4>2. ((va + len) % A) + P - 1 = ((va + len) % A) + (P - 1)
          BY <4>1, <1>1
        <4> QED
          BY <4>2 DEF Wrapped, A
      <3>2. u = ((va + len) + (P - 1)) % A
        <4>1. va + len \in Int /\ P - 1 \in Int
          BY <1>1, <1>2, <1>3
        <4>2. (((va + len) % A) + (P - 1)) % A = ((va + len) + (P - 1)) % A
          BY <1>1, <4>1, ModMod
        <4> QED
          BY <3>1, <4>2
      <3>3. (q + N) * P = q * P + l * P + P
        BY <1>1, <1>3, <1>5, <1>a
      <3>4. (va + len) + (P - 1) = (q + N) * P + x
        BY <1>1, <1>2, <1>3, <1>5, <1>a, <3>3
      <3> QED
        BY <3>2, <3>4
    <2>2. u \in 0 .. A - 1 /\ u = c * P + x /\ u % P = x
      <3>1. WrapsTo(u, A, P, c, x)
        BY <1>1, <1>5, <2>0, <2>1, WrapDiv
      <3> QED
        BY <3>1 DEF WrapsTo
    <2>3. ROUNDUP(Wrapped(va + len)) = u - x
      <3>1. ROUNDUP(Wrapped(va + len)) = ROUNDDOWN(u)
        BY DEF ROUNDUP, P
      <3> HIDE DEF u
      <3>2. ROUNDDOWN(u) = u - (u % P)
        BY DEF ROUNDDOWN, P
      <3> DEFINE y == u % P
      <3>3. ROUNDDOWN(u) = u - y /\ y = x
        BY <2>2, <3>2
      <3> HIDE DEF y
      <3> QED
        BY <3>1, <3>3
    <2>4. ROUNDDOWN(va) = q * P
      <3>1. ROUNDDOWN(va) = va - r
        BY DEF ROUNDDOWN, r, P
      <3> QED
        BY <3>1, <1>3
    <2> HIDE DEF u, c, w
    <2>5. ROUNDUP(Wrapped(va + len)) - ROUNDDOWN(va) = (c - q) * P + 0
      <3>1. (c - q) * P = c * P - q * P /\ c * P \in Int
        BY <1>1, <1>3, <2>0
      <3>2. u - x = c * P
        BY <2>2, <3>1, <1>5
      <3>3. ROUNDUP(Wrapped(va + len)) - ROUNDDOWN(va) = c * P - q * P
        BY <2>3, <2>4, <3>2
      <3> QED
        BY <1>3, <3>1, <3>3
    <2>6. n = (((c - q) * P + 0) % A) \div P
      BY <2>5 DEF Wrapped, A, P
    <2>7. c - q \in Int /\ 0 \in 0 .. P - 1
      BY <1>1, <1>3, <2>0
    <2>8. n = (c - q) % S
      <3> DEFINE b == c - q
                 a == (b * P + 0) % A
      <3>1. b \in Int
        BY <2>7
      <3> HIDE DEF b
      <3>2. a = (b * P + 0) % A
        OBVIOUS
      <3> HIDE DEF a
      <3>3. WrapsTo(a, A, P, b % S, 0)
        BY <1>1, <2>7, <3>1, <3>2, WrapDiv
      <3>4. a \div P = b % S
        BY <3>3 DEF WrapsTo
      <3> QED
        BY <2>6, <3>4 DEF a, b
    <2> DEFINE v == -w
    <2>9. c - q = v * S + N /\ v \in Int
      <3>1. v * S = -(w * S) /\ v \in Int
        BY <2>0, <1>1
      <3> HIDE DEF v
      <3> QED
        BY <1>3, <1>6, <2>0, <3>1
    <2> HIDE DEF v
    <2>10. (v * S + N) % S = N
      <3>1. N \in 0 .. S - 1
        BY <1>6
      <3> QED
        BY <1>1, <2>9, <3>1, DivMod
    <2> QED
      BY <2>8, <2>9, <2>10
  <1>8. ASSUME NEW i \in Int PROVE Wrapped(va + i * P) \div P = (q + i) % S
    <2>1. (q + i) * P + r = va + i * P
      <3>1. (q + i) * P = q * P + i * P /\ i * P \in Int
        BY <1>1, <1>3
      <3> QED
        BY <1>3, <3>1
    <2>2. q + i \in Int
      BY <1>3
    <2>3. Wrapped(va + i * P) = ((q + i) * P + r) % A
      BY <2>1 DEF Wrapped, A
    <2>4. WrapsTo(Wrapped(va + i * P), A, P, (q + i) % S, r)
      BY <1>1, <1>3, <2>2, <2>3, WrapDiv
    <2> QED
      BY <2>4 DEF WrapsTo
  <1>9. ASSUME NEW j \in Int, NEW y \in Int, NEW g \in 0 .. P - 1, r + j = y * P + g
        PROVE  Wrapped(va + j) \div P = (q + y) % S
    <2>1. (q + y) * P + g = va + j
      <3>1. (q + y) * P = q * P + y * P /\ y * P \in Int
        BY <1>1, <1>3
      <3> QED
        BY <1>3, <1>9, <3>1
    <2>2. q + y \in Int
      BY <1>3
    <2>3. Wrapped(va + j) = ((q + y) * P + g) % A
      BY <2>1 DEF Wrapped, A
    <2>4. WrapsTo(Wrapped(va + j), A, P, (q + y) % S, g)
      BY <1>1, <2>2, <2>3, WrapDiv
    <2> QED
      BY <2>4 DEF WrapsTo
  <1>10. ASSUME NEW i \in 0 .. N - 1
         PROVE  \E j \in 0 .. len - 1 : Wrapped(va + i * P) \div P = Wrapped(va + j) \div P
    <2>0. i \in Int /\ Wrapped(va + i * P) \div P = (q + i) % S
      BY <1>8
    <2>1. CASE i = 0
      <3>1. 0 \in Int /\ r + 0 = 0 * P + r /\ 0 \in 0 .. len - 1
        BY <1>1, <1>2, <1>3
      <3>2. Wrapped(va + 0) \div P = (q + 0) % S
        BY <1>3, <1>9, <3>1
      <3>3. Wrapped(va + i * P) \div P = Wrapped(va + 0) \div P
        BY <2>0, <2>1, <3>2
      <3> QED
        BY <3>1, <3>3
    <2>2. CASE i # 0
      <3> DEFINE j == i * P - r
      <3>1. i \in 1 .. l
        BY <1>5, <1>a, <2>2
      <3>2. i * P \in Int /\ i * P >= 1 * P /\ i * P <= l * P
        BY <1>1, <1>5, <3>1
      <3>3. j \in 0 .. len - 1 /\ r + j = i * P + 0 /\ 0 \in 0 .. P - 1
        BY <1>1, <1>2, <1>3, <1>5, <1>a, <3>2
      <3> HIDE DEF j
      <3>4. Wrapped(va + j) \div P = (q + i) % S
        BY <1>9, <2>0, <3>3
      <3> QED
        BY <2>0, <3>3, <3>4
    <2> QED
      BY <2>1, <2>2
  <1>11. ASSUME NEW j \in 0 .. len - 1
         PROVE  \E i \in 0 .. N - 1 : Wrapped(va + i * P) \div P = Wrapped(va + j) \div P
    <2> DEFINE y == (r + j) \div P
               g == (r + j) % P
    <2>1. y \in Nat /\ g \in 0 .. P - 1 /\ r + j = y * P + g /\ y * P \in Nat
      BY <1>1, <1>2, <1>3
    <2> HIDE DEF y, g
    <2>2. y <= l
      <3> SUFFICES ASSUME y >= l + 1 PROVE FALSE
        BY <1>5, <2>1
      <3>1. y * P >= (l + 1) * P /\ (l + 1) * P = l * P + P
        BY <1>1, <1>5, <2>1
      <3> QED
        BY <1>1, <1>2, <1>3, <1>5, <1>a, <2>1, <3>1
    <2>3. y \in 0 .. N - 1 /\ y \in Int /\ j \in Int
      BY <1>5, <1>a, <2>1, <2>2
    <2>4. Wrapped(va + y * P) \div P = (q + y) % S
      BY <1>8, <2>3
    <2>5. Wrapped(va + j) \div P = (q + y) % S
      BY <1>9, <2>1, <2>3
    <2> QED
      BY <2>3, <2>4, <2>5
  <1> QED
    BY <1>6, <1>7, <1>10, <1>11 DEF Checked, P

(* Of a page, the test for ULIM and the permissions of its entry tell what *)
(* the processor finds in both entries.                                    *)
LEMMA PageAgrees ==
    ASSUME NEW m, NEW D, NEW W, Spaces(m, D, W), NEW d \in D, NEW va \in VA,
           NEW pte, pte = pgdir_walk(m, d, va, FALSE).pte
    PROVE  ~(va[1] > UVPTSlot \/ pte = NULL \/ ~({"U"} \subseteq PermOf(Deref(m, pte))))
             <=> "U" \in PermOf(m.pt[d][va[1]]) /\ "U" \in PermOf(Translate(m, d, va))
  <1> DEFINE s == va[1]
             i == va[2]
             pde == m.pt[d][s]
             e == Translate(m, d, va)
  <1>1. s \in Slot /\ i \in Slot /\ d \in Page /\ MemType(m)
    BY SpaceFacts DEF VA
  <1>2. CASE pde = NULL
    <2>1. pte = NULL
      BY <1>2 DEF pgdir_walk
    <2> QED
      BY <1>2, <2>1 DEF PermOf
  <1>3. CASE pde # NULL
    <2>1. pte = <<pde.ppn, i>> /\ e = m.pt[pde.ppn][i]
      BY <1>3 DEF pgdir_walk, PtePtr, Translate
    <2>2. pde \in [ppn : Page, perm : Perm]
      BY <1>1, <1>3 DEF MemType, Entry
    <2>3. pde.ppn \in Page
      BY <2>2
    <2> HIDE DEF e
    <2>4. pte # NULL
      <3>1. <<pde.ppn, i>> \in Page \X Slot
        BY <1>1, <2>3
      <3> QED
        BY <2>1, <3>1, NullEntryAssumption
    <2>5. Deref(m, pte) = e
      <3> DEFINE x == pde.ppn
      <3>1. pte = <<x, i>> /\ e = m.pt[x][i]
        BY <2>1
      <3> HIDE DEF x, i
      <3>2. Deref(m, <<x, i>>) = m.pt[x][i]
        BY DEF Deref
      <3> QED
        BY <3>1, <3>2
    <2>6. PermOf(pde) = pde.perm
      BY <1>3 DEF PermOf
    <2>7. CASE s \in UserSlot
      <3>1. "U" \in pde.perm
        BY <1>3, <2>7 DEF Spaces, UserPdes
      <3>2. ~(s > UVPTSlot)
        BY <2>7, SlotAssumption DEF UserSlot
      <3> QED
        BY <2>4, <2>5, <2>6, <3>1, <3>2 DEF e
    <2>8. CASE s = UVPTSlot
      <3>1. pde = [ppn |-> d, perm |-> {"U"}]
        <4>1. UVPTSlot \in Slot \ UserSlot
          BY SlotAssumption DEF Slot, UserSlot
        <4> QED
          BY <2>8, <4>1 DEF Spaces, KernCopy
      <3>2. "U" \in pde.perm
        BY <3>1
      <3>3. ~(s > UVPTSlot)
        BY <2>8, SlotAssumption
      <3> QED
        BY <2>4, <2>5, <2>6, <3>2, <3>3 DEF e
    <2>9. CASE s \notin UserSlot /\ s # UVPTSlot
      <3>1. "U" \notin PermOf(e)
        <4>1. CASE e = NULL
          BY <4>1 DEF PermOf
        <4>2. CASE e # NULL
          <5>1. "U" \notin e.perm
            BY <1>3, <2>9, <4>2, KernelPage DEF e
          <5> QED
            BY <4>2, <5>1 DEF PermOf
        <4> QED
          BY <4>1, <4>2
      <3> QED
        BY <2>5, <3>1 DEF e
    <2> QED
      BY <2>7, <2>8, <2>9
  <1> QED
    BY <1>2, <1>3

(* So the answer for a range is that of the processor for its bytes. *)
LEMMA RangeAgrees ==
    ASSUME NEW m, NEW D, NEW W, Spaces(m, D, W), NEW d \in D,
           NEW va \in Address, NEW len \in Address \ {0}, Countable(va, len)
    PROVE  user_mem_check(m, d, va, len, {"U"}).r = 0 <=> Unreadable(m, d, va, len) = {}
  <1> DEFINE n == Wrapped(ROUNDUP(Wrapped(va + len)) - ROUNDDOWN(va)) \div PGSIZE
             page(i) == Wrapped(va + i * PGSIZE)
             pte(i) == pgdir_walk(m, d, PageOf(page(i)), FALSE).pte
             refused(i) == \/ page(i) >= ULIM
                           \/ pte(i) = NULL
                           \/ ~({"U"} \subseteq PermOf(Deref(m, pte(i))))
             bad == {i \in 0 .. n - 1 : refused(i)}
             byte(j) == Wrapped(va + j)
             U(c) == "U" \in PermOf(m.pt[d][PageNo(c)[1]]) /\ "U" \in PermOf(Translate(m, d, PageNo(c)))
  <1>1. user_mem_check(m, d, va, len, {"U"}).r = 0 <=> bad = {}
    <2>1. user_mem_check(m, d, va, len, {"U"})
            = IF bad = {} THEN [r |-> 0, addr |-> NULL] ELSE [r |-> -E_FAULT, addr |-> page(Min(bad))]
      BY DEF user_mem_check
    <2> HIDE DEF bad, page
    <2>2. CASE bad = {}
      BY <2>1, <2>2
    <2>3. CASE bad # {}
      <3>1. user_mem_check(m, d, va, len, {"U"}).r = -E_FAULT
        BY <2>1, <2>3
      <3> QED
        BY <2>3, <3>1 DEF E_FAULT
    <2> QED
      BY <2>2, <2>3
  <1>2. Checked(va, len, n)
    BY CheckedPages
  <1>3. /\ PGSIZE \in Nat \ {0} /\ AddressSpaceSize \in Nat \ {0} /\ va \in Int /\ len \in Int
        /\ \A b \in Int : Wrapped(b) \in Address
    <2>1. NSlots \in Nat \ {0} /\ PGSIZE \in Nat \ {0}
      BY SlotAssumption, PageSizeAssumption
    <2>2. NSlots * NSlots \in Nat \ {0}
      BY <2>1
    <2>3. (NSlots * NSlots) * PGSIZE \in Nat \ {0}
      <3> DEFINE S == NSlots * NSlots
      <3>1. S \in Nat \ {0}
        BY <2>2
      <3> HIDE DEF S
      <3>2. S * PGSIZE \in Nat \ {0}
        BY <2>1, <3>1
      <3> QED
        BY <3>2 DEF S
    <2>4. AddressSpaceSize \in Nat \ {0}
      BY <2>3 DEF AddressSpaceSize
    <2>5. va \in Int /\ len \in Int
      BY <2>4 DEF Address
    <2>6. \A b \in Int : Wrapped(b) \in Address
      BY <2>4 DEF Wrapped, Address
    <2> QED
      BY <2>1, <2>4, <2>5, <2>6
  <1> HIDE DEF n
  <1>4. ASSUME NEW i \in 0 .. n - 1 PROVE ~refused(i) <=> U(page(i) \div PGSIZE)
    <2> DEFINE a == page(i)
               c == a \div PGSIZE
    <2>1. n \in Nat
      BY <1>2 DEF Checked
    <2>2. a \in Address
      BY <1>3, <2>1
    <2> HIDE DEF a
    <2>3. InPage(a, c)
      BY <2>2, AddressPage
    <2> HIDE DEF c
    <2>4. PageOf(a) = PageNo(c) /\ PageNo(c) \in VA /\ (a >= ULIM <=> PageNo(c)[1] > UVPTSlot)
      BY <2>3 DEF InPage
    <2>5. pte(i) = pgdir_walk(m, d, PageNo(c), FALSE).pte
      BY <2>4 DEF a
    <2> DEFINE p == pte(i)
    <2>p. p = pgdir_walk(m, d, PageNo(c), FALSE).pte
      BY <2>5
    <2> HIDE DEF p
    <2>6. ~(PageNo(c)[1] > UVPTSlot \/ p = NULL \/ ~({"U"} \subseteq PermOf(Deref(m, p)))) <=> U(c)
      <3> DEFINE v == PageNo(c)
      <3>1. v \in VA /\ p = pgdir_walk(m, d, v, FALSE).pte
        BY <2>4, <2>p
      <3>2. U(c) <=> "U" \in PermOf(m.pt[d][v[1]]) /\ "U" \in PermOf(Translate(m, d, v))
        BY DEF U
      <3> HIDE DEF v, U
      <3>3. ~(v[1] > UVPTSlot \/ p = NULL \/ ~({"U"} \subseteq PermOf(Deref(m, p))))
              <=> "U" \in PermOf(m.pt[d][v[1]]) /\ "U" \in PermOf(Translate(m, d, v))
        BY <3>1, PageAgrees, ZenonT(30)
      <3> QED
        BY <3>2, <3>3 DEF v
    <2>7. refused(i) <=> a >= ULIM \/ p = NULL \/ ~({"U"} \subseteq PermOf(Deref(m, p)))
      BY DEF a, p
    <2> HIDE DEF U, refused
    <2>8. ~refused(i) <=> U(c)
      BY <2>4, <2>6, <2>7
    <2> QED
      BY <2>8 DEF c, a
  <1>5. ASSUME NEW j \in 0 .. len - 1 PROVE UserReadable(m, d, byte(j)) <=> U(byte(j) \div PGSIZE)
    <2>1. byte(j) \in Address
      BY <1>3
    <2>2. InPage(byte(j), byte(j) \div PGSIZE)
      BY <2>1, AddressPage
    <2>3. PageOf(byte(j)) = PageNo(byte(j) \div PGSIZE)
      BY <2>2 DEF InPage
    <2> HIDE DEF byte
    <2> QED
      BY <2>3 DEF UserReadable
  <1>6. /\ \A i \in 0 .. n - 1 : \E j \in 0 .. len - 1 : page(i) \div PGSIZE = byte(j) \div PGSIZE
        /\ \A j \in 0 .. len - 1 : \E i \in 0 .. n - 1 : page(i) \div PGSIZE = byte(j) \div PGSIZE
    BY <1>2 DEF Checked
  <1>7. Unreadable(m, d, va, len) = {j \in 0 .. len - 1 : ~UserReadable(m, d, byte(j))}
    BY DEF Unreadable
  <1> HIDE DEF refused, page, byte, U
  <1>8. bad = {} <=> \A i \in 0 .. n - 1 : ~refused(i)
    OBVIOUS
  <1> HIDE DEF bad
  <1>9. Unreadable(m, d, va, len) = {} <=> \A j \in 0 .. len - 1 : UserReadable(m, d, byte(j))
    BY <1>7
  <1>10. (\A i \in 0 .. n - 1 : ~refused(i)) <=> \A j \in 0 .. len - 1 : UserReadable(m, d, byte(j))
    BY <1>4, <1>5, <1>6
  <1> QED
    BY <1>1, <1>8, <1>9, <1>10

-----------------------------------------------------------------------------
(* Whatever instruction traps, trap() finds a whole Trapframe and the      *)
(* program goes on with what it ran with: exactly one error code is pushed *)
(* for every vector, by the processor or by the entry point.               *)
THEOREM KernelTrapframe == Spec => []TrapframeExact
  <1>1. KernelInv => TrapframeExact
    BY DEF KernelInv, FrameInv, ErrorCode, TrapframeExact
  <1> QED
    BY <1>1, KernelInvariant, PTL

(* A trap comes back to the one environment that made it, running, on its  *)
(* own page tables.                                                        *)
THEOREM KernelResumes == Spec => []ResumeSound
  <1>1. KernelInv => ResumeSound
    <2> SUFFICES ASSUME KernelInv, mode = "user"
                 PROVE  /\ k.curenv = 0 /\ k.envs[0].env_status = "ENV_RUNNING"
                        /\ k.cr3 = k.envs[0].env_pgdir /\ ~Stopped(k)
      BY DEF ResumeSound
    <2>1. /\ EnvTable(k) /\ EnvSpace(k, hog) /\ ~Stopped(k) /\ k.curenv = 0
      BY DEF KernelInv, MemoryInv, Where, Runs, Sound
    <2>2. k.envs[0].env_status = "ENV_RUNNING"
      BY <2>1, FirstEnv DEF EnvTable
    <2>3. k.cr3 = k.envs[0].env_pgdir
      BY <2>1, FirstEnv DEF EnvSpace, InForce
    <2> QED
      BY <2>1, <2>2, <2>3
  <1> QED
    BY <1>1, KernelInvariant, PTL

(* user_mem_check() accepts a range of at least a byte whose pages leave   *)
(* one of the address space out exactly if the program could read all of   *)
(* it itself: the pages it looks at are those of the bytes, also when the  *)
(* sums wrap around, and the entry it tests tells what both entries allow. *)
THEOREM KernelChecks == Spec => []UserMemCheckExact
  <1>1. KernelInv => UserMemCheckExact
    <2> SUFFICES ASSUME KernelInv, mode = "user",
                        NEW va \in Address, NEW len \in Address \ {0}, Countable(va, len)
                 PROVE  user_mem_check(k, k.envs[k.curenv].env_pgdir, va, len, {"U"}).r = 0
                          <=> Unreadable(k, k.envs[k.curenv].env_pgdir, va, len) = {}
      BY DEF UserMemCheckExact
    <2> DEFINE d == k.envs[k.curenv].env_pgdir
    <2>1. EnvSpace(k, hog) /\ k.curenv = 0 /\ Live(k) = {0}
      BY DEF KernelInv, MemoryInv, Where, Runs, Sound
    <2>2. Spaces(k, Directories(k), hog) /\ d \in Directories(k)
      BY <2>1 DEF EnvSpace, Directories
    <2> HIDE DEF d
    <2>3. user_mem_check(k, d, va, len, {"U"}).r = 0 <=> Unreadable(k, d, va, len) = {}
      BY <2>2, RangeAgrees
    <2> QED
      BY <2>3 DEF d
  <1> QED
    BY <1>1, KernelInvariant, PTL

(* Once an environment runs the assertions of trap() hold, interrupts are  *)
(* off whatever gate it comes through, and the processor is lost only      *)
(* after the environment is gone.                                          *)
THEOREM KernelKeepsControl == Spec => []KernelSurvives
  <1>1. KernelInv => KernelSurvives
    <2> SUFFICES ASSUME KernelInv, k.curenv # NULL
                 PROVE  /\ ~k.panicked /\ (mode = "lost" => Live(k) = {})
                        /\ mode = "user" => \A v \in Raised : ~InterruptsOn(v, cpu)
      BY DEF KernelSurvives
    <2>1. Where(mode, k, hog) /\ cpu = env_pop_tf(Start)
      BY DEF KernelInv, MemoryInv, FrameInv
    <2>2. Runs(k, hog) \/ Gone(k, hog)
      BY <2>1 DEF Where, Starting
    <2>3. ~k.panicked
      BY <2>2, SpaceFacts DEF Runs, Sound, Stopped, Gone
    <2>4. mode = "lost" => Live(k) = {}
      BY <2>1 DEF Where, Gone
    <2>5. \A v \in Raised : ~InterruptsOn(v, cpu)
      BY <2>1 DEF InterruptsOn, FL_IF, env_pop_tf, Start
    <2> QED
      BY <2>3, <2>4, <2>5
  <1> QED
    BY <1>1, KernelInvariant, PTL

(* env_destroy() leaves nothing of the environment: the processor is on    *)
(* the kernel's page tables, no id is good, and all pages but those of     *)
(* others are on the free list.                                            *)
THEOREM KernelDestroys == Spec => []DestroyedCleanly
  <1>1. KernelInv => DestroyedCleanly
    <2> SUFFICES ASSUME KernelInv, mode = "monitor", ~k.panicked, Live(k) = {}
                 PROVE  /\ k.cr3 = kern_pgdir
                        /\ \A id \in 1 .. IdMax : envid2env(k, id, FALSE).r = -E_BAD_ENV
                        /\ FreeListWalks(k, Page \ (hog \cup ReservedPages \cup KernTables(k)))
      BY DEF DestroyedCleanly
    <2> DEFINE F == Page \ (hog \cup ReservedPages \cup KernTables(k))
    <2>1. Gone(k, hog)
      BY DEF KernelInv, MemoryInv, Where, Runs
    <2>2. Spaces(k, {}, hog) /\ k.cr3 = kern_pgdir
      BY <2>1 DEF Gone
    <2>3. ASSUME NEW id \in 1 .. IdMax PROVE envid2env(k, id, FALSE).r = -E_BAD_ENV
      <3>1. ENVX(id) \in EnvIdx /\ id # 0
        BY Generation, EnvAssumption
      <3>2. k.envs[ENVX(id)].env_status = "ENV_FREE"
        BY <3>1 DEF Live
      <3> QED
        BY <3>1, <3>2 DEF envid2env
    <2>4. Dirs({}) = {kern_pgdir} /\ hog \cup {} = hog
      BY DEF Dirs
    <2>5. \A p : Refs(k, Dirs({}), p) = {}
      <3>1. \A s \in UserSlot : k.pt[kern_pgdir][s] = NULL
        BY <2>2, SpaceFacts
      <3>2. \A q : ~IsTable(k, Dirs({}), q)
        BY <2>4, <3>1 DEF IsTable, Names
      <3> QED
        BY <2>4, <3>1, <3>2 DEF Refs, Names
    <2>6. F = Unused(k, Dirs({}), hog \cup {})
      BY <2>4, <2>5 DEF Unused, Kept
    <2>7. SomeFreeList(k, F) /\ F \in SUBSET Page
      BY <2>2, <2>6 DEF Spaces, MemInv, ListOK
    <2> HIDE DEF F
    <2>8. FreeListWalks(k, F)
      BY <2>7, ListWalks
    <2> QED
      BY <2>2, <2>3, <2>8 DEF F
  <1> QED
    BY <1>1, KernelInvariant, PTL

=============================================================================
