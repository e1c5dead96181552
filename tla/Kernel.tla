------------------------------- MODULE Kernel -------------------------------
(***************************************************************************)
(* The kernel of project3 from i386_init() on: it creates one environment, *)
(* runs it, and handles its traps and system calls (kern/init.c, trap.c,   *)
(* syscall.c).  Interrupts are off in the kernel, so a trap is one step,   *)
(* except that a page fault of the kernel itself is a trap of its own.     *)
(*                                                                         *)
(* mode tells where the processor is:                                      *)
(*   boot     in i386_init(), before ENV_CREATE                            *)
(*   created  in i386_init(), before env_run()                             *)
(*   user     in the environment                                           *)
(*   fault    in trap() for a page fault of the kernel                     *)
(*   monitor  in monitor(), from which nothing returns: no command of the  *)
(*            monitor returns a negative value, and env_destroy() and      *)
(*            _panic() call it for ever                                    *)
(*   lost     in nested page faults until the kernel stack overflows       *)
(***************************************************************************)
EXTENDS EnvOps, UserMem, Traps

CONSTANTS
    Binaries,   \* programs, each the sequence of its segments' pages; they
                \* are linked at UTEXT and leave page 0 unmapped
    Chars,      \* characters typed at the console
    HogMax      \* bound: pages other kernel code holds

ASSUME HarnessAssumption ==
    /\ Binaries \subseteq Seq(Seq((UserSlot \X Slot) \ {<<0, 0>>}))
    /\ HogMax \in Nat
    /\ Chars \subseteq Nat \ {0}

VARIABLES
    k,          \* the kernel's state, the record of EnvOps
    hog,        \* pages other kernel code holds
    mode,       \* where the processor is
    eax,        \* what the last system call returned to the environment
    vector,     \* the environment's last trap, NULL before the first
    env_tf,     \* envs[0].env_tf, but for eax
    cpu         \* the environment's registers while it runs

traps == <<vector, env_tf, cpu>>
vars  == <<k, hog, mode, eax, traps>>

E_INVAL == 3

(* What env_alloc() and load_icode() have the environment start with: two  *)
(* numbers stand for the entry point and USTACKTOP.                        *)
Start ==
    [tf_trapno |-> 0, tf_err |-> 0, tf_eip |-> 32, tf_cs |-> UserCS,
     tf_eflags |-> 0, tf_esp |-> 64, tf_ss |-> UserDS]

Init ==
    \E n \in 0 .. HogMax :
        /\ k = env_init(Booted(n).m)
        /\ hog = Booted(n).pages
        /\ mode = "boot"
        /\ eax = 0
        /\ vector = NULL
        /\ env_tf = Start
        /\ cpu = env_pop_tf(Start)

(* ENV_CREATE in i386_init(). *)
EnvCreate(binary) ==
    /\ mode = "boot"
    /\ k' = env_create(k, binary)
    /\ mode' = IF k'.panicked THEN "monitor" ELSE IF k'.faulted THEN "fault" ELSE "created"
    /\ UNCHANGED <<hog, eax, traps>>

(* env_run(&envs[0]) *)
RunFirst ==
    /\ mode = "created"
    /\ k' = env_run(k, 0)
    /\ mode' = "user"
    /\ cpu' = env_pop_tf(env_tf)
    /\ UNCHANGED <<hog, eax, vector, env_tf>>

-----------------------------------------------------------------------------
(* How a handler leaves the kernel's state s, and where the processor goes *)
(* then: trap() checks that curenv runs and returns to it, env_destroy()   *)
(* does not return, and a page that is not mapped faults.                  *)
ReturnToUser(s) ==
    LET ok == s.curenv # NULL /\ s.envs[s.curenv].env_status = "ENV_RUNNING"
    IN  /\ k' = IF ok THEN env_run(s, s.curenv) ELSE [s EXCEPT !.panicked = TRUE]
        /\ mode' = IF ok THEN "user" ELSE "monitor"
        /\ cpu' = IF ok THEN env_pop_tf(env_tf') ELSE cpu

(* A faulty env_destroy() that returns to its caller. *)
EnvDestroy_Returns(e) == ReturnToUser(env_free(k, e))

(* env_destroy(): curenv keeps naming the environment, so a fault of the   *)
(* kernel later on destroys it again, and env_free() then reads the page   *)
(* directory through a null pointer.                                       *)
EnvDestroy(e) ==
    LET freed == k.envs[e].env_pgdir = NULL
    IN  /\ k' = IF freed THEN k ELSE env_free(k, e)
        /\ mode' = IF freed THEN "lost" ELSE "monitor"
        /\ cpu' = cpu

(* The processor can read the bytes as the kernel. *)
Backed(bytes) == \A a \in bytes : Translate(k, k.cr3, PageOf(a)) # NULL

(* trap() for vector v of a running environment, up to trap_dispatch(). *)
Trapped(v) ==
    LET tf == Trapframe(Pushed(v, cpu))
    IN  /\ mode = "user"
        /\ vector' = v
        /\ env_tf' = IF tf.tf_cs % 4 = 3 THEN tf ELSE env_tf

(* page_fault_handler() with the code selector cs in the trap frame.  For  *)
(* a fault of the user it destroys the environment.  The test for a fault  *)
(* of the kernel compares the whole selector, and with no environment      *)
(* running the handler's message itself reads through a null pointer.      *)
page_fault_handler(cs) ==
    IF cs = 3
    THEN k' = [k EXCEPT !.panicked = TRUE] /\ mode' = "monitor" /\ cpu' = cpu
    ELSE IF k.curenv = NULL
    THEN mode' = "lost" /\ UNCHANGED <<k, cpu>>
    ELSE EnvDestroy(k.curenv)

(* The vectors a program can bring about, by an exception or by int. *)
Raised == Exceptions \cup {SoftwareInt(n) : n \in 0 .. 255}

UserPageFault ==
    /\ Trapped(T_PGFLT)
    /\ page_fault_handler(env_tf'.tf_cs)
    /\ UNCHANGED <<hog, eax>>

(* Nothing is pushed for the stack, and env_tf stays as it is. *)
KernelPageFault ==
    /\ mode = "fault"
    /\ page_fault_handler(GD_KT)
    /\ UNCHANGED <<hog, eax, vector, env_tf>>

(* mon_backtrace(), called from the monitor.  The kernel's frames end in   *)
(* i386_init(), where %ebp was cleared, unless a trap of the environment   *)
(* is below them: _alltraps leaves %ebp alone, so the next frame is at any *)
(* address ebp that the program had there, or its last one when it is 0.   *)
(* Both ends of a frame are read, through the page tables in force.        *)
Backtrace ==
    /\ mode = "monitor" /\ vector # NULL
    /\ \E ebp \in Address :
          mode' = IF ebp = 0 \/ Backed({ebp, Wrapped(ebp + 1)}) THEN "monitor" ELSE "fault"
    /\ UNCHANGED <<k, hog, eax, traps>>

(* int3: trap_dispatch() enters the monitor. *)
Breakpoint ==
    /\ Trapped(T_BRKPT)
    /\ mode' = "monitor"
    /\ UNCHANGED <<k, hog, eax, cpu>>

(* Every other exception of the environment ends it. *)
OtherTrap ==
    /\ \E v \in Raised \ {T_PGFLT, T_BRKPT, T_SYSCALL} : Trapped(v)
    /\ IF env_tf'.tf_cs = GD_KT
       THEN k' = [k EXCEPT !.panicked = TRUE] /\ mode' = "monitor" /\ cpu' = cpu
       ELSE EnvDestroy(k.curenv)
    /\ UNCHANGED <<hog, eax>>

-----------------------------------------------------------------------------
(* The characters cprintf("%.*s", len, s) may print before it meets a NUL: *)
(* len is a signed precision there, and a negative one is no limit.        *)
Printed(len) == IF len < AddressSpaceSize \div 2 THEN 0 .. len ELSE Address

(* The bytes it reads when it prints n: also the one that ends the loop,   *)
(* which is past the range when there is no NUL in it.  A null s prints    *)
(* "(null)".                                                               *)
BytesRead(s, n) == IF s = 0 THEN {} ELSE {Wrapped(s + i) : i \in 0 .. n}

(* sys_cputs(): check the range, then print the characters of it that      *)
(* precede a NUL, read through the page tables in force.                   *)
SysCputs(s, len) ==
    /\ Trapped(T_SYSCALL)
    /\ IF user_mem_check(k, k.envs[k.curenv].env_pgdir, s, len, {"U"}).r < 0
       THEN EnvDestroy(k.curenv) /\ eax' = eax
       ELSE \E n \in Printed(len) :
               IF Backed(BytesRead(s, n))
               THEN ReturnToUser(k) /\ eax' = 0
               ELSE mode' = "fault" /\ UNCHANGED <<k, eax, cpu>>
    /\ UNCHANGED hog

(* sys_cgetc(): a character that was typed, or 0. *)
SysCgetc ==
    /\ Trapped(T_SYSCALL)
    /\ ReturnToUser(k)
    /\ eax' \in Chars \cup {0}
    /\ UNCHANGED hog

SysGetenvid ==
    /\ Trapped(T_SYSCALL)
    /\ ReturnToUser(k)
    /\ eax' = CurenvId(k)
    /\ UNCHANGED hog

SysEnvDestroy(envid) ==
    LET found == envid2env(k, envid, TRUE)
    IN  /\ Trapped(T_SYSCALL)
        /\ IF found.r < 0
           THEN ReturnToUser(k) /\ eax' = found.r
           ELSE EnvDestroy(found.e) /\ eax' = eax
        /\ UNCHANGED hog

(* NSYSCALLS, and every number past it. *)
SysUnknown ==
    /\ Trapped(T_SYSCALL)
    /\ ReturnToUser(k)
    /\ eax' \in {-1, -E_INVAL}
    /\ UNCHANGED hog

-----------------------------------------------------------------------------
(* The kernel has nothing left to do. *)
Halted ==
    /\ mode \in {"monitor", "lost"}
    /\ UNCHANGED vars

Next ==
    \/ \E binary \in Binaries : EnvCreate(binary)
    \/ RunFirst
    \/ UserPageFault \/ KernelPageFault \/ Breakpoint \/ OtherTrap \/ Backtrace
    \/ \E s \in Address, len \in Address : SysCputs(s, len)
    \/ SysCgetc
    \/ SysGetenvid
    \/ \E envid \in 0 .. IdMax : SysEnvDestroy(envid)
    \/ SysUnknown
    \/ Halted

Spec == Init /\ [][Next]_vars

-----------------------------------------------------------------------------
(* The environment runs on its own page tables as the one environment that *)
(* is running; a system call came back to the environment that made it.    *)
ResumeSound ==
    mode = "user" =>
        /\ k.curenv = 0
        /\ k.envs[0].env_status = "ENV_RUNNING"
        /\ k.cr3 = k.envs[0].env_pgdir
        /\ ~Stopped(k)

(* user_mem_check() agrees with what the processor enforces, for ranges of *)
(* at least a byte whose pages it can count: it accepts such a range,      *)
(* wherever it starts and also when it runs past the top of the address    *)
(* space, exactly if the program could read all of it itself.  For what it *)
(* answers for the others see RangesChecked.                               *)
UserMemCheckExact ==
    mode = "user" =>
        \A va \in Address, len \in Address \ {0} :
            LET pgdir == k.envs[k.curenv].env_pgdir
            IN  Countable(va, len) =>
                    (user_mem_check(k, pgdir, va, len, {"U"}).r = 0
                       <=> Unreadable(k, pgdir, va, len) = {})

(* Once an environment runs, nothing it does makes the kernel panic or     *)
(* loses the processor: the assertions of trap() hold when it starts, where *)
(* interrupts must be off although most gates leave them as they were, and *)
(* after every handler that returns; and where the kernel faults an        *)
(* environment runs that can be destroyed for it, unless it is gone and    *)
(* the monitor makes a backtrace.                                          *)
KernelSurvives ==
    k.curenv # NULL =>
        /\ ~k.panicked /\ (mode = "lost" => Live(k) = {})
        /\ mode = "user" => \A v \in Raised : ~InterruptsOn(v, cpu)

(* Whatever instruction traps, trap() finds a whole Trapframe: the number  *)
(* it dispatches on is the vector that was raised, also for int with a     *)
(* number that is not for programs; the error code is the processor's or   *)
(* 0; and what it saves is what the program ran with, which a system call  *)
(* gives back.                                                             *)
TrapframeExact ==
    /\ env_pop_tf(env_tf) = env_pop_tf(Start) /\ cpu = env_pop_tf(Start)
    /\ vector # NULL =>
          /\ env_tf.tf_trapno = vector
          /\ env_tf.tf_err = IF vector \in PushesCode THEN Code ELSE 0

(* An environment that was destroyed is gone when the monitor takes over:  *)
(* the processor is off its page tables, its id names nothing, and all its *)
(* memory is free.                                                         *)
DestroyedCleanly ==
    (mode = "monitor" /\ ~k.panicked /\ Live(k) = {}) =>
        /\ k.cr3 = kern_pgdir
        /\ \A id \in 1 .. IdMax : envid2env(k, id, FALSE).r = -E_BAD_ENV
        /\ FreeListWalks(k, Page \ (hog \cup ReservedPages \cup KernTables(k)))

(* A page fault of the kernel panics: past its test page_fault_handler()   *)
(* says "We've already handled kernel-mode exceptions, so if we get here,  *)
(* the page fault happened in user mode".                                  *)
KernelFaultPanics == [][KernelPageFault => k'.panicked]_vars

(* user_mem_check() "Returns 0 if the user program can access this range   *)
(* of addresses, and -E_FAULT otherwise": it does so for every length.     *)
RangesChecked ==
    mode = "user" =>
        \A va \in Address, len \in Address \ {0} :
            LET pgdir == k.envs[k.curenv].env_pgdir
            IN  user_mem_check(k, pgdir, va, len, {"U"}).r = 0
                  => Unreadable(k, pgdir, va, len) = {}

(* sys_cputs() checks the memory it reads, "[s, s+len)" in its comments:   *)
(* it does not fault on a range that the program can read all of.          *)
CputsReadsChecked ==
    [][\A s \in Address, len \in Address :
           /\ SysCputs(s, len)
           /\ Unreadable(k, k.envs[k.curenv].env_pgdir, s, len) = {}
           => mode' # "fault"]_vars

(* A backtrace stops where the kernel's frames do: entry.S clears %ebp "so *)
(* that once we get into debugging C code, stack backtraces will be        *)
(* terminated properly".                                                   *)
BacktraceTerminates == [][Backtrace => mode' # "fault"]_vars
=============================================================================
