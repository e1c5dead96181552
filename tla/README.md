# JOS, modelled and proved

A verification project for the JOS kernel of this repository: TLA+ modules of
the kernel, from the boot loader to the monitor, TLC runs that check them on
small machines, and TLAPS proofs for machines of any size.

The repository holds three snapshots of one kernel: `src/Project2` (memory),
`src/project3` (memory and user environments, one processor) and `src/lab4`
(the beginning of multiprocessor support). The modules model `project3`, the
last complete kernel, and from `lab4` what is new there and works: the spin
lock, and an `env_destroy()` from which the kernel goes on. `Project2` is an
older copy of the memory functions.

## The system

| part | state | operations | works with |
|---|---|---|---|
| boot loader, `boot/main.c`, `kern/entry.S` | memory as it fills with the kernel | `bootmain`, `readseg`, `readsect` | the disk; leaves the kernel and paging |
| boot, `kern/pmap.c` | `nextfree`, `kern_pgdir`, the tests' variables | `boot_alloc`, `mem_init`, `boot_map_region`, the self-tests | sets up the allocator and the kernel's page tables |
| physical pages, `kern/pmap.c` | `pages[]` (`pp_ref`, `pp_link`), `page_free_list` | `page_init`, `page_alloc`, `page_free`, `page_decref` | everyone who needs memory |
| page tables, `kern/pmap.c` | directories and tables, `%cr3`, the TLB | `pgdir_walk`, `page_lookup`, `page_insert`, `page_remove`, `tlb_invalidate`, `boot_map_region`, `user_mem_check` | takes pages from the allocator, counts references |
| environments, `kern/env.c` | `envs[]`, `env_free_list`, `curenv` | `env_init`, `env_alloc`, `env_setup_vm`, `region_alloc`, `load_icode`, `env_create`, `env_free`, `env_run`, `env_destroy`, `envid2env` | builds address spaces, switches `%cr3` |
| traps and system calls, `kern/trap.c`, `kern/trapentry.S`, `kern/syscall.c` | the gates, the trap frame, `curenv` | `trap_init`, the entry points, `trap`, `trap_dispatch`, `page_fault_handler`, `syscall` | return to, or destroy, the running environment |
| spin lock, `lab4/kern/spinlock.c` | `locked`, `cpu` | `spin_lock`, `spin_unlock`, `holding` | all processors |
| SMP boot and scheduling, `lab4/kern/{init,sched,trap}.c` | `cpus[]`, `cpu_status` | `boot_aps`, `mp_main`, `sched_yield`, `sched_halt` | the big kernel lock (never reached, see below) |
| console, `kern/console.c` | ring buffer, keyboard shift state, the screen | `kbd_proc_data`, `cons_intr`, `cons_getc`, `cga_putc` | `readline`, system calls |
| monitor, `kern/monitor.c`, `lib/readline.c` | the line buffer | `readline`, `runcmd`, `monitor` | the console |
| debug tables, `kern/kdebug.c` | none (stabs are read only) | `stab_binsearch`, `debuginfo_eip` | nobody at this commit |
| formatted output, `lib/printfmt.c`, `lib/printf.c`, `kern/printf.c` | a buffer per call | `vprintfmt`, `vsnprintf`, `vcprintf` | everything that prints |
| strings, `lib/string.c` | the caller's memory | `memmove`, `strncpy`, `strtol`... | everyone |

What is hard here is not concurrency at first. `project3` runs with interrupts
off on one processor, so a kernel function is never interrupted. The difficulty
is long sequences of legal calls over shared, reference-counted pages, functions
that fail half way when memory runs out, contents that survive in freed pages,
translations that survive in the TLB, and ids that survive the environments
they name. In `lab4` come processors that read each other's memory without a
lock while stores are on their way. `PROJECT.json` lists the hazards line by
line, each with the property that covers it or the reason why none does yet.

What makes each part correct:

- *boot*: the kernel in memory is the one that was linked, whatever the rounding
  to sectors wrote around it; no page is touched before it is mapped; the
  self-tests pass and leave every page and count where it was;
- *allocator*: the free list is exactly the pages nobody uses; a page is handed
  out to one user at a time; the reserved pages never are;
- *page tables*: `pp_ref` counts the references that exist; a mapping is there
  exactly if it was made and not removed; a freed page is out of the
  processor's reach; a call that fails changes nothing;
- *environments*: destroying one gives everything back; no id names another
  environment than the one it was given to; the processor is never on a freed
  directory; what one environment maps no other does;
- *traps*: `trap()` finds a whole frame whatever instruction trapped; the kernel
  returns to the environment that runs, or ends it; `user_mem_check()` accepts
  what the processor would;
- *lock*: one owner; `holding()` is right although it reads without the lock;
- *console*: what is typed comes out once and in order, and the modifiers the
  driver remembers are those that are pressed;
- *monitor*: the command that runs is the one on the screen;
- *library*: what comes out is what a definition without the code's loops,
  buffers and copies says.

## Modules

State is kept in one record, and a C function is an operator from the record to
the record (with `.r`, `.pte`... for what the function returns), so that a
function that calls another is a composition. A state machine module then makes
one action of each call into the component. One step per function is right
because interrupts are off in the kernel. A panic sets `panicked` and an access
to an unmapped kernel address sets `faulted`; nothing follows them.

| module | models | extends |
|---|---|---|
| `PageOps` | the allocator's functions, one iteration of `page_init` | |
| `PageAlloc` | boot and every order of allocating, counting, freeing | `PageOps` |
| `PhysPool` | abstract: a set of free and a set of busy pages | |
| `PmapOps` | page tables in page contents, the TLB, `mem_init` | `PageOps` |
| `Pmap` | every order of mapping and unmapping | `PmapOps` |
| `MCPmap` | run: the allocator, then page tables | `PageAlloc`, `Pmap` |
| `AddressSpace` | abstract: a function from pages to mappings | |
| `UserMem` | `user_mem_check` on byte addresses with wrap-around | `PmapOps` |
| `EnvOps` | the functions of `env.c`, ids included | `PmapOps` |
| `Env`, `MCEnv` | environments created, run and destroyed in any order | `EnvOps` |
| `Traps` | gates, entry points, the stack as a `struct Trapframe` | |
| `Kernel`, `MCKernel` | `i386_init` from `ENV_CREATE` on, traps, system calls and backtraces of one environment | `EnvOps`, `UserMem`, `Traps` |
| `BootLoader` | `bootmain`, a sector a step | |
| `PmapTests` | the self-tests of `pmap.c` as sequences of calls and assertions | |
| `Boot` | from the first sector to the end of `mem_init`, a call a step | `BootLoader`, `PmapTests`, and `PmapOps` by `INSTANCE` |
| `MCBoot` | run: the boot, then processors at the lock | `Boot`, `Spinlock` |
| `Spinlock` | the lock, one memory access a step, with store buffers | |
| `Mutex` | abstract: the set of owners | |
| `Console` | console input, one port read a step, against working devices | |
| `CharQueue` | abstract: a queue that forgets everything when it overflows | |
| `Monitor` | one line after the other: edited, echoed, cut and run | |
| `Stabs` | the search of the debugging tables | |
| `Format` | `vprintfmt` and the buffers it writes through | |
| `Strings` | `lib/string.c` on a byte-addressed memory | |
| `Library` | calls of the three above and what should come out | `Stabs`, `Format`, `Strings` |
| `MCMonitor` | run: the console, the monitor, the library | `Console`, `Monitor`, `Library` |
| `KernelLemmas` | what the operators of `PageOps`, `PmapOps` and `EnvOps` do, for any record of their kind | `EnvOps` |
| `PageAllocProofs`, `PmapProofs`, `EnvProofs`, `KernelProofs`, `SpinlockProofs`, `ConsoleProofs`, `MonitorProofs` | theorems | the components, and the lemmas |

How state corresponds to the code:

- a `struct PageInfo *` or physical page is its number; `pp_ref` wraps at
  `RefMax + 1` as a `uint16_t` does at 65536;
- `pt[p]` is what page `p` holds, read as a page table. Data pages have contents
  too: a page comes back from the free list dirty, and what a program writes
  reads as a table that maps page 0 everywhere. So a page table that is not
  zeroed, or is still reachable by a program, shows;
- a virtual page is the pair `<<PDX, PTX>>`; `pgdir_walk` returns a pair of the
  table page and the slot for a `pte_t *`;
- an `Env *` is its index; an id is computed as `env_alloc` computes it, in
  signed arithmetic that wraps;
- `Spinlock` has a program counter for each processor and a store buffer for
  `lk->cpu`; only `xchg` is atomic and waits for the buffer;
- `Console` keeps the flags of `shift` as a set and has a program counter for
  `cons_getc()`, because the devices do not stop while it polls them. Each byte
  from the keyboard carries the keys that were down when it was sent (`held`),
  which no code sees; the properties compare the driver's state with it. Where
  there is a mouse, the controller may at any time say that its data comes next
  (`terr`), and then `kbd_proc_data()` takes nothing. `unread` and `owed` are
  there for `WaitingIsAnswered`: how many of the controller's bytes were there
  when `cons_getc()` was called, and whether a character that waited then, in
  the buffer, in the serial port or among those bytes, is due;
- in `Monitor` one turn of `readline()`'s loop is a step; `shown` is the line as
  it stands on the screen when Enter is pressed.

- in `Traps` a frame is the sequence of words on the kernel's stack, pushed by
  the processor, the entry point and `_alltraps`, and read back by position;
- `Kernel`'s `mode` is `lost` in nested page faults of the kernel until its stack
  overflows. That happens before the first `env_run()`, when the handler's
  message reads `curenv`, which is `NULL`, and in a backtrace after the
  environment was destroyed, when `env_free()` reads its null `env_pgdir`;
- `mon_backtrace()` reads a frame, modelled as two bytes side by side, at any
  address the program may have left in `%ebp`;
- `Boot` runs `Script`, the calls and assertions of `mem_init()` and the tests in
  the order of the code; a `C` variable that points to a page is a field of
  `var`, and a load or store of the kernel goes by the TLB and the page tables
  in force, those of `entry.S` until `lcr3()`. `ram` is the memory in bytes as
  the loader leaves it: each holds an offset in the kernel's file, zero or junk;
- `Library` has one action for each function, which keeps input and output in
  `job` for the invariants to compare with their definition.

Some components share no state: the allocator under any callers and the page
tables, whose functions have the allocator's inside; the console's input, the
monitor, which starts where a character has arrived, and the functions of the
library; the boot of `project3` and the lock of `lab4`. `MCPmap`, `MCMonitor` and
`MCBoot` check such components in one run, in which one works while the others
stand still, so that their interleavings, which mean nothing, are not explored.
Names are chosen so that these modules can be taken together (`PoolInit`,
`ConsNext`, `LockSpec`).

Left out of the data: the general registers but `%eax`, `env_type` and
`env_runs`, `lk->name` and `lk->pcs`, text that is printed (but for `Format`),
ELF headers of programs (a program is the sequence of its segments' pages).

Some behaviours of the code that one might take for mistakes of the model: a
number's sign is not counted in its width; the kernel's `cprintf()` always
returns 0, since `putch()` has `*cnt++`; `debuginfo_eip()` takes the line from
`stabs[rline]`, where one would expect `lline`. Where the code does something
else than its comment says, there is a finding (see below).

Operators named `f_Something` are faulty variants of `f`: a check that the
properties notice the mistakes one can make there. No specification uses them.

## Runs

| run | what it shows | bounds, and why they are enough |
|---|---|---|
| `mc_boot` | `LoadedExact`, `KernelStoresMapped`, `SelfTestsPass`, `BootHandsOver`; `MutualExclusion`, `HoldingAccurate`, `SomeoneGetsIn`, implements `Mutex` | pages of 4 units, sectors of 2 and tables of 26 entries, so that 26 pages are mapped at first, as 4 MB are, on machines of 26 to 52: with and without memory behind what is mapped; images whose text, data and bss end before, on and behind a boundary of a page and of a sector, and one that is no kernel; then three processors that call either function of the lock whether they own it or not |
| `mc_pmap` | `FreeListComplete`, `NoPanic`, `ReservedUntouched`, implements `PhysPool`; `RefCountExact`, `FreeListExact`, `TlbCoherent`, `TablesPrivate`, implements `AddressSpace`; `TypeOK` of the allocator | nine pages: page 0, base memory, one between base memory and the hole, the hole, the kernel, its page directory, three above, so that there is a page on either side of each boundary of `page_init` and memory for two tables and a few pages, which runs out in `pgdir_walk`; `RefMax` 4, one more than there are virtual pages, so that no order of mappings passes it; two virtual pages in one table and one in another; two permissions; one cached translation at a time, any one |
| `mc_env` | `RefCountExact`, `NoPageLost`, `EnvListExact`, `IdsSound`, `Cr3Valid`, `AddressSpacesSeparate` | two slots of `envs[]`; ids with two generations, so that they wrap; `Machines`: one with room for two environments that both have a stack, and others with 1 to 6 pages taken beforehand, so that memory runs out at every allocation |
| `env_fault` | `region_alloc` does not notice that `page_insert` failed | as `mc_env` |
| `mc_kernel` | `ResumeSound`, `UserMemCheckExact`, `KernelSurvives`, `TrapframeExact`, `DestroyedCleanly` | every vector and every operand of `int`; an address space of 32 bytes: pages of two bytes (so there are aligned and unaligned addresses), four slots; every address and every length as arguments of `sys_cputs`; programs with pages side by side, with a hole, in two tables, and of a stack only; any amount of memory left |
| `kernel_fault` | a page fault of the kernel is taken for one of the user | as `mc_kernel` |
| `cputs` | `sys_cputs` reads a byte more than it checked | as `mc_kernel` |
| `user_mem_wrap` | `user_mem_check` accepts ranges it did not look at | as `mc_kernel` |
| `backtrace` | a backtrace in the monitor walks into the program's frames | as `mc_kernel` |
| `mc_monitor` | `ModifiersHeld`, `WaitingIsAnswered`, implements `CharQueue`; `EchoMatchesLine`, `RunsWhatIsShown`; `StabSearchExact`, `FunctionFound`, `FormatExact`, `MemmoveExact`, `StringsExact` | for the console a buffer of three places, so that it wraps and overflows, two bytes in the keyboard controller, and five users, whose keys have plain codes, codes with a prefix, and codes that differ by it only, one of them with a mouse and one with a serial line; a screen of two columns and five rows, lines of up to seven characters, so that they wrap three times and scroll; two arguments at most; for the functions some 20000 inputs: every table of five entries of which any are functions, every conversion with its flags, texts that fit a buffer exactly, by one less, and not at all, copies at every distance and alignment |
| `stab_search` | `stab_binsearch` does not bracket as its comment says | as `mc_monitor` |
| `dash_pads` | the flag `-` pads a number on the left | as `mc_monitor` |

Some properties say more than their name: `FreeListComplete` is the allocator's,
for pages that are held, and `FreeListExact` that of `Pmap`, for pages that are
mapped or hold tables, and includes that the kernel does not panic;
`EnvListExact` says also that at most one environment runs
and that it is `curenv`, `Cr3Valid` that no cached translation is left of a
directory or mapping that is gone, and `ModifiersHeld` that only Ctrl-Alt-Del
resets the machine.

Deadlock is checked in every run. A processor that calls `spin_unlock()`
without owning the lock panics and stays there, and all of them may: `MCBoot`
lets the machine stand still then. In `Env`, `Kernel` and `Boot` the stopped
kernel has a stuttering action, so every other deadlock would be reported.

*Fairness* is used in one place, `Fairness` of `Spinlock`: a processor inside
`spin_lock()` or `spin_unlock()` goes on executing (it has interrupts off and
nothing stops a processor), the owner of the lock eventually calls
`spin_unlock()` (that is the rule the callers must keep), and the stores in its
buffer reach memory (x86 does not hold them back for ever). No fairness is
assumed on a processor that does not own the lock calling `spin_lock()`. The
property is that *some* processor gets in: the lock has no queue, so a
particular one may starve. It leaves out the case in which an owner calls
`spin_lock()` again and panics with the lock.

*Above the bounds*: `RefMax` leaves out a `pp_ref` that wraps, which takes
65536 mappings of one page, and no program of this commit can map a page;
`CMOS` leaves out machines too small for the
kernel's arrays, on which `boot_alloc()` hands out memory that does not exist
before it panics, because `pages_left` starts at `npages` (`pmap.c:100`), and
machines whose pages run out in `boot_map_region()`, which stores through the
null pointer it then gets (`pmap.c:510`);
`KbdFifo` leaves out a controller that drops a keystroke because nobody polls,
after which no program can know what is pressed. The serial port does lose
characters in the model, since it keeps only one.

## Findings

- `env_fault`: `region_alloc()` compares an unsigned copy of `page_insert()`'s
  result with `< 0`.
- `kernel_fault`: `page_fault_handler()` compares `tf_cs` with 3, where it wants
  the low two bits.
- `cputs`: `vprintfmt`'s `%.*s` loop reads the next character before it tests
  the precision, so `sys_cputs()` touches `s[len]`; with a string that ends with
  its page that is a page fault of the kernel, for a range the program may read.
- `user_mem_wrap`: the number of pages in `user_mem_check()` (`pmap.c:673-674`)
  wraps. A range that touches every page of the address space has none, so the
  loop never runs and the range is accepted unseen; one that wraps around into
  the page it starts in has one. `sys_cputs()` takes any length, and with one of
  2^31 or more, which `%.*s` takes for a negative precision, it prints until a
  NUL (`Printed`).
- `backtrace`: `_alltraps` calls `trap()` with the program's `%ebp`
  (`trapentry.S:83`), so `mon_backtrace()` does not stop at the kernel's first
  frame, as `entry.S:72-74` means it to, but reads wherever the program points.

- `stab_search`: when all entries of the type start after the address, what
  `stab_binsearch()` leaves is not an empty stretch, as its comment
  (`kdebug.c:41-43`) says, but what stands before the first of them. And with
  `addr++` on an exact match (`kdebug.c:89`) the search can run on to an entry one
  address further. `StabSearchExact` says what comes out in both cases, and that
  there is no third.
- `dash_pads`: `-` ("flag to pad on the right", `printfmt.c:107`) puts dashes on
  the left of a number; it pads on the right for `%s` only, for which the head of
  the file promises no width at all (`printfmt.c:12-13`).

Two gaps that no caller of this commit runs into: `page_free()` recognises a free
page by `pp_link != NULL` (`pmap.c:408`), which the last page of the list does
not have, so that a double free of it goes unnoticed; and `xchg()` has no
"memory" clobber (`lab4/inc/x86.h:257`), so that a compiler may move the store
to `lk->cpu` across it.

## Proofs

Theorems hold for every value of the constants that satisfies the named
assumptions of the modules: any number of pages, slots and processors, any layout
of memory, any width of `pp_ref`, any size of the console's buffer, of the screen
and of a line. The assumptions say what the machine or the callers guarantee:

- `NPagesAssumption`, `RefMaxAssumption`, `LayoutAssumption` (`PageOps`): some
  pages, a counter that holds at least 1, base memory below the hole below the
  first page `boot_alloc()` did not take;
- `KernAssumption` (`PmapOps`): the kernel's image ends behind the hole and before
  that page, and there is memory behind it; `check_page_free_list()` asserts the
  latter (`nfree_extmem > 0`, `pmap.c:784`);
- `SlotAssumption`: user slots come before the kernel's, and `UVPT` and the kernel
  each have a slot;
- `NullAssumption`, `NullEntryAssumption`, `NoCPUAssumption`: the constant `NULL`
  is no page, entry or pointer, and `NoCPU` (of `Spinlock`) no processor;
- `ClientAssumption` (`Pmap`): the kernel maps at user addresses;
- `EnvAssumption` (`EnvOps`), `HarnessAssumption` (of `Env` and of `Kernel`): the
  width of an id leaves room for a generation, generations and the range of ids
  are multiples of the number of slots, and programs consist of user pages;
- `PageSizeAssumption` (`UserMem`): a page has a byte;
- `BufferAssumption`, `UsersAssumption` (`Console`), `ScreenAssumption`
  (`Monitor`): there is room for a character; users press keys of the keyboard;
  the screen is a whole number of lines, and a line of input is shorter than the
  screen by a line, as 1024 is less than 2000 - 80.

`PageAllocProofs`. `FreeListComplete` is not inductive. It says that a sequence
spells out the list, but a push or a pop needs to know that pages off the list
have a `NULL` link, or the check in `page_free()` could fire; that a page with
no reference is either owned or on the list; and that what a caller owns is not
reserved. `Inv` adds these. The lemmas `ListHead`, `ListPop`, `ListPush` and
`ListFrame` (in `KernelLemmas`) say what the list operations do to such a sequence,
of any length, and `AllocCorrect` and `FreeCorrect` lift them to `page_alloc` and
`page_free`; each action then preserves `Inv` by one of them. From `Inv` follow
`TypeCorrect`, `FreeListCorrect`, `NeverPanics`, `ReservedSafe` and
`Refinement` (the allocator implements `PhysPool`).

`PmapProofs`. A count is exact only if nothing else is wrong: that a page table
belongs to one directory slot, that a user mapping reaches no table, directory or
page of the kernel's, that a page on the list is not referred to from a table
somebody else can write. `MemInv` (in `KernelLemmas`) puts these together: `Apart`
(what a reference may name), `Counts`, `KernPart` (what the kernel's part of a
directory names), `ListOK` (the free list spells out exactly the pages without a
reference or a holder) and types. It has three parameters, so that it also holds
*between* the steps of `page_insert()` and serves more than one directory: the
directories `Ds`, the pages `H` somebody holds without mapping them, and those of
them, `X`, that are counted in `pp_ref` for it. `page_insert()` counts its page
before it looks what is mapped at the address, which is a step into `X`; the
`page_remove()` in the middle may drop a reference to that very page, which is
then not freed since it is in `X`; and the final store takes it out of `X`, since
the count is now the mapping's. That is why inserting a page over itself is right
without a special case. There is one lemma for each such step: `AllocZeroInv`,
`TableInv` (`pgdir_walk()` hangs a table into a directory), `IncrefInv`,
`UnmapInv`, `MapInv`, `WriteInv` (anybody may store anything in a page he owns),
and `WalkInv`, `RemoveInv` and `InsertInv` put them together along the code. Each
also says which translations change: `TableInv` that a fresh table maps nothing,
`EntryTranslate` that an entry belongs to one virtual page of one directory. So
the theorems on the TLB and on the abstract address space come out of the same
lemmas as the counts. The theorems are `RefCountExactAlways`,
`FreeListExactAlways`, `TlbCoherentAlways`, `TablesPrivateAlways` and `Implements`.

The initial state is what `mem_init()` leaves, so `MemInit` has to prove what
`page_init()`'s loop does to all pages. `page_init` is a recursive function.
`AfterPage` describes the state after each round, as a set of linked pages and
the last of them, which is found by arithmetic since the free pages are two
intervals; `AfterStep` proves one round, and `LoopRuns` and `PageInitRuns` that there
is a run of the loop and that it ends so. Their inductions are over a set of
round numbers (`SetInduction`), which needs no operator as a parameter.

`EnvProofs`. `Kernels` is the set of typed states. `env_free()` and `load_icode()`
are loops within loops over the functions of `pmap.c`; a loop is a recursive
function, and `RunExists` and `RunUnique` say once that a loop whose rounds stay
within a set of states has exactly one run, in it. The set is `Like`: the states
with the same environments. So `UnmapRun`, `RegionRun`, `CopyRun`, `SegmentRun` and
`TableRun` reduce each loop to what one round does, and the calls change the
environments only where their own assignments say (`GivesEnv`, `TakesEnv`).
`EnvInv` says of the environments that an id names its slot, that live ones have an
id and a directory, that `curenv` is the one that is running and that the free ones
form a list, for which the lemmas on the list of free pages serve; and that the id
of a destroyed environment is at most the last id of its slot, and less while the
slot is in use (`PastIds`). `IdOf` is the arithmetic: `NextEnvId` is positive, has
the slot in its low bits, and is greater than the slot's last id unless the
generations are used up. From this follow `EnvTypeCorrect`, `FreeEnvsListed` and
`IdsNameOneEnv`.

What `Env` says of memory is proved on top of that, with the lemmas of
`KernelLemmas`. `Spaces(m, D, W)` says of memory `m` that it satisfies `MemInv` for the
directories `D` of the environments and the kernel's, each of `D` counted once for
its `env_pgdir`, while the pages `W` are in other hands; and, what `MemInv` does not
say since `Pmap` does not need it, that no page has two references (`Single`), that
the kernel's directory and tables are as boot left them (`AsBooted`), that every
directory repeats the kernel's above `UTOP` but for `UVPT` (`KernCopy`), that its
entries below `UTOP` leave the permissions to the tables (`UserPdes`), and that
the directory in force exists and the TLB agrees with it. `EnvSpace` adds that
`D` are the directories of the live environments, all different, and that the one in
force is the running environment's, and the kernel's while there is none. That is
the invariant, as long as the kernel has neither panicked nor faulted.

Each function is then a step from one such space to another. `env_setup_vm()` takes
a page into `W` and from there into `D` (`AllocSpace`, `NewDirectory`); `env_free()`
empties a table entry by entry, drops the table, and with the last table the
directory (`Emptying`, `Freeing`: `RemoveSpace`, `DropTableSpace`, `DropDirSpace`),
which is sound only because the directory is not the one in force: the kernel's is
loaded first when the environment is the running one, and when it is not, another
directory is in force since all are different. `load_icode()` is the hard one, because `region_alloc()` overlooks
that `page_insert()` failed. Between the two, memory satisfies `Spaces` only with the
page that was not mapped in nobody's hands (`Short`), so that a page is lost. The
proof keeps besides that one of the segment's pages is not mapped, and the copy
that follows must fault on it before the function returns (`CopyRound`): after
it the kernel has stopped, or nothing was lost. `KernelReadOnly` shows that a program
that writes wherever its tables let it reaches no page above `UTOP`. The theorems
are `EnvRefCountExact`, `EnvNoPageLost`, `RunsOnOwnTables` and `EnvsSeparate`.

`KernelLemmas` holds what these three and the next share, for any record that has
the fields; it extends `EnvOps`, so that the constants of page tables and
environments are in scope of `PageAllocProofs` too, which cites none of their
assumptions.

`KernelProofs`. Here the same functions run in one fixed order, with traps in
between, and what holds depends on where the processor is. `Where` says it for
each `mode`: until the first `env_run()` there is no environment, then one that
does not run (`Starting`); in user mode it runs (`Runs`: the invariant of
`EnvProofs`, with this environment as the only one); in the monitor it runs
still, after `int3`, or the kernel panicked before it ever did, or it is `Gone`,
that is, `curenv` still names it but it has neither memory nor status. This third
case is why the invariant of `EnvProofs` does not serve as it stands: after
`env_destroy()` of `project3` `curenv` is not the environment that is running. A
fault of the kernel can find all three (a backtrace in the monitor), and loses the
processor in the second and in the third. `CreateOne`, `RunOne` and `FreeOne` are
the steps from one case to the next, from the lemmas on `env_create()`,
`env_run()` and `env_free()`.

The other half, `FrameInv`, is about the trap frame: the registers that the
program runs with are those it was started with, and the last frame has the vector
and its error code. `WholeFrame` reads back what was pushed for any vector, from
`OneCode`: for every vector that can be raised either the processor or the entry
point pushes an error code, never both or neither. `TrapSaves`, `TrapDestroys`,
`TrapReturns` and `TrapStops` say what a trap does to the whole invariant for each
way a handler ends, so that each system call is one of these. The theorems are
`KernelTrapframe`, `KernelResumes`, `KernelKeepsControl` and `KernelDestroys`.

`KernelChecks` is about `user_mem_check()`, which looks at one address of each page
and at one entry, while the processor looks at every byte and at two entries. It
holds for the ranges whose pages leave one of the address space out
(`Countable`); for the others the number of pages wraps, which is the finding
`user_mem_wrap`. `CheckedPages` proves that the pages are the same ones, with the
sums that wrap around: rounding the end up and the start down leaves as many
pages as the range touches. `WrapDiv` is its arithmetic. `PageAgrees` proves that the entry
decides: below `UTOP` because of `UserPdes`, in the window at `UVPT` because a
directory's own entry lets the user read, and in between because no entry of a
kernel table does (`KernelPage`), although `pgdir_walk()` does not look at the
permissions of the directory.

`ConsoleProofs`. `ModifiersHeld` compares the driver's flags with the keys that
are down, but bytes are on the way between the two. `Inv` contains a `Story`: the
keys that were down at each byte still in the controller follow one another as
presses and releases of one key, each complete or with its prefix just read, from
what the driver has seen to what is down now. A press or a release extends the
story at its end (`SendStory`), the driver takes from its front (`ReadStory`). The
lemmas on `kbd_proc_data()` take a byte apart through the driver's four tables.
`WaitingIsAnswered` is an action property. It says of the step in which
`cons_getc()` returns that all the bytes have been read that the keyboard
controller had at the call (`unread`), unless the mouse's data stood before them,
and that the answer is not 0 if a character came of them or waited elsewhere
(`owed`). `OwedInv` says where it is: until the serial port has been polled there or in the
buffer, and from then on in the buffer, unless that overflowed (`StoreLeaves`).
The bytes that arrive during the call queue behind the ones that count, so
`unread` is at most what the controller still has (`UnreadSend`).
`Implements` maps the circular buffer to the sequence of what waits; `ModUp` and
`ModDown` do the arithmetic.

`MonitorProofs` holds what shares no state with the rest of the kernel.
`EchoMatchesLine` is inductive with the cursor on the screen and
the index within the buffer. It survives because the prompt and the line together
are shorter than the screen without its last row, so the row that scrolls out of
sight never holds a part of them. `cga_putc()` of a character, of a newline and of
a backspace each get a lemma that says what happens to the cells before the
cursor, and scrolling moves both ends of the comparison.

`RunsShown` compares two ways to take a line apart. `RunsWhatIsShown` says that a
word starts wherever a character that is not white follows one that is, and that
the n-th argument is the word with n starts up to it; `runcmd()` skips blanks and
words in turn. `NextWord` proves that between two of its positions there is one
start and no other, `ScanFinds` by induction over the places in `argv` that it
finds them all in order, and `RunsWords` that the words it cuts are the ones in the
line, up to `MAXARGS`, where it stops.

`StabSearch` is about a loop whose bounds shrink unevenly: it looks at the middle,
walks back to an entry of the type, and changes `addr` itself when it finds it.
`TurnLess` proves that it ends: each turn takes something off the stretch, but for
one that finds `addr` where `l` is, and that one cannot come twice in a row.
`TurnKnows` is its invariant: entries behind the bounds start after the address
asked for, those before them before the one it looks for by now, and from the one
to the other an entry starts at each. `SearchLocated` concludes what is left, with the two
exceptions that the property names and the finding `stab_search` is about.
`LoopExists` and `LoopsAgree` are induction over the turns of any loop that ends.

`CopiesExact` proves `memmove()`. `NextUnitUp` and `NextUnitDown` are the point: a
unit that is moved next reads what was there at first, for the direction that
the overlap calls for. `AllMoved` is the induction over the units, words or bytes.

`LoaderLoads` rests on what `readseg()` has read (`Reading`): the bytes of
the segment below where it is are those of the file, the sector it reads next is
the one that belongs there, and all segments before are complete, the header
with them as number 0. What it writes behind a segment does no harm because the
segments ascend (`boot/main.c:84` says so), and the bss is cleared afterwards
(`ClearBssInv`). `LoaderSpec` has the steps that `Boot` makes with the loader's
variables: `Load`, `Entry_S` and `Finish` of `Boot` are defined by them, and its other
actions leave these variables as they are.
The images of the model leave the bss out of the file. With the `BYTE(0)` behind
`end` (`kernel.ld:54`) a linker may store the bss as zeros, and then it is clear as
soon as it is read; without, it is clear only because `i386_init()` clears it, which
is the case that is checked and proved.

`SpinlockProofs`. `MutualExclusion` needs to know who may be where. `Inv` says
that the lock word is set exactly while there is an owner, that there is at most
one, that only an owner or the processor releasing has its own name in
`lk->cpu` or on the way to it, and that a processor about to exchange has
nothing buffered that could overwrite the owner's name. The theorems are
`TypeCorrect`, `Exclusion`, `HoldingCorrect` and `Refinement` (the lock
implements `Mutex`).

The list is spelled out in two ways. `FreeListIs` says that a sequence exists,
which is what the proofs use; `FreeListWalks` follows the links, which TLC
evaluates quickly, in `Pmap`, `Env` and `Kernel`. `ListWalks` proves that the
first implies the second.

Two mistakes of the model came out in the proofs and are corrected:
`ReservedPages` used to leave out pages behind base memory and in front of the
hole, which `page_init()` does not link either; and a machine without memory
behind the kernel used to be allowed, on which `mem_init()` panics before it is
done.

Only model-checked are:

- `SelfTestsPass`, `BootHandsOver` and `KernelStoresMapped`. `mem_init()` is some
  hundred and thirty calls one after the other, and nothing repeats that an
  invariant could be about: a proof would follow each call through the memory
  it leaves, for every machine.
- `FormatExact`. Digits are defined by the powers of a base, and the output goes through
  `FoldLeft`, whose operator the provers cannot take for a given one.
- `FunctionFound`. It composes three searches, each of which `StabSearch` is about, on
  tables as a compiler writes them; there is no code here that says what such a
  table is, only examples to run on.
- `StringsExact`, whose memory is of one size, and `strtol()`, the value of
  which is a sum.
- `SomeoneGetsIn`: liveness is outside what the proof system handles.

## Not modelled, and the plan

What could be proved next are the other string functions, for strings of any
length, which takes a memory whose size is a parameter.

Not modelled because it is never reached: what `lab4` adds after the allocator.
Its `mem_init()` panics in the first self-test: `page_init()` does not reserve the
page at `MPENTRY_PADDR`, as its comment asks (`lab4/kern/pmap.c:329-331`), and
`check_page_free_list()` asserts that it did (`pmap.c:848`). Were that repaired,
`check_page()` would call `mmio_map_region()` (`lab4/kern/pmap.c:1175`),
which panics with "mmio_map_region not implemented" (`pmap.c:716`). So
`mp_init()`, `boot_aps()`, `mp_main()`, `sched_halt()`, the timer and with them
`ENV_DYING` belong to no state this kernel can be in. Two functions of `lab4` are
modelled all the same, because they do not depend on what is missing: the lock,
for any processors that call it, and `env_destroy()` for the environment that
runs, after which the kernel goes on, so that `Env` sees what follows the end
of an environment. `project3`'s, which ends in the monitor, is in `Kernel`.

Not modelled because it decides nothing: `boot.S`, which switches the processor
to protected mode; the setup of the screen, the serial and the parallel port and
the output to the latter two; the interrupt controller and the clock;
`print_trapframe()` and the other functions that only print; the user programs,
of which `Kernel` allows everything a program can do; `fork()`, `ipc_recv()` and
`set_pgfault_handler()` of the user library, which panic at this commit. Of
`debuginfo_eip()` the checks of a program's own table are left out: nothing calls
it, and `user_mem_check()` would get lengths with the wrong sign there
(`kdebug.c:165`).

The modules cover about a sixth of the lines of the repository, and of the code
of `project3/kern`, `project3/lib` and `project3/boot` most lines that decide
anything. Most of the rest is the two other snapshots, which repeat it:
`console.c`, `entrypgdir.c`, `printfmt.c`, `string.c` and `mmu.h` are there three
times with hardly a line that differs, `pmap.c` three times and `env.c` twice
with little that does. A second model of a copy would say nothing new.
