----------------------------- MODULE BootLoader -----------------------------
(***************************************************************************)
(* bootmain() of project3/boot/main.c: it reads the kernel's ELF header    *)
(* into scratch memory and then every segment to its load address, sector  *)
(* by sector.  i386_init() completes the loading by clearing the bss.      *)
(*                                                                         *)
(* Memory holds bytes of the kernel file, each known by its offset in the  *)
(* file, Zero where something was cleared, and Junk where nothing was      *)
(* stored yet.  The wait for the disk and the ports it is programmed by    *)
(* are left out.                                                           *)
(***************************************************************************)
EXTENDS Integers, Sequences

CONSTANTS
    SECTSIZE,   \* bytes of a sector
    HdrSize,    \* bytes read for the ELF header (SECTSIZE * 8)
    ELFHDR,     \* where they go
    RamSize,    \* bytes of memory the loader may reach
    Kernels     \* kernel images: [magic, ph], ph the program headers

(* How kernel.ld has the linker lay out an image: each segment starts on a *)
(* page, above the scratch space and past the one before, and only the     *)
(* last one, which ends in the bss, is longer in memory than in the file.  *)
(* (With the BYTE(0) that kernel.ld:54 puts behind `end' a linker may keep *)
(* the bss in the file, as zeros.  Here it is not in the file: what the    *)
(* loader reads in its place is something else, and memset() clears it.)   *)
WellLinked(ph) ==
    /\ \A n \in 1 .. Len(ph) :
        /\ ph[n].p_filesz \in 1 .. ph[n].p_memsz
        /\ (ph[n].p_pa % SECTSIZE) = 0 /\ (ph[n].p_offset % SECTSIZE) = 0
        /\ ph[n].p_pa >= ELFHDR + HdrSize
        /\ n < Len(ph) => ph[n].p_filesz = ph[n].p_memsz
    /\ \A m, n \in 1 .. Len(ph) : m < n => ph[m].p_pa + ph[m].p_memsz <= ph[n].p_pa

ProgramHeader == [p_pa : Nat, p_offset : Nat, p_filesz : Nat, p_memsz : Nat]

(* The machine has the memory that the image takes. *)
ASSUME LoaderAssumption ==
    /\ SECTSIZE \in Nat \ {0} /\ HdrSize \in Nat /\ ELFHDR \in Nat /\ RamSize \in Nat
    /\ (HdrSize % SECTSIZE) = 0 /\ (ELFHDR % SECTSIZE) = 0 /\ ELFHDR + HdrSize <= RamSize
    /\ \A image \in Kernels :
        /\ image.magic \in BOOLEAN
        /\ image.ph \in Seq(ProgramHeader) \ {<<>>}
        /\ WellLinked(image.ph)
        /\ \A n \in 1 .. Len(image.ph) : image.ph[n].p_pa + image.ph[n].p_memsz <= RamSize

VARIABLES
    kernel,     \* the image on the disk
    ram,        \* what each byte of memory holds
    rd,         \* readseg()'s arguments: [pa, end_pa, offset]
    seg,        \* 0 while the header is read, then the program header at work
    stage       \* bootmain, bad, entry, i386_init, mem_init, done

loaderVars == <<kernel, ram, rd, seg, stage>>

Zero == -1
Junk == -2
Addr == 0 .. RamSize - 1

RoundDown(pa) == pa - (pa % SECTSIZE)

(* A faulty readseg() that reads no sector it does not need all of. *)
readseg_WholeSectors(pa, count, offset) ==
    [pa |-> RoundDown(pa), end_pa |-> RoundDown(pa + count), offset |-> offset \div SECTSIZE + 1]

(* readseg() up to its loop; the kernel file starts at sector 1. *)
readseg(pa, count, offset) ==
    [pa |-> RoundDown(pa), end_pa |-> pa + count, offset |-> offset \div SECTSIZE + 1]

(* Memory once sector s of the disk has been read to pa. *)
readsect(pa, s) ==
    [a \in Addr |-> IF a \in pa .. pa + SECTSIZE - 1
                    THEN (s - 1) * SECTSIZE + (a - pa) ELSE ram[a]]

(* Memory after memset(a0, 0, n). *)
Cleared(a0, n) == [a \in Addr |-> IF a \in a0 .. a0 + n - 1 THEN Zero ELSE ram[a]]

LoaderInit ==
    /\ kernel \in Kernels
    /\ ram = [a \in Addr |-> Junk]
    /\ rd = readseg(ELFHDR, HdrSize, 0)
    /\ seg = 0
    /\ stage = "bootmain"

(* One turn of readseg()'s loop. *)
ReadSect ==
    /\ stage = "bootmain"
    /\ rd.pa < rd.end_pa
    /\ ram' = readsect(rd.pa, rd.offset)
    /\ rd' = [rd EXCEPT !.pa = @ + SECTSIZE, !.offset = @ + 1]
    /\ UNCHANGED <<kernel, seg, stage>>

(* The next turn of bootmain()'s loop. *)
NextSegment ==
    /\ stage = "bootmain"
    /\ rd.pa >= rd.end_pa
    /\ kernel.magic /\ seg < Len(kernel.ph)
    /\ LET ph == kernel.ph[seg + 1]
       IN  rd' = readseg(ph.p_pa, ph.p_memsz, ph.p_offset)
    /\ seg' = seg + 1
    /\ UNCHANGED <<kernel, ram, stage>>

(* Not an ELF file: the loader spins. *)
BadMagic ==
    /\ stage = "bootmain"
    /\ rd.pa >= rd.end_pa
    /\ ~kernel.magic
    /\ stage' = "bad"
    /\ UNCHANGED <<kernel, ram, rd, seg>>

(* The call of e_entry. *)
EnterKernel ==
    /\ stage = "bootmain"
    /\ rd.pa >= rd.end_pa
    /\ kernel.magic /\ seg = Len(kernel.ph)
    /\ stage' = "entry"
    /\ UNCHANGED <<kernel, ram, rd, seg>>

(* entry.S, as far as these variables go. *)
JumpToC ==
    /\ stage = "entry"
    /\ stage' = "i386_init"
    /\ UNCHANGED <<kernel, ram, rd, seg>>

(* The bss is the end of the last segment: edata and end in kernel.ld. *)
LastPh == kernel.ph[Len(kernel.ph)]
edata     == LastPh.p_pa + LastPh.p_filesz
image_end == LastPh.p_pa + LastPh.p_memsz

(* memset(edata, 0, end - edata) in i386_init(). *)
ClearBss ==
    /\ stage = "i386_init"
    /\ ram' = Cleared(edata, image_end - edata)
    /\ stage' = "mem_init"
    /\ UNCHANGED <<kernel, rd, seg>>

LoaderNext == ReadSect \/ NextSegment \/ BadMagic \/ EnterKernel \/ ClearBss

(* mem_init() returns; before, it leaves the image alone. *)
MemInitReturns ==
    /\ stage = "mem_init"
    /\ stage' = "done"
    /\ UNCHANGED <<kernel, ram, rd, seg>>

(* The loader within the boot: what Boot does to the variables above. *)
LoaderSpec == LoaderInit /\ [][LoaderNext \/ JumpToC \/ MemInitReturns]_loaderVars

-----------------------------------------------------------------------------
(* When C code runs, the kernel in memory is the one that was linked: each *)
(* byte of the file is at its address and the bss is clear, although whole *)
(* sectors were read and p_memsz bytes were asked of the file; and until   *)
(* then the headers the loop goes by are those of the file.                *)
LoadedExact ==
    /\ stage = "bootmain" /\ seg > 0 =>
          \A j \in 0 .. HdrSize - 1 : ram[ELFHDR + j] = j
    /\ stage = "mem_init" =>
          \A n \in 1 .. Len(kernel.ph) :
              LET ph == kernel.ph[n]
              IN  \A j \in 0 .. ph.p_memsz - 1 :
                      ram[ph.p_pa + j] = IF j < ph.p_filesz THEN ph.p_offset + j ELSE Zero
=============================================================================
