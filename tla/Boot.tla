-------------------------------- MODULE Boot --------------------------------
(***************************************************************************)
(* From the first instruction of the boot sector to a running kernel:      *)
(* boot/boot.S, boot/main.c, kern/entry.S with its page directory, and     *)
(* i386_init and panic of kern/init.c.  The keyboard controller, which     *)
(* gates address line 20, and the disk answer in their own time.           *)
(*                                                                         *)
(* A byte of memory holds the position on the disk of the byte that was    *)
(* copied to it, or one of the marks below; a zero of the kernel's file is *)
(* the mark Zero.                                                          *)
(***************************************************************************)
EXTENDS Integers, Sequences

CONSTANTS
  SECTSIZE,     \* bytes of a sector
  HDRSECTS,     \* sectors bootmain reads for the headers (8)
  ELFHDR,       \* where they go
  LOADER,       \* addresses of the boot sector
  A20,          \* the address bit that line 20 carries (2^20)
  MEMSIZE,      \* bytes of memory
  W,            \* addresses are computed modulo W (2^32)
  KERNBASE,     \* the kernel is linked KERNBASE above where it is loaded
  PTSPAN,       \* bytes that one page table maps (4MB)
  WORD,         \* bytes that `call` pushes (4)
  Images,       \* kernels on the disk
  FastDisk,     \* a sector may arrive before the controller takes a byte
  MaxPanics     \* calls of panic in a behaviour           (bound)

Other == -1     \* whatever the machine left in memory
Code == -2      \* the boot loader
Zero == -3
Message == -4   \* a pointer to the format of a panic message
Frame == -5     \* whatever calls leave on the kernel's stack

Segment == [pa : Nat, memsz : Nat, offset : Nat]

\* The memory sectors a segment is read into.
Sectors(s) == s.pa \div SECTSIZE .. (s.pa + s.memsz - 1) \div SECTSIZE

\* The addresses of a segment.
Span(s) == s.pa .. s.pa + s.memsz - 1

\* What the ELF header and the linker script say of a kernel: its entry point
\* and segments, and the physical addresses of bootstack, of bootstacktop, of
\* edata, of end, of the variable panicstr and of the first byte behind all
\* variables: common symbols lie behind `end`.
\* A segment lies in its sector as in the file, and above A20 unless it is empty
\* and at the start of a sector (PT_GNU_STACK, at 0); two segments share a sector of memory only if they share it
\* on the disk.  Stack and variables are in one segment, above the entry point.
Image(img) ==
  /\ img.magic \in BOOLEAN
  /\ {img.entry, img.bootstack, img.bootstacktop,
      img.edata, img.end, img.globals, img.panicstr} \subseteq Nat
  /\ img.segs \in Seq(Segment)
  /\ \A k \in DOMAIN img.segs :
       LET s == img.segs[k] IN
       /\ s.pa >= A20 \/ (s.memsz = 0 /\ s.pa % SECTSIZE = 0)
       /\ s.pa + s.memsz <= MEMSIZE - SECTSIZE
       /\ s.pa % SECTSIZE = s.offset % SECTSIZE
       /\ \A j \in DOMAIN img.segs :
            Sectors(s) \cap Sectors(img.segs[j]) # {}
              => s.pa - s.offset = img.segs[j].pa - img.segs[j].offset
  /\ \E k \in DOMAIN img.segs : img.entry .. img.entry + 2 \subseteq Span(img.segs[k])
  /\ \E k \in DOMAIN img.segs :
       img.bootstack .. img.globals - 1 \subseteq Span(img.segs[k])
  /\ img.entry + 2 < img.bootstack /\ img.bootstack + WORD <= img.bootstacktop
  /\ img.bootstacktop <= img.edata /\ img.edata <= img.end /\ img.end <= img.globals
  /\ img.panicstr \in img.edata .. img.globals - 1

ASSUME BootAssumption ==
  /\ SECTSIZE \in Nat \ {0} /\ HDRSECTS \in Nat \ {0}
  /\ ELFHDR \in Nat /\ ELFHDR % SECTSIZE = 0
  /\ A20 \in Nat /\ A20 % SECTSIZE = 0
  /\ ELFHDR + HDRSECTS * SECTSIZE <= A20
  /\ LOADER \subseteq 0 .. A20 - 1
  /\ LOADER \cap (ELFHDR .. ELFHDR + HDRSECTS * SECTSIZE - 1) = {}
  /\ MEMSIZE \in A20 .. 2 * A20
  /\ {W, KERNBASE, PTSPAN} \subseteq Nat /\ WORD \in Nat \ {0}
  /\ MEMSIZE <= PTSPAN /\ PTSPAN <= KERNBASE /\ KERNBASE + PTSPAN <= W
  /\ \A img \in Images : Image(img)
  /\ FastDisk \in BOOLEAN
  /\ MaxPanics \in Nat

VARIABLES
  image,        \* the kernel on the disk, from sector 1 on
  pc,           \* the step the processor is at
  eip,          \* address of its next instruction, once in the kernel
  paging,       \* entry_pgdir is in use
  kbc,          \* keyboard controller: input full, its byte, command taken
  a20,          \* address line 20 is enabled
  mem,          \* physical memory
  disk,         \* busy, the sector it reads, the sector in its buffer
  ph,           \* readseg's caller: 0 for the headers, else a segment
  pa, end_pa, offset,   \* readseg's locals
  panics, messages      \* calls of panic, and messages it printed

cpu == <<eip, paging>>
gate == <<kbc, a20>>
readseg == <<ph, pa, end_pa, offset>>
kernel == <<panics, messages>>
vars == <<image, pc, cpu, gate, mem, disk, readseg, kernel>>

Goto(from, to) == pc = from /\ pc' = to

\* The byte of memory that an address on the bus selects.
Wire(a) == IF a20 THEN a ELSE a - A20 * ((a \div A20) % 2)

-----------------------------------------------------------------------------
(* boot.S                                                                  *)

SetA20Command ==
  /\ Goto("seta20.1", "seta20.2")
  /\ ~kbc.full
  /\ kbc' = [kbc EXCEPT !.full = TRUE, !.byte = "0xd1"]
  /\ UNCHANGED <<image, cpu, a20, mem, disk, readseg, kernel>>

SetA20Data_NoWait ==
  /\ Goto("seta20.2", "protcseg")
  /\ kbc' = [kbc EXCEPT !.full = TRUE, !.byte = "0xdf"]
  /\ UNCHANGED <<image, cpu, a20, mem, disk, readseg, kernel>>

SetA20Data ==
  /\ Goto("seta20.2", "protcseg")
  /\ ~kbc.full
  /\ kbc' = [kbc EXCEPT !.full = TRUE, !.byte = "0xdf"]
  /\ UNCHANGED <<image, cpu, a20, mem, disk, readseg, kernel>>

-----------------------------------------------------------------------------
(* main.c                                                                  *)

Readseg_NoRound(p, count, off) ==
  /\ pa' = p
  /\ end_pa' = (p + count) % W
  /\ offset' = off \div SECTSIZE + 1

Readseg_FirstSector(p, count, off) ==
  /\ pa' = p - (p % SECTSIZE)
  /\ end_pa' = (p + count) % W
  /\ offset' = off \div SECTSIZE

\* round down to sector boundary; the kernel starts at sector 1
Readseg(p, count, off) ==
  /\ pa' = p - (p % SECTSIZE)
  /\ end_pa' = (p + count) % W
  /\ offset' = off \div SECTSIZE + 1

\* Into protected mode with flat segments, then bootmain up to its first loop:
\* the headers.
Bootmain ==
  /\ Goto("protcseg", "readseg")
  /\ ph' = 0
  /\ Readseg(ELFHDR, HDRSECTS * SECTSIZE, 0)
  /\ UNCHANGED <<image, cpu, gate, mem, disk, kernel>>

\* readsect: wait for the disk, ask for a sector ...
ReadCommand ==
  /\ Goto("readseg", "insl")
  /\ pa < end_pa
  /\ ~disk.busy
  /\ disk' = [disk EXCEPT !.busy = TRUE, !.sector = offset]
  /\ UNCHANGED <<image, cpu, gate, mem, readseg, kernel>>

\* Position n of the file is loaded over a variable.
InBss(img, n) ==
  \E k \in DOMAIN img.segs :
    LET s == img.segs[k] IN
    /\ n \in s.offset .. s.offset + s.memsz - 1
    /\ s.pa + (n - s.offset) \in img.edata .. img.globals - 1

\* The kernel file starts at sector 1.  Variables are zeros of the file, common
\* symbols too: BYTE(0) gives the section .bss, which they all end up in,
\* contents.
FileByte(img, n) == IF InBss(img, n) THEN Zero ELSE SECTSIZE + n

DiskByte(sector, j) == FileByte(image, (sector - 1) * SECTSIZE + j)

ReadData_NoAdvance ==
  /\ Goto("insl", "readseg")
  /\ ~disk.busy
  /\ mem' = [a \in DOMAIN mem |->
               IF \E j \in 0 .. SECTSIZE - 1 : Wire(pa + j) = a
               THEN DiskByte(disk.buffer, CHOOSE j \in 0 .. SECTSIZE - 1 :
                                            Wire(pa + j) = a)
               ELSE mem[a]]
  /\ UNCHANGED <<image, cpu, gate, disk, readseg, kernel>>

\* ... wait again, and copy it from the disk's buffer.
ReadData ==
  /\ Goto("insl", "readseg")
  /\ ~disk.busy
  /\ mem' = [a \in DOMAIN mem |->
               IF \E j \in 0 .. SECTSIZE - 1 : Wire(pa + j) = a
               THEN DiskByte(disk.buffer, CHOOSE j \in 0 .. SECTSIZE - 1 :
                                            Wire(pa + j) = a)
               ELSE mem[a]]
  /\ pa' = (pa + SECTSIZE) % W
  /\ offset' = offset + 1
  /\ UNCHANGED <<image, cpu, gate, disk, ph, end_pa, kernel>>

\* readseg returns; bootmain checks the magic number after the headers.
SegmentRead == pc = "readseg" /\ pa >= end_pa /\ (ph = 0 => image.magic)

NextSegment ==
  /\ SegmentRead
  /\ ph < Len(image.segs)
  /\ ph' = ph + 1
  /\ LET s == image.segs[ph'] IN Readseg(s.pa, s.memsz, s.offset)
  /\ UNCHANGED <<image, pc, cpu, gate, mem, disk, kernel>>

BadImage ==
  /\ Goto("readseg", "bad")
  /\ pa >= end_pa /\ ph = 0 /\ ~image.magic
  /\ UNCHANGED <<image, cpu, gate, mem, disk, readseg, kernel>>

CallEntry ==
  /\ SegmentRead
  /\ ph = Len(image.segs)
  /\ pc' = "entry"
  /\ eip' = image.entry
  /\ UNCHANGED <<image, paging, gate, mem, disk, readseg, kernel>>

-----------------------------------------------------------------------------
(* entry.S and init.c                                                      *)

Fault == -1

EntryPgdir_NoIdentity(va) ==
  CASE ~paging -> va
    [] va \in KERNBASE .. KERNBASE + PTSPAN - 1 -> va - KERNBASE
    [] OTHER -> Fault

\* entry_pgdir maps [0, 4MB) and [KERNBASE, KERNBASE + 4MB) to [0, 4MB).
EntryPgdir(va) ==
  CASE ~paging \/ va < PTSPAN -> va
    [] va \in KERNBASE .. KERNBASE + PTSPAN - 1 -> va - KERNBASE
    [] OTHER -> Fault

TurnOnPaging ==
  /\ Goto("entry", "jump")
  /\ paging' = TRUE
  /\ eip' = eip + 1
  /\ UNCHANGED <<image, gate, mem, disk, readseg, kernel>>

\* Physical addresses of what is linked KERNBASE above S.
Linked(S) == {Wire(EntryPgdir(KERNBASE + a)) : a \in S}

Bootstack == image.bootstack .. image.bootstacktop - 1

\* To the link address, where the call of i386_init pushes its return address.
JumpRelocated ==
  /\ Goto("jump", "relocated")
  /\ eip' = KERNBASE + image.entry + 2
  /\ LET top == image.bootstacktop
         word == Linked(top - WORD .. top - 1)
     IN  mem' = [a \in DOMAIN mem |-> IF a \in word THEN Frame ELSE mem[a]]
  /\ UNCHANGED <<image, paging, gate, disk, readseg, kernel>>

ClearBss_FromBelow ==
  /\ Goto("relocated", "running")
  /\ LET cleared == Linked(image.edata - 1 .. image.end - 1)
         frames == Linked(Bootstack)
     IN  mem' = [a \in DOMAIN mem |-> IF a \in cleared THEN Zero
                                     ELSE IF a \in frames THEN Frame ELSE mem[a]]
  /\ UNCHANGED <<image, cpu, gate, disk, readseg, kernel>>

\* i386_init, whose frames are on bootstack: memset(edata, 0, end - edata), then
\* everything else.
ClearBss ==
  /\ Goto("relocated", "running")
  /\ LET cleared == Linked(image.edata .. image.end - 1)
         frames == Linked(Bootstack)
     IN  mem' = [a \in DOMAIN mem |-> IF a \in cleared THEN Zero
                                     ELSE IF a \in frames THEN Frame ELSE mem[a]]
  /\ UNCHANGED <<image, cpu, gate, disk, readseg, kernel>>

Panic_NoFlag ==
  /\ pc = "running"
  /\ panics < MaxPanics
  /\ panics' = panics + 1
  /\ messages' = IF mem[image.panicstr] = Zero THEN messages + 1 ELSE messages
  /\ UNCHANGED <<image, pc, cpu, gate, mem, disk, readseg>>

\* panic prints if it is the first and enters the monitor, where it may be
\* called again; it never returns.
Panic ==
  /\ pc = "running"
  /\ panics < MaxPanics
  /\ panics' = panics + 1
  /\ IF mem[image.panicstr] = Zero
     THEN /\ mem' = [mem EXCEPT ![image.panicstr] = Message]
          /\ messages' = messages + 1
     ELSE UNCHANGED <<mem, messages>>
  /\ UNCHANGED <<image, pc, cpu, gate, disk, readseg>>

\* The loops after `bad:` and around monitor().
Spin == pc \in {"bad", "running"} /\ UNCHANGED vars

Processor ==
  \/ SetA20Command \/ SetA20Data \/ Bootmain
  \/ ReadCommand \/ ReadData \/ NextSegment \/ BadImage \/ CallEntry
  \/ TurnOnPaging \/ JumpRelocated \/ ClearBss

-----------------------------------------------------------------------------
(* The devices (external)                                                  *)

\* The controller takes the byte in its input buffer; 0xdf opens the gate if
\* the command has been taken before it.
KbcTakes ==
  /\ kbc.full
  /\ kbc' = [kbc EXCEPT !.full = FALSE, !.command = (kbc.byte = "0xd1")]
  /\ a20' = (a20 \/ (kbc.byte = "0xdf" /\ kbc.command))
  /\ UNCHANGED <<image, pc, cpu, mem, disk, readseg, kernel>>

\* The disk has read a sector.  boot.S does not wait for the controller to take
\* the second byte; only a disk that is slower sees to it that the gate is open.
DiskReady ==
  /\ disk.busy
  /\ FastDisk \/ ~kbc.full
  /\ disk' = [disk EXCEPT !.busy = FALSE, !.buffer = disk.sector]
  /\ UNCHANGED <<image, pc, cpu, gate, mem, readseg, kernel>>

\* The BIOS has read the boot sector; the controller may hold an old byte.
Init ==
  /\ image \in Images
  /\ pc = "seta20.1"
  /\ eip = 0 /\ paging = FALSE
  /\ kbc \in [full : BOOLEAN, byte : {"none"}, command : {FALSE}]
  /\ a20 \in BOOLEAN
  /\ mem = [a \in 0 .. MEMSIZE - 1 |-> IF a \in LOADER THEN Code ELSE Other]
  /\ disk \in [busy : BOOLEAN, sector : {0}, buffer : {0}]
  /\ ph = 0 /\ pa = 0 /\ end_pa = 0 /\ offset = 1
  /\ panics = 0 /\ messages = 0

Next == Processor \/ Panic \/ Spin \/ KbcTakes \/ DiskReady

\* The processor runs, and the devices answer.
Spec == Init /\ [][Next]_vars
          /\ WF_vars(Processor) /\ WF_vars(KbcTakes) /\ WF_vars(DiskReady)

-----------------------------------------------------------------------------
(* Properties                                                              *)

\* Types; in particular sector 0, the boot sector, is never read as kernel.
TypeOK ==
  /\ pc \in {"seta20.1", "seta20.2", "protcseg", "readseg", "insl", "bad",
             "entry", "jump", "relocated", "running"}
  /\ eip \in 0 .. W - 1 /\ paging \in BOOLEAN /\ a20 \in BOOLEAN
  /\ mem \in [0 .. MEMSIZE - 1 -> Int]
  /\ ph \in 0 .. Len(image.segs)
  /\ pa \in 0 .. MEMSIZE /\ end_pa \in 0 .. MEMSIZE
  /\ offset \in Nat \ {0}
  /\ messages <= panics /\ panics <= MaxPanics

Headers == ELFHDR .. ELFHDR + HDRSECTS * SECTSIZE - 1

\* The loader never loads over itself, nor over the headers it still reads
\* while the segments go in: without A20 a kernel at 1MB would land on both.
LoaderIntact ==
  pc \in {"protcseg", "readseg", "insl"} =>
    /\ \A a \in LOADER : mem[a] = Code
    /\ ph > 0 => \A a \in Headers : mem[a] = FileByte(image, a - ELFHDR)

Held(s, k) == mem[s.pa + k] = FileByte(image, s.offset + k)

\* When the kernel is entered every byte of every segment is in place, although
\* whole sectors were written, some of them for two segments.
Loaded ==
  pc = "entry" => \A n \in DOMAIN image.segs :
                    \A k \in 0 .. image.segs[n].memsz - 1 : Held(image.segs[n], k)

\* The next instruction of the kernel can be fetched, and is the one the file
\* has there: before paging, right after it at a low address, and at the link
\* address.
FetchesKernel ==
  pc \in {"entry", "jump", "relocated"} =>
    LET a == EntryPgdir(eip) IN
    /\ a # Fault
    /\ \E n \in DOMAIN image.segs :
         LET s == image.segs[n] IN
         /\ a \in Span(s)
         /\ mem[a] = FileByte(image, s.offset + (a - s.pa))

\* "This ensures that all static/global variables start out zero." (init.c:29)
\* Those behind `end` are included, which i386_init does not clear, and all that
\* was loaded is still as in the file, but for the stack.
KernelStartsClean ==
  pc = "running" /\ panics = 0 =>
    /\ \A a \in image.edata .. image.globals - 1 : mem[a] = Zero
    /\ \A n \in DOMAIN image.segs : LET s == image.segs[n] IN
         \A k \in 0 .. s.memsz - 1 : s.pa + k \notin Bootstack => Held(s, k)

\* However often panic is called, the first call and no other prints.
PanicSpeaksOnce == messages = IF panics > 0 THEN 1 ELSE 0

\* Every boot ends in the kernel or in the loop after `bad:`.
Boots == <>(pc \in {"running", "bad"})
=============================================================================
