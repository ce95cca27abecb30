----------------------------- MODULE BootProofs -----------------------------
(***************************************************************************)
(* Theorems about Boot, for every kernel on the disk and every sector size.*)
(* The types hold in every order in which the keyboard controller and the  *)
(* disk answer; what is said of memory needs the hypothesis Timely.        *)
(***************************************************************************)
EXTENDS Boot, TLAPS

-----------------------------------------------------------------------------
(* Multiples of the sector size                                            *)

\* Division with a remainder.
LEMMA DivMod ==
  ASSUME NEW n \in Nat, NEW S \in Nat \ {0}
  PROVE  /\ n \div S \in Nat /\ n % S \in 0 .. S - 1
         /\ n = (n \div S) * S + (n % S)
OBVIOUS

\* A number made of a quotient and a remainder.
LEMMA Unique ==
  ASSUME NEW S \in Nat \ {0}, NEW q \in Nat, NEW r \in 0 .. S - 1
  PROVE  (q * S + r) \div S = q /\ (q * S + r) % S = r
OBVIOUS

\* A number below the divisor.
LEMMA Small ==
  ASSUME NEW S \in Nat \ {0}, NEW r \in 0 .. S - 1
  PROVE  r \div S = 0 /\ r % S = r
OBVIOUS

\* Division keeps the order.
LEMMA DivMono ==
  ASSUME NEW a \in Nat, NEW b \in Nat, NEW S \in Nat \ {0}, a <= b
  PROVE  a \div S <= b \div S
OBVIOUS

\* One more factor.
LEMMA TimesSucc ==
  ASSUME NEW a \in Int, NEW S \in Int
  PROVE  (a + 1) * S = a * S + S
OBVIOUS

\* Multiplication keeps the order.
LEMMA TimesMono ==
  ASSUME NEW a \in Nat, NEW b \in Nat, NEW S \in Nat, a <= b
  PROVE  a * S <= b * S
OBVIOUS

\* The address that readseg rounds down to.
LEMMA RoundDown ==
  ASSUME NEW n \in Nat, NEW S \in Nat \ {0}
  PROVE  /\ n - (n % S) = (n \div S) * S
         /\ n - (n % S) \in Nat /\ n - (n % S) <= n /\ n < n - (n % S) + S
         /\ (n - (n % S)) % S = 0
<1>1. n \div S \in Nat /\ n % S \in 0 .. S - 1 /\ n = (n \div S) * S + (n % S)
  BY DivMod
<1> DEFINE q == n \div S
           r == n % S
           m == q * S
<1>2. (m + 0) % S = 0
  BY <1>1, Unique
<1>3. n = m + r /\ r \in 0 .. S - 1
  BY <1>1
<1>4. m \in Nat
  BY <1>1
<1> HIDE DEF m, r
<1>5. n - r = m /\ n - r \in Nat /\ n - r <= n /\ n < n - r + S /\ (n - r) % S = 0
  BY <1>2, <1>3, <1>4
<1> QED BY <1>5 DEF r, m

\* The next multiple.
LEMMA NextMultiple ==
  ASSUME NEW n \in Nat, NEW S \in Nat \ {0}, n % S = 0
  PROVE  /\ (n + S) % S = 0
         /\ \A j \in 0 .. S - 1 : (n + j) \div S = n \div S
<1> DEFINE q == n \div S
<1>1. q \in Nat /\ n = q * S
  BY DivMod
<1>2. n + S = (q + 1) * S + 0
  BY <1>1
<1>3. (n + S) % S = 0
  BY <1>1, <1>2, Unique
<1>4. ASSUME NEW j \in 0 .. S - 1 PROVE (n + j) \div S = q
  BY <1>1, Unique
<1> QED BY <1>3, <1>4

\* Two multiples are at least a sector apart.
LEMMA Apart ==
  ASSUME NEW a \in Nat, NEW b \in Nat, NEW S \in Nat \ {0},
         a % S = 0, b % S = 0, a < b
  PROVE  a + S <= b
<1>1. /\ a \div S \in Nat /\ a = (a \div S) * S
      /\ b \div S \in Nat /\ b = (b \div S) * S
  BY DivMod
<1> DEFINE p == a \div S
           q == b \div S
<1>2. p \in Nat /\ q \in Nat /\ a = p * S /\ b = q * S
  BY <1>1
<1> HIDE DEF p, q
<1>3. ~(q <= p)
  BY <1>2, TimesMono
<1>4. p + 1 \in Nat /\ p + 1 <= q
  BY <1>2, <1>3
<1>5. (p + 1) * S <= q * S
  BY <1>2, <1>4, TimesMono
<1> QED BY <1>2, <1>5, TimesSucc

\* Rounding down a multiple leaves it.
LEMMA OnlyMultiple ==
  ASSUME NEW a \in Nat, NEW b \in Nat, NEW S \in Nat \ {0},
         a % S = 0, b % S = 0, a <= b, b < a + S
  PROVE  a = b
<1>1. a < b => a + S <= b
  BY Apart
<1> QED BY <1>1

\* Rounding down does not pass a multiple.
LEMMA StaysAbove ==
  ASSUME NEW a \in Nat, NEW b \in Nat, NEW c \in Nat, NEW S \in Nat \ {0},
         a % S = 0, b % S = 0, b <= c, c < a + S
  PROVE  b <= a
<1>1. a < b => a + S <= b
  BY Apart
<1> QED BY <1>1

-----------------------------------------------------------------------------
(* The invariant                                                           *)

\* What readseg's caller asked for: the headers, or the segment ph.
Start == IF ph = 0 THEN ELFHDR ELSE image.segs[ph].pa
Size == IF ph = 0 THEN HDRSECTS * SECTSIZE ELSE image.segs[ph].memsz
From == IF ph = 0 THEN 0 ELSE image.segs[ph].offset

Loading == pc \in {"readseg", "insl"}
Entering == pc \in {"entry", "jump", "relocated"}

Shape ==
  /\ image \in Images
  /\ pc \in {"seta20.1", "seta20.2", "protcseg", "readseg", "insl", "bad",
             "entry", "jump", "relocated", "running"}
  /\ eip \in 0 .. W - 1 /\ paging \in BOOLEAN /\ a20 \in BOOLEAN
  /\ mem \in [0 .. MEMSIZE - 1 -> Int]
  /\ disk \in [busy : BOOLEAN, sector : Nat, buffer : Nat]
  /\ ph \in 0 .. Len(image.segs)
  /\ pa \in 0 .. MEMSIZE /\ end_pa \in 0 .. MEMSIZE
  /\ offset \in Nat \ {0}

\* Where the processor fetches.
Fetch ==
  /\ paging <=> pc \in {"jump", "relocated", "running"}
  /\ pc = "entry" => eip = image.entry
  /\ pc = "jump" => eip = image.entry + 1
  /\ pc = "relocated" => eip = KERNBASE + image.entry + 2

\* The byte that opens the gate is on its way, and has arrived when the disk
\* answers the first command.
Gate ==
  /\ kbc \in [full : BOOLEAN, byte : {"none", "0xd1", "0xdf"}, command : BOOLEAN]
  /\ pc = "seta20.2" => IF kbc.full THEN kbc.byte = "0xd1" ELSE kbc.command
  /\ pc \notin {"seta20.1", "seta20.2"} =>
       a20 \/ (kbc.full /\ kbc.byte = "0xdf" /\ kbc.command)
  /\ pc = "insl" /\ ~disk.busy => a20
  /\ Loading /\ (ph > 0 \/ pa > ELFHDR) => a20
  /\ Entering \/ pc = "running" => a20

\* The position on the disk of the next sector.
Position == offset * SECTSIZE

\* readseg stands at the beginning of a sector, and the next sector of the disk
\* is the one that belongs there.
Reading ==
  /\ pc \in {"seta20.1", "seta20.2", "protcseg"} => ph = 0
  /\ Loading =>
       /\ pa % SECTSIZE = 0 /\ Start < pa + SECTSIZE
       /\ end_pa = Start + Size /\ pa < end_pa + SECTSIZE
       /\ Position = pa - Start + From + SECTSIZE
       /\ pa < end_pa => pa >= IF ph = 0 THEN ELFHDR ELSE A20
       /\ pc = "insl" => /\ pa < end_pa
                         /\ IF disk.busy THEN disk.sector = offset
                                         ELSE disk.buffer = offset

\* How often panic was called and printed.
Counts ==
  /\ panics \in Nat /\ messages \in Nat
  /\ messages <= panics /\ panics <= MaxPanics
  /\ pc # "running" => panics = 0

\* What holds however fast the disk is.
Core == Shape /\ Fetch /\ Reading /\ Counts

InPlace(n) ==
  \A k \in 0 .. image.segs[n].memsz - 1 : Held(image.segs[n], k)

BesideStack(n) ==
  \A k \in 0 .. image.segs[n].memsz - 1 :
    image.segs[n].pa + k \notin Bootstack => Held(image.segs[n], k)

\* What has been read is in memory, and stays there but for the kernel's stack.
Memory ==
  /\ pc \in {"seta20.1", "seta20.2", "protcseg", "readseg", "insl"} =>
       \A a \in LOADER : mem[a] = Code
  /\ Loading =>
       /\ \A a \in Start .. Start + Size - 1 :
            a < pa => mem[a] = FileByte(image, From + (a - Start))
       /\ ph > 0 => \A a \in Headers : mem[a] = FileByte(image, a - ELFHDR)
       /\ \A n \in 1 .. ph - 1 : InPlace(n)
  /\ Entering => \A n \in DOMAIN image.segs : BesideStack(n)
  /\ pc = "entry" => \A n \in DOMAIN image.segs : InPlace(n)
  /\ KernelStartsClean

\* panic marks what it has printed.
Speaking ==
  /\ PanicSpeaksOnce
  /\ pc = "running" =>
       mem[image.panicstr] = IF panics = 0 THEN Zero ELSE Message

IInv == Core /\ Gate /\ Memory /\ Speaking

\* boot.S relies on this: no sector arrives while the controller still holds a
\* byte.
Timely == DiskReady => ~kbc.full

-----------------------------------------------------------------------------
(* Sizes and addresses                                                     *)

HeaderBytes == HDRSECTS * SECTSIZE

\* The sizes of the machine.
LEMMA Sizes ==
  /\ SECTSIZE \in Nat \ {0} /\ HeaderBytes \in Nat /\ HeaderBytes >= SECTSIZE
  /\ HeaderBytes % SECTSIZE = 0
  /\ ELFHDR \in Nat /\ A20 \in Nat /\ MEMSIZE \in Nat /\ ELFHDR % SECTSIZE = 0
  /\ A20 % SECTSIZE = 0
  /\ ELFHDR + HeaderBytes <= A20 /\ A20 <= MEMSIZE /\ MEMSIZE <= 2 * A20
  /\ W \in Nat /\ KERNBASE \in Nat /\ PTSPAN \in Nat
  /\ MEMSIZE <= PTSPAN /\ PTSPAN <= KERNBASE /\ KERNBASE + PTSPAN <= W
  /\ MEMSIZE < W /\ WORD \in Nat \ {0}
<1>1. SECTSIZE \in Nat \ {0} /\ HDRSECTS \in Nat \ {0} /\ 1 <= HDRSECTS
  BY BootAssumption
<1>2. HeaderBytes \in Nat
  BY <1>1 DEF HeaderBytes
<1>3. 1 * SECTSIZE <= HDRSECTS * SECTSIZE
  BY <1>1, TimesMono
<1>4. HeaderBytes >= SECTSIZE
  BY <1>1, <1>3 DEF HeaderBytes
<1>5. (HDRSECTS * SECTSIZE + 0) % SECTSIZE = 0
  BY <1>1, Unique
<1>6. HeaderBytes % SECTSIZE = 0
  BY <1>1, <1>5 DEF HeaderBytes
<1>7. /\ ELFHDR \in Nat /\ A20 \in Nat /\ MEMSIZE \in Nat
      /\ ELFHDR + HeaderBytes <= A20 /\ A20 <= MEMSIZE /\ MEMSIZE <= 2 * A20
      /\ W \in Nat /\ KERNBASE \in Nat /\ PTSPAN \in Nat
      /\ MEMSIZE <= PTSPAN /\ PTSPAN <= KERNBASE /\ KERNBASE + PTSPAN <= W
  BY BootAssumption DEF HeaderBytes
<1>8. MEMSIZE < W
  BY <1>1, <1>2, <1>4, <1>7
<1> QED BY <1>1, <1>2, <1>4, <1>6, <1>7, <1>8, BootAssumption

\* The boot sector lies below the gated address bit, beside the headers.
LEMMA LoaderPlace ==
  ASSUME NEW a \in LOADER
  PROVE  /\ a \in Nat /\ a < A20
         /\ ~(ELFHDR <= a /\ a < ELFHDR + HeaderBytes)
BY Sizes, BootAssumption DEF HeaderBytes

\* The segments of a kernel.
LEMMA Segments ==
  ASSUME NEW img \in Images
  PROVE  /\ Len(img.segs) \in Nat /\ Len(img.segs) >= 1
         /\ DOMAIN img.segs = 1 .. Len(img.segs)
         /\ \A n \in 1 .. Len(img.segs) :
              /\ img.segs[n].pa \in Nat /\ img.segs[n].memsz \in Nat
              /\ img.segs[n].offset \in Nat
              /\ \/ img.segs[n].pa >= A20
                 \/ img.segs[n].memsz = 0 /\ img.segs[n].pa % SECTSIZE = 0
              /\ img.segs[n].pa + img.segs[n].memsz <= MEMSIZE - SECTSIZE
              /\ img.segs[n].pa % SECTSIZE = img.segs[n].offset % SECTSIZE
<1>1. Image(img)
  BY BootAssumption
<1>2. img.segs \in Seq(Segment)
  BY <1>1 DEF Image
<1>3. Len(img.segs) \in Nat /\ DOMAIN img.segs = 1 .. Len(img.segs)
  BY <1>2
<1>4. \A n \in 1 .. Len(img.segs) : img.segs[n] \in Segment
  BY <1>2
<1>5. \E n \in DOMAIN img.segs : TRUE
  BY <1>1 DEF Image
<1>6. Len(img.segs) >= 1
  BY <1>3, <1>5
<1>7. \A n \in 1 .. Len(img.segs) :
         /\ img.segs[n].pa \in Nat /\ img.segs[n].memsz \in Nat
         /\ img.segs[n].offset \in Nat
  BY <1>4 DEF Segment
<1>8. \A n \in 1 .. Len(img.segs) :
         /\ img.segs[n].pa >= A20 \/ (img.segs[n].memsz = 0 /\ img.segs[n].pa % SECTSIZE = 0)
         /\ img.segs[n].pa + img.segs[n].memsz <= MEMSIZE - SECTSIZE
         /\ img.segs[n].pa % SECTSIZE = img.segs[n].offset % SECTSIZE
  BY <1>1, <1>3 DEF Image
<1> QED BY <1>3, <1>6, <1>7, <1>8

\* Two numbers that bound an interval inside another one.
LEMMA Inside ==
  ASSUME NEW a \in Nat, NEW b \in Nat, NEW c \in Nat, NEW n \in Nat,
         a < b, a .. b - 1 \subseteq c .. c + n - 1
  PROVE  c <= a /\ b <= c + n
<1>1. a \in a .. b - 1 /\ b - 1 \in a .. b - 1
  OBVIOUS
<1> QED BY <1>1

\* The numbers of a kernel's variables and of its entry point.
LEMMA Symbols ==
  ASSUME NEW img \in Images
  PROVE  /\ img.magic \in BOOLEAN
         /\ img.entry \in Nat /\ img.edata \in Nat /\ img.end \in Nat
         /\ img.bootstack \in Nat /\ img.bootstacktop \in Nat
         /\ img.globals \in Nat /\ img.panicstr \in Nat
         /\ img.entry + 2 < img.bootstack /\ img.bootstack + WORD <= img.bootstacktop
         /\ img.bootstacktop <= img.edata /\ img.edata <= img.end
         /\ img.end <= img.globals /\ img.globals <= MEMSIZE
         /\ img.edata <= img.panicstr /\ img.panicstr < img.globals
         /\ \E k \in DOMAIN img.segs :
              /\ img.segs[k].pa <= img.bootstack
              /\ img.globals <= img.segs[k].pa + img.segs[k].memsz
<1> DEFINE bootstack == img.bootstack
           top == img.bootstacktop
           edata == img.edata
           end == img.end
           globals == img.globals
<1>1. Image(img)
  BY BootAssumption
<1>2. /\ img.panicstr \in edata .. globals - 1
      /\ bootstack \in Nat /\ top \in Nat /\ edata \in Nat /\ end \in Nat /\ globals \in Nat
      /\ bootstack + WORD <= top /\ top <= edata /\ edata <= end /\ end <= globals
  BY <1>1 DEF Image
<1>3. PICK k \in DOMAIN img.segs : bootstack .. globals - 1 \subseteq Span(img.segs[k])
  BY <1>1 DEF Image
<1> DEFINE p == img.segs[k].pa
           size == img.segs[k].memsz
<1>4. p \in Nat /\ size \in Nat /\ p + size <= MEMSIZE - SECTSIZE
  BY <1>3, Segments
<1>5. bootstack .. globals - 1 \subseteq p .. p + size - 1
  BY <1>3 DEF Span
<1> HIDE DEF bootstack, top, edata, end, globals, p, size
<1>6. bootstack < globals
  BY <1>2, Sizes
<1>7. p <= bootstack /\ globals <= p + size
  BY <1>2, <1>4, <1>5, <1>6, Inside
<1>8. globals <= MEMSIZE
  BY <1>2, <1>4, <1>7, Sizes
<1>9. edata <= img.panicstr /\ img.panicstr < globals
  BY <1>2
<1> QED BY <1>1, <1>3, <1>7, <1>8, <1>9 DEF Image, bootstack, top, edata, end, globals, p, size

\* What readseg is asked for.
LEMMA Asked ==
  ASSUME Shape
  PROVE  /\ Start \in Nat /\ Size \in Nat /\ From \in Nat
         /\ Start % SECTSIZE = From % SECTSIZE
         /\ Start + Size <= MEMSIZE - SECTSIZE
         /\ ph = 0 => /\ Start = ELFHDR /\ Size = HeaderBytes /\ From = 0
                      /\ Start + Size <= A20
         /\ ph > 0 /\ Size > 0 => Start >= A20
<1>1. image \in Images /\ ph \in 0 .. Len(image.segs)
  BY DEF Shape
<1>2. Len(image.segs) >= 1 /\ Len(image.segs) \in Nat
  BY <1>1, Segments
<1>3. A20 <= MEMSIZE - SECTSIZE
  <2>1. PICK k \in DOMAIN image.segs :
          /\ image.segs[k].pa <= image.bootstack
          /\ image.globals <= image.segs[k].pa + image.segs[k].memsz
    BY <1>1, Symbols
  <2> DEFINE p == image.segs[k].pa
             size == image.segs[k].memsz
             bootstack == image.bootstack
             top == image.bootstacktop
             edata == image.edata
             end == image.end
             globals == image.globals
  <2>2. /\ p \in Nat /\ size \in Nat /\ p + size <= MEMSIZE - SECTSIZE
        /\ size > 0 => p >= A20
    BY <1>1, <2>1, Segments
  <2>3. /\ bootstack \in Nat /\ top \in Nat /\ edata \in Nat /\ end \in Nat /\ globals \in Nat
        /\ bootstack + WORD <= top /\ top <= edata /\ edata <= end /\ end <= globals
        /\ p <= bootstack /\ globals <= p + size
    BY <1>1, <2>1, Symbols
  <2> HIDE DEF p, size, bootstack, top, edata, end, globals
  <2>4. size > 0
    BY <2>2, <2>3, Sizes
  <2> QED BY <2>2, <2>4, Sizes
<1>4. CASE ph = 0
  <2>1. 0 % SECTSIZE = 0
    BY Sizes
  <2> QED BY <1>3, <1>4, <2>1, Sizes DEF Start, Size, From, HeaderBytes
<1>5. CASE ph # 0
  <2>1. ph \in 1 .. Len(image.segs) /\ ph > 0
    BY <1>1, <1>2, <1>5
  <2> QED BY <1>1, <1>5, <2>1, Segments DEF Start, Size, From
<1> QED BY <1>4, <1>5

\* An address that the bus passes unchanged.
LEMMA WirePlain ==
  ASSUME NEW a \in Nat, a < MEMSIZE, a20 \/ a < A20
  PROVE  Wire(a) = a
<1>1. CASE a20
  BY <1>1 DEF Wire
<1>2. CASE a < A20
  <2>1. A20 \in Nat \ {0}
    BY <1>2, Sizes
  <2>2. a \in 0 .. A20 - 1
    BY <1>2, <2>1
  <2>3. a \div A20 = 0
    BY <2>1, <2>2, Small
  <2>4. A20 * ((a \div A20) % 2) = 0
    BY <2>1, <2>3
  <2> QED BY <2>4 DEF Wire
<1> QED BY <1>1, <1>2

\* readseg's first three lines.
LEMMA ReadsegStarts ==
  ASSUME NEW p \in Nat, NEW count \in Nat, NEW off \in Nat,
         p + count < W, p % SECTSIZE = off % SECTSIZE, Readseg(p, count, off)
  PROVE  /\ pa' \in Nat /\ pa' <= p /\ p < pa' + SECTSIZE /\ pa' % SECTSIZE = 0
         /\ end_pa' = p + count
         /\ offset' \in Nat \ {0}
         /\ Position' = pa' - p + off + SECTSIZE
<1> DEFINE S == SECTSIZE
           q == off \div S
           m == q * S
<1>1. S \in Nat \ {0} /\ W \in Nat
  BY Sizes
<1>2. pa' = p - (p % S) /\ end_pa' = (p + count) % W /\ offset' = q + 1
  BY DEF Readseg
<1>3. q \in Nat /\ off % S \in 0 .. S - 1 /\ off = m + (off % S)
  BY <1>1, DivMod
<1>4. /\ p - (p % S) \in Nat /\ p - (p % S) <= p
      /\ p < p - (p % S) + S /\ (p - (p % S)) % S = 0
  BY <1>1, RoundDown
<1>5. end_pa' = p + count
  <2>1. W \in Nat \ {0} /\ p + count \in 0 .. W - 1
    BY <1>1
  <2> QED BY <1>2, <2>1, Small
<1>6. offset' * S = m + S
  BY <1>1, <1>2, <1>3, TimesSucc
<1>7. m \in Nat /\ p % S \in 0 .. S - 1
  BY <1>1, <1>3, DivMod
<1> HIDE DEF m, S, q
<1>8. Position' = pa' - p + off + S
  <2>1. Position' = m + S
    BY <1>6 DEF Position, S
  <2>2. pa' = p - (p % S) /\ p % S = off % S
    BY <1>2 DEF S
  <2>3. p % S \in Int /\ off = m + (off % S) /\ m \in Nat
    BY <1>3, <1>7
  <2> DEFINE r == p % S
  <2>4. pa' = p - r /\ r \in Int /\ off = m + r
    BY <2>2, <2>3
  <2> HIDE DEF r
  <2> QED BY <1>1, <2>1, <2>3, <2>4
<1>9. offset' \in Nat \ {0}
  BY <1>2, <1>3
<1> QED BY <1>2, <1>4, <1>5, <1>8, <1>9 DEF S

\* Where a sector that belongs to the segment ph meets another segment, both
\* take the same bytes from the file.
LEMMA Shared ==
  ASSUME Shape, ph > 0, NEW n \in 1 .. Len(image.segs), NEW a \in Nat,
         pa % SECTSIZE = 0, Start < pa + SECTSIZE, pa < Start + Size,
         pa <= a, a < pa + SECTSIZE,
         image.segs[n].pa <= a, a < image.segs[n].pa + image.segs[n].memsz
  PROVE  Start - From = image.segs[n].pa - image.segs[n].offset
<1> DEFINE s == image.segs[ph]
           t == image.segs[n]
           S == SECTSIZE
           x == pa \div S
<1>1. /\ S \in Nat \ {0} /\ image \in Images
      /\ ph \in 1 .. Len(image.segs) /\ pa \in Nat /\ A20 \in Nat
      /\ Len(image.segs) \in Nat
  BY Sizes, Segments DEF Shape
<1>2. Start = s.pa /\ Size = s.memsz /\ From = s.offset
  BY <1>1 DEF Start, Size, From
<1>3. /\ s.pa \in Nat /\ s.memsz \in Nat
      /\ t.pa \in Nat /\ t.memsz \in Nat
  BY <1>1, Segments
<1>4. \A j \in 0 .. S - 1 : (pa + j) \div S = x
  BY <1>1, NextMultiple
<1>5. pa + (S - 1) \in Nat /\ S - 1 \in 0 .. S - 1
  BY <1>1
<1>6. (pa + (S - 1)) \div S = x
  BY <1>4, <1>5
<1>7. ASSUME NEW b \in Nat, NEW c \in Nat, b <= pa + (S - 1), pa < b + c \/ a < b + c
      PROVE  x \in b \div S .. (b + c - 1) \div S
  <2>1. b + c - 1 \in Nat /\ pa <= b + c - 1
    BY <1>1, <1>7
  <2>2. b \div S <= (pa + (S - 1)) \div S
    BY <1>1, <1>5, <1>7, DivMono
  <2>3. x <= (b + c - 1) \div S
    BY <1>1, <2>1, DivMono
  <2>4. x \in Nat /\ b \div S \in Nat /\ (b + c - 1) \div S \in Nat
    BY <1>1, <2>1, DivMod
  <2> HIDE DEF x
  <2> QED BY <1>6, <2>2, <2>3, <2>4
<1>8. x \in Sectors(s)
  <2>1. s.pa <= pa + (S - 1) /\ pa < s.pa + s.memsz
    BY <1>1, <1>2, <1>3
  <2> QED BY <1>3, <1>7, <2>1 DEF Sectors
<1>9. x \in Sectors(t)
  <2>1. t.pa <= pa + (S - 1) /\ a < t.pa + t.memsz
    BY <1>1, <1>3
  <2> QED BY <1>3, <1>7, <2>1 DEF Sectors
<1>10. Image(image) /\ DOMAIN image.segs = 1 .. Len(image.segs)
  BY <1>1, Segments, BootAssumption
<1>11. Sectors(s) \cap Sectors(t) # {} => s.pa - s.offset = t.pa - t.offset
  BY <1>1, <1>10 DEF Image
<1>12. Sectors(s) \cap Sectors(t) # {}
  BY <1>8, <1>9
<1> QED BY <1>2, <1>11, <1>12

-----------------------------------------------------------------------------
(* The devices and boot.S                                                  *)

\* The controller takes a byte, or the disk has read a sector.
LEMMA DevicesCore ==
  ASSUME Core, KbcTakes \/ DiskReady
  PROVE  Core'
<1> USE DEF Core, Loading
<1>1. UNCHANGED <<image, pc, cpu, mem, readseg, kernel>>
  BY DEF KbcTakes, DiskReady
<1>2. Fetch' /\ Counts'
  BY <1>1 DEF Fetch, Counts, cpu, kernel
<1>3. CASE KbcTakes
  <2>1. a20' \in BOOLEAN /\ disk' = disk
    BY <1>3 DEF KbcTakes, Shape
  <2> QED BY <1>1, <1>2, <2>1 DEF Shape, Reading, Position, Start, Size, From, cpu, readseg
<1>4. CASE DiskReady
  <2>1. /\ disk' = [disk EXCEPT !.busy = FALSE, !.buffer = disk.sector]
        /\ disk.busy /\ a20' = a20
    BY <1>4 DEF DiskReady, gate
  <2>2. /\ disk' \in [busy : BOOLEAN, sector : Nat, buffer : Nat]
        /\ ~disk'.busy /\ disk'.buffer = disk.sector
    BY <2>1 DEF Shape
  <2>3. Shape'
    BY <1>1, <2>1, <2>2 DEF Shape, cpu, readseg
  <2>4. Reading'
    BY <1>1, <2>1, <2>2 DEF Reading, Position, Start, Size, From, readseg
  <2> QED BY <1>2, <2>3, <2>4
<1> QED BY <1>3, <1>4

\* The gate is open when the disk answers, if it does so in time.
LEMMA DevicesStep ==
  ASSUME IInv, Timely, KbcTakes \/ DiskReady
  PROVE  IInv'
<1> USE DEF IInv, Loading, Entering
<1>1. UNCHANGED <<image, pc, cpu, mem, readseg, kernel>>
  BY DEF KbcTakes, DiskReady
<1>2. Core'
  BY DevicesCore
<1>3. Memory' /\ Speaking'
  BY <1>1 DEF Memory, Speaking, InPlace, BesideStack, Held, KernelStartsClean,
              PanicSpeaksOnce, Bootstack, Start, Size, From, Headers, readseg, kernel
<1>4. CASE KbcTakes
  <2>1. /\ kbc' = [kbc EXCEPT !.full = FALSE, !.command = (kbc.byte = "0xd1")]
        /\ a20' = (a20 \/ (kbc.byte = "0xdf" /\ kbc.command))
        /\ disk' = disk /\ kbc.full
    BY <1>4 DEF KbcTakes
  <2>2. /\ kbc' \in [full : BOOLEAN, byte : {"none", "0xd1", "0xdf"}, command : BOOLEAN]
        /\ ~kbc'.full /\ kbc'.byte = kbc.byte /\ kbc'.command = (kbc.byte = "0xd1")
    BY <2>1 DEF Gate
  <2>3. kbc.full \in BOOLEAN /\ kbc.command \in BOOLEAN
    BY DEF Gate
  <2>4. a20' \in BOOLEAN /\ (a20 => a20')
    BY <2>1, <2>3 DEF Core, Shape
  <2> QED BY <1>1, <1>2, <1>3, <2>1, <2>2, <2>4 DEF Gate, readseg
<1>5. CASE DiskReady
  <2>1. /\ disk' = [disk EXCEPT !.busy = FALSE, !.buffer = disk.sector]
        /\ ~kbc.full /\ UNCHANGED <<kbc, a20>>
    BY <1>5 DEF DiskReady, Timely, gate
  <2> QED BY <1>1, <1>2, <1>3, <2>1 DEF Gate, readseg
<1> QED BY <1>4, <1>5

\* The two bytes that boot.S sends to the controller.
LEMMA SetA20Core ==
  ASSUME Core, SetA20Command \/ SetA20Data
  PROVE  Core'
<1>1. /\ UNCHANGED <<image, cpu, a20, mem, disk, readseg, kernel>>
      /\ pc \in {"seta20.1", "seta20.2"} /\ pc' \in {"seta20.2", "protcseg"}
  BY DEF SetA20Command, SetA20Data, Goto
<1> QED BY <1>1 DEF Core, Shape, Fetch, Reading, Counts, Loading, cpu, readseg, kernel

\* The second byte follows the command that the controller has taken.
LEMMA SetA20Step ==
  ASSUME IInv, SetA20Command \/ SetA20Data
  PROVE  IInv'
<1> USE DEF IInv, Loading, Entering
<1>1. /\ UNCHANGED <<image, cpu, a20, mem, disk, readseg, kernel>>
      /\ pc \in {"seta20.1", "seta20.2"} /\ pc' \in {"seta20.2", "protcseg"}
  BY DEF SetA20Command, SetA20Data, Goto
<1>2. Core'
  BY SetA20Core
<1>3. Memory' /\ Speaking'
  BY <1>1 DEF Memory, Speaking, KernelStartsClean, PanicSpeaksOnce, kernel
<1>4. CASE SetA20Command
  <2>1. kbc' = [kbc EXCEPT !.full = TRUE, !.byte = "0xd1"] /\ pc' = "seta20.2"
    BY <1>4 DEF SetA20Command, Goto
  <2>2. /\ kbc' \in [full : BOOLEAN, byte : {"none", "0xd1", "0xdf"}, command : BOOLEAN]
        /\ kbc'.full /\ kbc'.byte = "0xd1"
    BY <2>1 DEF Gate
  <2> QED BY <1>2, <1>3, <2>1, <2>2 DEF Gate
<1>5. CASE SetA20Data
  <2>1. /\ kbc' = [kbc EXCEPT !.full = TRUE, !.byte = "0xdf"] /\ pc' = "protcseg"
        /\ pc = "seta20.2" /\ ~kbc.full
    BY <1>5 DEF SetA20Data, Goto
  <2>2. kbc.command
    BY <2>1 DEF Gate
  <2>3. /\ kbc' \in [full : BOOLEAN, byte : {"none", "0xd1", "0xdf"}, command : BOOLEAN]
        /\ kbc'.full /\ kbc'.byte = "0xdf" /\ kbc'.command = kbc.command
    BY <2>1 DEF Gate
  <2> QED BY <1>2, <1>3, <2>1, <2>2, <2>3 DEF Gate
<1> QED BY <1>4, <1>5

-----------------------------------------------------------------------------
(* main.c                                                                  *)

\* bootmain asks for the headers.
LEMMA BootmainCore ==
  ASSUME Core, Bootmain
  PROVE  /\ Core'
         /\ pa' = ELFHDR /\ Start' = ELFHDR /\ Size' = HeaderBytes
<1> USE DEF Core, Loading
<1>1. /\ UNCHANGED <<image, cpu, gate, mem, disk, kernel>>
      /\ pc = "protcseg" /\ pc' = "readseg" /\ ph' = 0
      /\ Readseg(ELFHDR, HeaderBytes, 0)
  BY DEF Bootmain, Goto, HeaderBytes
<1>2. /\ pa' \in Nat /\ pa' <= ELFHDR /\ ELFHDR < pa' + SECTSIZE /\ pa' % SECTSIZE = 0
      /\ end_pa' = ELFHDR + HeaderBytes
      /\ offset' \in Nat \ {0}
      /\ Position' = pa' - ELFHDR + 0 + SECTSIZE
  <2>1. 0 % SECTSIZE = 0
    BY Sizes
  <2> QED BY <1>1, <2>1, Sizes, ReadsegStarts
<1>3. pa' = ELFHDR
  <2>1. pa' \in Nat /\ pa' <= ELFHDR /\ ELFHDR < pa' + SECTSIZE /\ pa' % SECTSIZE = 0
    BY <1>2
  <2> QED BY <2>1, Sizes, OnlyMultiple
<1>4. Start' = ELFHDR /\ Size' = HeaderBytes /\ From' = 0
  BY <1>1 DEF Start, Size, From, HeaderBytes
<1>5. Len(image.segs) \in Nat
  BY Segments DEF Shape
<1>6. Shape'
  BY <1>1, <1>2, <1>3, <1>5, Sizes DEF Shape, cpu, gate
<1>7. Fetch' /\ Counts'
  BY <1>1 DEF Fetch, Counts, cpu, kernel
<1>8. Reading'
  <2>1. /\ Start' < pa' + SECTSIZE /\ end_pa' = Start' + Size'
        /\ pa' < end_pa' + SECTSIZE
        /\ Position' = pa' - Start' + From' + SECTSIZE
    BY <1>2, <1>3, <1>4, Sizes
  <2> QED BY <1>1, <1>2, <1>3, <2>1 DEF Reading
<1> QED BY <1>3, <1>4, <1>6, <1>7, <1>8

\* Nothing of the headers is there yet.
LEMMA BootmainStep ==
  ASSUME IInv, Bootmain
  PROVE  IInv'
<1> USE DEF IInv, Loading, Entering
<1>1. /\ UNCHANGED <<image, cpu, gate, mem, disk, kernel>>
      /\ pc = "protcseg" /\ pc' = "readseg" /\ ph' = 0
  BY DEF Bootmain, Goto
<1>2. Core' /\ pa' = ELFHDR /\ Start' = ELFHDR /\ Size' = HeaderBytes
  BY BootmainCore
<1>3. Gate' /\ Speaking'
  BY <1>1, <1>2, Sizes DEF Gate, Speaking, PanicSpeaksOnce, gate, kernel
<1>4. Memory'
  <2>1. \A a \in Start' .. Start' + Size' - 1 : ~(a < pa')
    BY <1>2, Sizes
  <2>2. \A n \in 1 .. ph' - 1 : FALSE
    BY <1>1
  <2> QED BY <1>1, <2>1, <2>2 DEF Memory, KernelStartsClean
<1> QED BY <1>2, <1>3, <1>4

\* readsect sends the number of the sector.
LEMMA ReadCommandCore ==
  ASSUME Core, ReadCommand
  PROVE  Core' /\ disk'.busy
<1> USE DEF Core, Loading
<1>1. /\ UNCHANGED <<image, cpu, gate, mem, readseg, kernel>>
      /\ pc = "readseg" /\ pc' = "insl" /\ pa < end_pa
      /\ disk' = [disk EXCEPT !.busy = TRUE, !.sector = offset]
  BY DEF ReadCommand, Goto
<1>2. /\ disk' \in [busy : BOOLEAN, sector : Nat, buffer : Nat]
      /\ disk'.busy /\ disk'.sector = offset
  BY <1>1 DEF Shape
<1>3. Shape' /\ Fetch' /\ Counts'
  BY <1>1, <1>2 DEF Shape, Fetch, Counts, cpu, gate, readseg, kernel
<1>4. Reading'
  BY <1>1, <1>2 DEF Reading, Position, Start, Size, From, readseg
<1> QED BY <1>2, <1>3, <1>4

\* Until the disk answers nothing in memory changes.
LEMMA ReadCommandStep ==
  ASSUME IInv, ReadCommand
  PROVE  IInv'
<1> USE DEF IInv, Loading, Entering
<1>1. /\ UNCHANGED <<image, cpu, gate, mem, readseg, kernel>>
      /\ pc = "readseg" /\ pc' = "insl"
  BY DEF ReadCommand, Goto
<1>2. Core' /\ disk'.busy
  BY ReadCommandCore
<1>3. Gate' /\ Speaking'
  BY <1>1, <1>2 DEF Gate, Speaking, PanicSpeaksOnce, gate, readseg, kernel
<1>4. Memory'
  BY <1>1 DEF Memory, InPlace, Held, KernelStartsClean, Start, Size, From, Headers, readseg
<1> QED BY <1>2, <1>3, <1>4

\* A byte of the file is a number.
LEMMA FileBytes ==
  ASSUME NEW img, NEW n \in Int
  PROVE  FileByte(img, n) \in Int
BY Sizes DEF FileByte, Zero

\* Where the sector goes, and what it brings.
LEMMA Written ==
  ASSUME Core, ReadData
  PROVE  /\ a20 => \A a \in 0 .. MEMSIZE - 1 :
                      mem'[a] = IF pa <= a /\ a < pa + SECTSIZE
                                THEN FileByte(image, From + (a - Start)) ELSE mem[a]
         /\ mem' \in [0 .. MEMSIZE - 1 -> Int]
         /\ pa + SECTSIZE <= MEMSIZE
         /\ ph = 0 => pa + SECTSIZE <= end_pa
<1> USE DEF Core
<1> DEFINE At(a, j) == Wire(pa + j) = a
           Hit(a) == \E j \in 0 .. SECTSIZE - 1 : At(a, j)
           From0(a) == CHOOSE j \in 0 .. SECTSIZE - 1 : At(a, j)
<1>1. /\ pc = "insl" /\ ~disk.busy
      /\ mem' = [a \in DOMAIN mem |->
                   IF Hit(a) THEN DiskByte(disk.buffer, From0(a)) ELSE mem[a]]
  BY DEF ReadData, Goto
<1>2. /\ pa % SECTSIZE = 0 /\ pa < end_pa /\ end_pa = Start + Size
      /\ Position = pa - Start + From + SECTSIZE
      /\ disk.buffer = offset
      /\ pa \in Nat /\ offset \in Nat \ {0} /\ DOMAIN mem = 0 .. MEMSIZE - 1
  BY <1>1, Sizes DEF Reading, Loading, Shape
<1>3. Start \in Nat /\ Size \in Nat /\ From \in Nat /\ Start + Size <= MEMSIZE - SECTSIZE
  BY Asked DEF Shape
<1>4. pa + SECTSIZE <= MEMSIZE
  BY <1>2, <1>3, Sizes
<1>5. (offset - 1) * SECTSIZE = pa - Start + From
  <2>1. ((offset - 1) + 1) * SECTSIZE = (offset - 1) * SECTSIZE + SECTSIZE
    BY <1>2, Sizes, TimesSucc
  <2>2. (offset - 1) + 1 = offset /\ (offset - 1) * SECTSIZE \in Int
    BY <1>2, Sizes
  <2> DEFINE x == (offset - 1) * SECTSIZE
  <2>3. x \in Int /\ Position = x + SECTSIZE
    BY <2>1, <2>2 DEF Position
  <2> HIDE DEF x
  <2>4. x = pa - Start + From
    BY <1>2, <1>3, <2>3, Sizes
  <2> QED BY <2>4 DEF x
<1>6. ASSUME a20, NEW a \in 0 .. MEMSIZE - 1
      PROVE  mem'[a] = IF pa <= a /\ a < pa + SECTSIZE
                       THEN FileByte(image, From + (a - Start)) ELSE mem[a]
  <2>1. mem'[a] = IF Hit(a) THEN DiskByte(offset, From0(a)) ELSE mem[a]
    BY <1>1, <1>2
  <2>2. \A j \in 0 .. SECTSIZE - 1 : Wire(pa + j) = pa + j
    <3> TAKE j \in 0 .. SECTSIZE - 1
    <3>1. pa + j \in Nat /\ pa + j < MEMSIZE
      BY <1>2, <1>4, Sizes
    <3> QED BY <1>6, <3>1, WirePlain
  <2>3. \A j \in 0 .. SECTSIZE - 1 : At(a, j) <=> j = a - pa
    BY <1>2, <2>2, Sizes
  <2> HIDE DEF At
  <2>4. CASE pa <= a /\ a < pa + SECTSIZE
    <3>1. a - pa \in 0 .. SECTSIZE - 1
      BY <1>2, <2>4, Sizes
    <3>2. At(a, a - pa)
      BY <2>3, <3>1
    <3>3. From0(a) = a - pa /\ Hit(a)
      BY <2>3, <3>1, <3>2
    <3>4. mem'[a] = DiskByte(offset, a - pa)
      BY <2>1, <3>3
    <3>5. (offset - 1) * SECTSIZE + (a - pa) = From + (a - Start)
      <4> DEFINE x == (offset - 1) * SECTSIZE
      <4>1. x = pa - Start + From
        BY <1>5
      <4> HIDE DEF x
      <4>2. x + (a - pa) = From + (a - Start)
        BY <1>2, <1>3, <4>1
      <4> QED BY <4>2 DEF x
    <3>6. DiskByte(offset, a - pa) = FileByte(image, From + (a - Start))
      BY <3>5 DEF DiskByte
    <3> QED BY <2>4, <3>4, <3>6
  <2>5. CASE ~(pa <= a /\ a < pa + SECTSIZE)
    <3>1. ~Hit(a)
      BY <1>2, <2>3, <2>5, Sizes
    <3> QED BY <2>1, <2>5, <3>1
  <2> QED BY <2>4, <2>5
<1>7. mem' \in [0 .. MEMSIZE - 1 -> Int]
  <2>1. ASSUME NEW a \in 0 .. MEMSIZE - 1
        PROVE  (IF Hit(a) THEN DiskByte(disk.buffer, From0(a)) ELSE mem[a]) \in Int
    <3>1. mem[a] \in Int
      BY DEF Shape
    <3>2. ASSUME Hit(a) PROVE DiskByte(disk.buffer, From0(a)) \in Int
      <4> HIDE DEF At
      <4>1. From0(a) \in 0 .. SECTSIZE - 1
        BY <3>2
      <4> HIDE DEF From0
      <4>2. (offset - 1) * SECTSIZE \in Int
        BY <1>2, Sizes
      <4>3. (disk.buffer - 1) * SECTSIZE + From0(a) \in Int
        BY <1>2, <4>1, <4>2, Sizes
      <4> QED BY <4>3, FileBytes DEF DiskByte
    <3> QED BY <3>1, <3>2
  <2> HIDE DEF Hit, From0
  <2> QED BY <1>1, <1>2, <2>1
<1>8. ph = 0 => pa + SECTSIZE <= end_pa
  <2> SUFFICES ASSUME ph = 0 PROVE pa + SECTSIZE <= end_pa
    OBVIOUS
  <2>1. end_pa = ELFHDR + HeaderBytes
    BY <1>2, Asked DEF Shape
  <2>2. end_pa % SECTSIZE = 0 /\ end_pa \in Nat
    <3>1. /\ ELFHDR = (ELFHDR \div SECTSIZE) * SECTSIZE /\ ELFHDR \div SECTSIZE \in Nat
      BY Sizes, DivMod
    <3> DEFINE q == ELFHDR \div SECTSIZE
    <3>2. q + HDRSECTS \in Nat /\ HDRSECTS \in Nat
      BY <3>1, BootAssumption
    <3>3. ELFHDR + HeaderBytes = (q + HDRSECTS) * SECTSIZE + 0
      BY <3>1, <3>2, Sizes DEF HeaderBytes
    <3> DEFINE x == q + HDRSECTS
    <3>4. x \in Nat /\ ELFHDR + HeaderBytes = x * SECTSIZE + 0
      BY <3>2, <3>3
    <3> HIDE DEF x
    <3>5. (x * SECTSIZE + 0) % SECTSIZE = 0
      <4>1. SECTSIZE \in Nat \ {0} /\ 0 \in 0 .. SECTSIZE - 1 /\ x \in Nat
        BY <3>4, Sizes
      <4> QED BY <4>1, Unique, Zenon
    <3>6. end_pa % SECTSIZE = 0
      BY <2>1, <3>4, <3>5
    <3> QED BY <2>1, <3>6, Sizes
  <2> QED BY <1>2, <2>2, Sizes, Apart
<1> QED BY <1>4, <1>6, <1>7, <1>8

\* A sector is copied to memory, and readseg goes on to the next one.
LEMMA ReadDataCore ==
  ASSUME Core, ReadData
  PROVE  Core' /\ pa' = pa + SECTSIZE
<1> USE DEF Core
<1>1. /\ image' = image /\ cpu' = cpu /\ gate' = gate /\ disk' = disk /\ ph' = ph
      /\ end_pa' = end_pa /\ kernel' = kernel
      /\ pc = "insl" /\ pc' = "readseg" /\ ~disk.busy
      /\ pa' = (pa + SECTSIZE) % W /\ offset' = offset + 1
  BY DEF ReadData, Goto
<1>2. /\ mem' \in [0 .. MEMSIZE - 1 -> Int]
      /\ pa + SECTSIZE <= MEMSIZE
      /\ ph = 0 => pa + SECTSIZE <= end_pa
  BY Written
<1>3. /\ pa % SECTSIZE = 0 /\ Start < pa + SECTSIZE
      /\ end_pa = Start + Size /\ pa < end_pa
      /\ Position = pa - Start + From + SECTSIZE
      /\ pa >= IF ph = 0 THEN ELFHDR ELSE A20
  BY <1>1 DEF Reading, Loading
<1>4. pa \in Nat /\ ph \in Nat /\ Start \in Nat /\ Size \in Nat /\ From \in Nat
  BY Asked, Segments DEF Shape
<1>5. pa' = pa + SECTSIZE
  <2>1. W \in Nat \ {0} /\ pa + SECTSIZE \in 0 .. W - 1
    BY <1>2, <1>4, Sizes
  <2> QED BY <1>1, <2>1, Small
<1>7. Start' = Start /\ Size' = Size /\ From' = From
  BY <1>1 DEF Start, Size, From
<1>8. Shape'
  <2>1. pa' \in 0 .. MEMSIZE
    BY <1>2, <1>4, <1>5, Sizes
  <2>2. offset' \in Nat \ {0}
    BY <1>1 DEF Shape
  <2> QED BY <1>1, <1>2, <2>1, <2>2 DEF Shape, cpu, gate
<1>9. Fetch' /\ Counts'
  BY <1>1 DEF Fetch, Counts, cpu, kernel
<1>11. Reading'
  <2>1. Position' = Position + SECTSIZE
    BY <1>1, Sizes, TimesSucc DEF Position, Shape
  <2>2. pa' % SECTSIZE = 0
    BY <1>3, <1>4, <1>5, Sizes, NextMultiple
  <2>3. /\ Start' < pa' + SECTSIZE /\ pa' < end_pa' + SECTSIZE
        /\ Position' = pa' - Start' + From' + SECTSIZE
        /\ pa' >= IF ph' = 0 THEN ELFHDR ELSE A20
    BY <1>1, <1>3, <1>4, <1>5, <1>7, <2>1, Sizes
  <2> QED BY <1>1, <1>3, <1>7, <2>2, <2>3 DEF Reading
<1> QED BY <1>5, <1>8, <1>9, <1>11

\* The sector completes what readseg was asked for, up to its end, and changes
\* nothing that has to stay.
LEMMA ReadDataStep ==
  ASSUME IInv, ReadData
  PROVE  IInv'
<1> USE DEF IInv, Core
<1>1. /\ image' = image /\ gate' = gate /\ ph' = ph /\ kernel' = kernel
      /\ pc = "insl" /\ pc' = "readseg" /\ ~disk.busy
  BY DEF ReadData, Goto
<1>2. a20 /\ a20' = a20
  BY <1>1 DEF Gate, gate
<1>3. /\ \A a \in 0 .. MEMSIZE - 1 :
           mem'[a] = IF pa <= a /\ a < pa + SECTSIZE
                     THEN FileByte(image, From + (a - Start)) ELSE mem[a]
      /\ pa + SECTSIZE <= MEMSIZE
      /\ ph = 0 => pa + SECTSIZE <= end_pa
  BY <1>2, Written
<1>4. /\ pa % SECTSIZE = 0 /\ Start < pa + SECTSIZE
      /\ end_pa = Start + Size /\ pa < end_pa
      /\ pa >= IF ph = 0 THEN ELFHDR ELSE A20
  BY <1>1 DEF Reading, Loading
<1>5. pa \in Nat /\ ph \in Nat /\ Start \in Nat /\ Size \in Nat /\ From \in Nat
  BY Asked, Segments DEF Shape
<1>6. Core' /\ pa' = pa + SECTSIZE
  BY ReadDataCore
<1>7. Start' = Start /\ Size' = Size /\ From' = From
  BY <1>1 DEF Start, Size, From
<1>8. Gate'
  BY <1>1, <1>2 DEF Gate, Loading, Entering, gate
<1>9. Speaking'
  BY <1>1 DEF Speaking, PanicSpeaksOnce, kernel
<1>10. Memory'
  <2>1. \A a \in LOADER : mem'[a] = Code
    <3> TAKE a \in LOADER
    <3>1. a \in Nat /\ a < A20 /\ ~(ELFHDR <= a /\ a < ELFHDR + HeaderBytes)
      BY LoaderPlace
    <3>2. ph = 0 => end_pa = ELFHDR + HeaderBytes
      BY <1>4, Asked
    <3>3. ~(pa <= a /\ a < pa + SECTSIZE) /\ a \in 0 .. MEMSIZE - 1
      BY <1>3, <1>4, <1>5, <3>1, <3>2, Sizes
    <3>4. mem[a] = Code
      BY <1>1 DEF Memory
    <3> QED BY <1>3, <3>3, <3>4
  <2>2. ASSUME NEW a \in Start .. Start + Size - 1, a < pa'
        PROVE  mem'[a] = FileByte(image, From + (a - Start))
    <3>1. a \in 0 .. MEMSIZE - 1
      BY <1>5, Asked, Sizes
    <3>2. CASE pa <= a
      BY <1>3, <1>5, <1>6, <2>2, <3>1, <3>2
    <3>3. CASE ~(pa <= a)
      <4>1. a < pa
        BY <1>5, <3>1, <3>3
      <4>2. mem[a] = FileByte(image, From + (a - Start))
        BY <1>1, <4>1 DEF Memory, Loading
      <4> QED BY <1>3, <3>1, <3>3, <4>2
    <3> QED BY <3>2, <3>3
  <2>3. ASSUME ph > 0, NEW a \in Headers
        PROVE  mem'[a] = FileByte(image, a - ELFHDR)
    <3>1. a \in 0 .. MEMSIZE - 1 /\ a < A20
      BY Sizes DEF Headers, HeaderBytes
    <3>2. ~(pa <= a)
      BY <1>4, <1>5, <2>3, <3>1, Sizes
    <3>3. mem[a] = FileByte(image, a - ELFHDR)
      BY <1>1, <2>3 DEF Memory, Loading
    <3> QED BY <1>3, <3>1, <3>2, <3>3
  <2>4. ASSUME NEW n \in 1 .. ph - 1 PROVE InPlace(n)'
    <3> DEFINE s == image.segs[n]
    <3>1. /\ ph > 0 /\ n \in 1 .. Len(image.segs)
      BY <1>5, Segments DEF Shape
    <3>2. /\ s.pa \in Nat /\ s.memsz \in Nat /\ s.offset \in Nat
          /\ s.pa + s.memsz <= MEMSIZE - SECTSIZE
      BY <3>1, Segments DEF Shape
    <3>3. ASSUME NEW k \in 0 .. s.memsz - 1
          PROVE  mem'[s.pa + k] = FileByte(image, s.offset + k)
      <4> DEFINE p == s.pa
                 off == s.offset
                 size == s.memsz
                 a == p + k
      <4>1. p \in Nat /\ off \in Nat /\ size \in Nat /\ k \in 0 .. size - 1
            /\ p + size <= MEMSIZE - SECTSIZE
        BY <3>2, <3>3
      <4>2. CASE pa <= a /\ a < pa + SECTSIZE
        <5>1. a \in Nat /\ p <= a /\ a < p + size
          BY <4>1
        <5>2. pa < Start + Size
          BY <1>4
        <5>3. Start - From = p - off
          BY <1>4, <3>1, <4>2, <5>1, <5>2, Shared
        <5> HIDE DEF p, off, size
        <5>4. From + (a - Start) = off + k
          BY <1>5, <4>1, <5>3
        <5>5. a \in 0 .. MEMSIZE - 1
          BY <4>1, Sizes
        <5>6. mem'[a] = FileByte(image, From + (a - Start))
          BY <1>3, <4>2, <5>5
        <5> QED BY <5>4, <5>6 DEF p, off
      <4>3. CASE ~(pa <= a /\ a < pa + SECTSIZE)
        <5>1. mem[a] = FileByte(image, off + k)
          BY <1>1, <3>3 DEF Memory, Loading, InPlace, Held
        <5> HIDE DEF p, off, size
        <5>2. a \in 0 .. MEMSIZE - 1
          BY <4>1, Sizes
        <5>3. mem'[a] = mem[a]
          BY <1>3, <4>3, <5>2
        <5> QED BY <5>1, <5>3 DEF p, off
      <4> QED BY <4>2, <4>3
    <3> QED BY <1>1, <3>3 DEF InPlace, Held
  <2>5. KernelStartsClean'
    BY <1>1 DEF KernelStartsClean
  <2> QED BY <1>1, <1>7, <2>1, <2>2, <2>3, <2>4, <2>5 DEF Memory, Loading, Entering, Headers
<1> QED BY <1>6, <1>8, <1>9, <1>10

\* When readseg returns, what it was asked for is in memory and the gate is open.
LEMMA SegmentDone ==
  ASSUME IInv, SegmentRead
  PROVE  /\ a20
         /\ \A a \in Headers : mem[a] = FileByte(image, a - ELFHDR)
         /\ \A n \in 1 .. ph : InPlace(n)
<1> USE DEF IInv, Core
<1>1. /\ pc = "readseg" /\ pa >= end_pa /\ end_pa = Start + Size
      /\ pa \in Nat /\ ph \in Nat /\ Start \in Nat /\ Size \in Nat /\ From \in Nat
  BY Asked, Segments DEF SegmentRead, Shape, Reading, Loading
<1>2. \A a \in Start .. Start + Size - 1 : mem[a] = FileByte(image, From + (a - Start))
  <2> TAKE a \in Start .. Start + Size - 1
  <2>1. a < pa
    BY <1>1
  <2> QED BY <1>1, <2>1 DEF Memory, Loading
<1>3. a20
  <2>1. ph = 0 => end_pa = ELFHDR + HeaderBytes
    BY <1>1, Asked
  <2>2. ph > 0 \/ pa > ELFHDR
    BY <1>1, <2>1, Sizes
  <2> QED BY <1>1, <2>2 DEF Gate, Loading
<1>4. \A a \in Headers : mem[a] = FileByte(image, a - ELFHDR)
  <2>1. CASE ph = 0
    <3> TAKE a \in Headers
    <3>1. Start = ELFHDR /\ Size = HeaderBytes /\ From = 0
      BY <2>1, Asked
    <3>2. a \in Int /\ a \in Start .. Start + Size - 1
      BY <3>1, Sizes DEF Headers, HeaderBytes
    <3>3. mem[a] = FileByte(image, 0 + (a - ELFHDR)) /\ 0 + (a - ELFHDR) = a - ELFHDR
      BY <1>2, <3>1, <3>2, Sizes
    <3> QED BY <3>3
  <2>2. CASE ph # 0
    BY <1>1, <2>2 DEF Memory, Loading
  <2> QED BY <2>1, <2>2
<1>5. \A n \in 1 .. ph : InPlace(n)
  <2> TAKE n \in 1 .. ph
  <2>1. CASE n = ph
    <3> SUFFICES ASSUME NEW k \in 0 .. image.segs[n].memsz - 1
                 PROVE  mem[image.segs[n].pa + k] = FileByte(image, image.segs[n].offset + k)
      BY DEF InPlace, Held
    <3>1. Start = image.segs[n].pa /\ Size = image.segs[n].memsz /\ From = image.segs[n].offset
      BY <1>1, <2>1 DEF Start, Size, From
    <3>2. k \in 0 .. Size - 1
      BY <3>1
    <3>3. Start + k \in Start .. Start + Size - 1 /\ From + ((Start + k) - Start) = From + k
      BY <1>1, <3>2
    <3>4. mem[Start + k] = FileByte(image, From + k)
      BY <1>2, <3>3
    <3> QED BY <3>1, <3>4
  <2>2. CASE n # ph
    <3>1. n \in 1 .. ph - 1
      BY <1>1, <2>2
    <3> QED BY <1>1, <3>1 DEF Memory, Loading
  <2> QED BY <2>1, <2>2
<1> QED BY <1>3, <1>4, <1>5

\* bootmain asks for the next segment.
LEMMA NextSegmentCore ==
  ASSUME Core, NextSegment
  PROVE  Core' /\ pa' <= Start' /\ Start' \in Nat /\ Size' \in Nat /\ pa' \in Nat
<1> USE DEF Core
<1> DEFINE n == ph + 1
           s == image.segs[n]
           p == s.pa
           size == s.memsz
           off == s.offset
<1>1. /\ image' = image /\ pc' = pc /\ cpu' = cpu /\ gate' = gate /\ mem' = mem
      /\ disk' = disk /\ kernel' = kernel
      /\ pc = "readseg" /\ ph < Len(image.segs) /\ ph' = n /\ Readseg(p, size, off)
  BY DEF NextSegment, SegmentRead
<1>2. ph \in Nat /\ n \in 1 .. Len(image.segs) /\ n > 0
  BY <1>1, Segments DEF Shape
<1>3. /\ p \in Nat /\ size \in Nat /\ off \in Nat
      /\ p >= A20 \/ (size = 0 /\ p % SECTSIZE = 0)
      /\ p + size <= MEMSIZE - SECTSIZE /\ p % SECTSIZE = off % SECTSIZE
  BY <1>2, Segments DEF Shape
<1>4. Start' = p /\ Size' = size /\ From' = off
  BY <1>1, <1>2 DEF Start, Size, From
<1>5. n \in 0 .. Len(image.segs)
  BY <1>2
<1> HIDE DEF n, p, size, off
<1>6. /\ pa' \in Nat /\ pa' <= p /\ p < pa' + SECTSIZE /\ pa' % SECTSIZE = 0
      /\ end_pa' = p + size /\ offset' \in Nat \ {0}
      /\ Position' = pa' - p + off + SECTSIZE
  <2>1. p + size < W
    BY <1>3, Sizes
  <2> QED BY <1>1, <1>3, <2>1, ReadsegStarts
<1>7. p >= A20 => pa' >= A20
  <2> SUFFICES ASSUME p >= A20 PROVE pa' >= A20
    OBVIOUS
  <2>1. pa' \in Nat /\ pa' % SECTSIZE = 0 /\ p < pa' + SECTSIZE
    BY <1>6
  <2> QED BY <1>3, <2>1, Sizes, StaysAbove
<1>8. pa' < end_pa' => pa' >= A20
  <2>1. CASE size = 0 /\ p % SECTSIZE = 0
    <3>1. pa' \in Nat /\ pa' <= p /\ p < pa' + SECTSIZE /\ pa' % SECTSIZE = 0
      BY <1>6
    <3>2. pa' = p
      BY <1>3, <2>1, <3>1, Sizes, OnlyMultiple
    <3> QED BY <1>3, <1>6, <2>1, <3>2
  <2> QED BY <1>3, <1>7, <2>1
<1>9. pa' \in 0 .. MEMSIZE /\ end_pa' \in 0 .. MEMSIZE /\ pa' < end_pa' + SECTSIZE
  BY <1>3, <1>6, Sizes
<1>10. Shape'
  BY <1>1, <1>5, <1>6, <1>9 DEF Shape, cpu, gate
<1>11. Fetch' /\ Counts'
  BY <1>1 DEF Fetch, Counts, cpu, kernel
<1>12. Reading'
  BY <1>1, <1>2, <1>4, <1>6, <1>8, <1>9 DEF Reading, Loading
<1> QED BY <1>3, <1>4, <1>6, <1>10, <1>11, <1>12

\* What has been read stays in memory.
LEMMA NextSegmentStep ==
  ASSUME IInv, NextSegment
  PROVE  IInv'
<1> USE DEF IInv
<1>1. /\ image' = image /\ gate' = gate /\ mem' = mem /\ kernel' = kernel
      /\ pc = "readseg" /\ pc' = pc /\ ph \in Nat /\ ph' = ph + 1
  BY Segments DEF NextSegment, SegmentRead, Core, Shape
<1>2. Core' /\ pa' <= Start' /\ Start' \in Nat /\ Size' \in Nat /\ pa' \in Nat
  BY NextSegmentCore
<1>3. /\ a20 /\ a20' = a20
      /\ \A a \in Headers : mem[a] = FileByte(image, a - ELFHDR)
      /\ \A m \in 1 .. ph : InPlace(m)
  BY <1>1, SegmentDone DEF NextSegment, gate
<1>4. Gate'
  BY <1>1, <1>3 DEF Gate, Loading, Entering, gate
<1>5. Speaking'
  BY <1>1 DEF Speaking, PanicSpeaksOnce, kernel
<1>6. Memory'
  <2>1. \A a \in Start' .. Start' + Size' - 1 : ~(a < pa')
    BY <1>2
  <2>2. \A a \in LOADER : mem'[a] = Code
    BY <1>1 DEF Memory
  <2>3. \A m \in 1 .. ph' - 1 : InPlace(m)'
    <3>1. ph' - 1 = ph
      BY <1>1
    <3> QED BY <1>1, <1>3, <3>1 DEF InPlace, Held
  <2>4. \A a \in Headers' : mem'[a] = FileByte(image', a - ELFHDR)
    BY <1>1, <1>3 DEF Headers
  <2>5. KernelStartsClean'
    BY <1>1 DEF KernelStartsClean
  <2> QED BY <1>1, <2>1, <2>2, <2>3, <2>4, <2>5 DEF Memory, Loading, Entering
<1> QED BY <1>2, <1>4, <1>5, <1>6

\* bootmain gives up.
LEMMA BadImageCore ==
  ASSUME Core, BadImage
  PROVE  Core'
<1>1. /\ UNCHANGED <<image, cpu, gate, mem, disk, readseg, kernel>>
      /\ pc = "readseg" /\ pc' = "bad"
  BY DEF BadImage, Goto
<1> QED BY <1>1 DEF Core, Shape, Fetch, Reading, Counts, Loading, cpu, gate, readseg, kernel

\* Nothing is claimed of the loop after `bad:`.
LEMMA BadImageStep ==
  ASSUME IInv, BadImage
  PROVE  IInv'
<1> USE DEF IInv, Loading, Entering
<1>1. /\ UNCHANGED <<image, cpu, gate, mem, disk, readseg, kernel>>
      /\ pc = "readseg" /\ pc' = "bad"
  BY DEF BadImage, Goto
<1>2. Core'
  BY BadImageCore
<1> QED BY <1>1, <1>2 DEF Gate, Memory, Speaking, KernelStartsClean, PanicSpeaksOnce,
                          gate, readseg, kernel

\* Where the symbols lie.
LEMMA Ordered ==
  ASSUME NEW img \in Images
  PROVE  /\ img.entry \in Nat /\ img.entry + 2 < MEMSIZE
         /\ img.entry + 2 < img.bootstack
         /\ img.bootstack \in 0 .. MEMSIZE /\ img.bootstacktop \in 0 .. MEMSIZE
         /\ img.bootstack <= img.bootstacktop - WORD /\ img.bootstacktop - WORD \in Nat
         /\ img.bootstacktop <= img.edata
         /\ img.edata \in 0 .. MEMSIZE /\ img.end \in 0 .. MEMSIZE
         /\ img.globals \in 0 .. MEMSIZE /\ img.end <= img.globals
         /\ img.panicstr \in img.edata .. img.globals - 1
         /\ img.panicstr \in 0 .. MEMSIZE - 1
<1> DEFINE entry == img.entry
           bootstack == img.bootstack
           top == img.bootstacktop
           edata == img.edata
           end == img.end
           globals == img.globals
           panicstr == img.panicstr
<1>1. /\ entry \in Nat /\ edata \in Nat /\ end \in Nat /\ globals \in Nat
      /\ panicstr \in Nat /\ bootstack \in Nat /\ top \in Nat
      /\ entry + 2 < bootstack /\ bootstack + WORD <= top /\ top <= edata
      /\ edata <= end /\ end <= globals /\ globals <= MEMSIZE
      /\ edata <= panicstr /\ panicstr < globals
  BY Symbols
<1> HIDE DEF entry, bootstack, top, edata, end, globals, panicstr
<1>2. /\ entry \in Nat /\ entry + 2 < MEMSIZE /\ entry + 2 < bootstack
      /\ bootstack \in 0 .. MEMSIZE /\ top \in 0 .. MEMSIZE
      /\ bootstack <= top - WORD /\ top - WORD \in Nat
      /\ top <= edata
      /\ edata \in 0 .. MEMSIZE /\ end \in 0 .. MEMSIZE
      /\ globals \in 0 .. MEMSIZE /\ end <= globals
      /\ panicstr \in edata .. globals - 1 /\ panicstr \in 0 .. MEMSIZE - 1
  BY <1>1, Sizes
<1> QED BY <1>2 DEF entry, bootstack, top, edata, end, globals, panicstr

\* bootmain calls the kernel.
LEMMA CallEntryCore ==
  ASSUME Core, CallEntry
  PROVE  Core'
<1> USE DEF Core, Loading
<1>1. /\ UNCHANGED <<image, paging, gate, mem, disk, readseg, kernel>>
      /\ pc = "readseg" /\ pc' = "entry" /\ eip' = image.entry
  BY DEF CallEntry, SegmentRead
<1>2. image.entry \in 0 .. W - 1
  <2> DEFINE entry == image.entry
  <2>1. entry \in Nat /\ entry + 2 < MEMSIZE
    BY Ordered DEF Shape
  <2> HIDE DEF entry
  <2>2. entry \in 0 .. W - 1
    BY <2>1, Sizes
  <2> QED BY <2>2 DEF entry
<1> QED BY <1>1, <1>2 DEF Shape, Fetch, Reading, Counts, gate, readseg, kernel

\* Everything is in place then.
LEMMA CallEntryStep ==
  ASSUME IInv, CallEntry
  PROVE  IInv'
<1> USE DEF IInv, Loading, Entering
<1>1. /\ UNCHANGED <<image, gate, mem, disk, readseg, kernel>>
      /\ pc = "readseg" /\ pc' = "entry" /\ ph = Len(image.segs)
  BY DEF CallEntry, SegmentRead
<1>2. a20 /\ \A n \in DOMAIN image.segs : InPlace(n)
  BY <1>1, SegmentDone, Segments DEF CallEntry, Core, Shape
<1>3. Core'
  BY CallEntryCore
<1>4. Gate' /\ Speaking'
  BY <1>1, <1>2 DEF Gate, Speaking, PanicSpeaksOnce, gate, kernel
<1>5. Memory'
  BY <1>1, <1>2 DEF Memory, InPlace, BesideStack, Held, KernelStartsClean
<1> QED BY <1>3, <1>4, <1>5

-----------------------------------------------------------------------------
(* entry.S and init.c                                                      *)

\* The page directory leaves the first 4MB where they are.
LEMMA LowAddress ==
  ASSUME NEW va \in Nat, va < PTSPAN
  PROVE  EntryPgdir(va) = va
<1>1. va \notin KERNBASE .. KERNBASE + PTSPAN - 1
  BY Sizes
<1> QED BY <1>1 DEF EntryPgdir

\* With paging and the gate open, what is linked at KERNBASE + a is at a.
LEMMA LinkedThere ==
  ASSUME a20, paging, NEW S, S \subseteq 0 .. MEMSIZE - 1
  PROVE  Linked(S) = S
<1>1. \A a \in S : Wire(EntryPgdir(KERNBASE + a)) = a
  <2> TAKE a \in S
  <2>1. a \in Nat /\ a < MEMSIZE
    <3>1. a \in 0 .. MEMSIZE - 1
      OBVIOUS
    <3> QED BY <3>1, Sizes
  <2>2. ~(KERNBASE + a < PTSPAN) /\ KERNBASE + a \in KERNBASE .. KERNBASE + PTSPAN - 1
        /\ (KERNBASE + a) - KERNBASE = a
    BY <2>1, Sizes
  <2>3. EntryPgdir(KERNBASE + a) = a
    BY <2>2 DEF EntryPgdir
  <2> QED BY <2>1, <2>3, WirePlain
<1> QED BY <1>1 DEF Linked

\* Paging is turned on, and the kernel goes on at its link address.
LEMMA PagingCore ==
  ASSUME Core, TurnOnPaging \/ JumpRelocated
  PROVE  Core'
<1> USE DEF Core, Loading
<1> DEFINE entry == image.entry
<1>1. /\ UNCHANGED <<image, gate, disk, readseg, kernel>>
      /\ \/ pc = "entry" /\ pc' = "jump" /\ eip' = eip + 1 /\ paging'
         \/ pc = "jump" /\ pc' = "relocated" /\ eip' = KERNBASE + entry + 2 /\ paging' = paging
  BY DEF TurnOnPaging, JumpRelocated, Goto, gate
<1>2. entry \in Nat /\ entry + 2 < MEMSIZE
  BY Ordered DEF Shape
<1>3. pc = "entry" => eip = entry
  BY DEF Fetch
<1>4. Fetch'
  BY <1>1, <1>3 DEF Fetch
<1>5. mem' \in [0 .. MEMSIZE - 1 -> Int]
  <2>1. CASE TurnOnPaging
    BY <2>1 DEF TurnOnPaging, Shape
  <2>2. CASE JumpRelocated
    <3> DEFINE top == image.bootstacktop
               word == Linked(top - WORD .. top - 1)
    <3>1. mem' = [a \in DOMAIN mem |-> IF a \in word THEN Frame ELSE mem[a]]
      BY <2>2 DEF JumpRelocated
    <3> HIDE DEF word
    <3> QED BY <3>1 DEF Shape, Frame
  <2> QED BY <2>1, <2>2
<1> HIDE DEF entry
<1>6. eip' \in 0 .. W - 1
  BY <1>1, <1>2, <1>3, Sizes
<1>7. paging' = TRUE
  BY <1>1 DEF Fetch, Shape
<1>8. Shape'
  BY <1>1, <1>5, <1>6, <1>7 DEF Shape, gate, readseg
<1>9. Reading' /\ Counts'
  BY <1>1 DEF Reading, Counts, kernel
<1> QED BY <1>4, <1>8, <1>9

\* Only the stack changes.
LEMMA PagingStep ==
  ASSUME IInv, TurnOnPaging \/ JumpRelocated
  PROVE  IInv'
<1> USE DEF IInv, Loading, Entering
<1>1. /\ UNCHANGED <<image, gate, disk, readseg, kernel>>
      /\ \/ TurnOnPaging /\ pc = "entry" /\ pc' = "jump" /\ mem' = mem
         \/ JumpRelocated /\ pc = "jump" /\ pc' = "relocated"
  BY DEF TurnOnPaging, JumpRelocated, Goto, gate
<1>2. Core'
  BY PagingCore
<1>3. Gate' /\ Speaking'
  BY <1>1 DEF Gate, Speaking, PanicSpeaksOnce, gate, readseg, kernel
<1>4. ASSUME NEW a \in 0 .. MEMSIZE - 1, a \notin Bootstack
      PROVE  mem'[a] = mem[a]
  <2>1. CASE mem' = mem
    BY <2>1
  <2>2. CASE JumpRelocated
    <3> DEFINE bootstack == image.bootstack
               top == image.bootstacktop
               word == top - WORD .. top - 1
    <3>1. /\ bootstack \in 0 .. MEMSIZE /\ top \in 0 .. MEMSIZE
          /\ bootstack <= top - WORD /\ top - WORD \in Nat
      BY Ordered DEF Core, Shape
    <3>2. a20 /\ paging
      BY <2>2 DEF Gate, Fetch, Core, JumpRelocated, Goto
    <3>3. mem' = [b \in DOMAIN mem |-> IF b \in Linked(word) THEN Frame ELSE mem[b]]
          /\ DOMAIN mem = 0 .. MEMSIZE - 1
      BY <2>2 DEF JumpRelocated, Core, Shape
    <3>4. a \notin bootstack .. top - 1
      BY <1>4 DEF Bootstack
    <3> HIDE DEF bootstack, top
    <3>5. word \subseteq 0 .. MEMSIZE - 1 /\ a \notin word
      BY <3>1, <3>4, Sizes
    <3>6. Linked(word) = word
      BY <3>2, <3>5, LinkedThere
    <3> HIDE DEF word
    <3> QED BY <3>3, <3>5, <3>6
  <2> QED BY <1>1, <2>1, <2>2
<1>5. ASSUME NEW n \in DOMAIN image.segs PROVE BesideStack(n)'
  <2> DEFINE p == image.segs[n].pa
             size == image.segs[n].memsz
             off == image.segs[n].offset
  <2> SUFFICES ASSUME NEW k \in 0 .. size - 1, p + k \notin Bootstack
               PROVE  mem'[p + k] = FileByte(image, off + k)
    BY <1>1 DEF BesideStack, Held, Bootstack
  <2>1. p \in Nat /\ size \in Nat /\ p + size <= MEMSIZE - SECTSIZE
    BY Segments DEF Core, Shape
  <2>2. p + k \in 0 .. MEMSIZE - 1
    <3>1. k \in 0 .. size - 1
      OBVIOUS
    <3> HIDE DEF p, size
    <3> QED BY <2>1, <3>1, Sizes
  <2>3. mem[p + k] = FileByte(image, off + k)
    BY <1>1 DEF Memory, BesideStack, Held
  <2> QED BY <1>4, <2>2, <2>3
<1>6. Memory'
  BY <1>1, <1>5 DEF Memory, KernelStartsClean
<1> QED BY <1>2, <1>3, <1>6

\* The variables are loaded as zeros.
LEMMA BssIsZero ==
  ASSUME Shape, NEW k \in DOMAIN image.segs, NEW a \in image.edata .. image.globals - 1,
         image.segs[k].pa <= image.bootstack,
         image.globals <= image.segs[k].pa + image.segs[k].memsz
  PROVE  /\ a - image.segs[k].pa \in 0 .. image.segs[k].memsz - 1
         /\ image.segs[k].pa + (a - image.segs[k].pa) = a
         /\ a \notin Bootstack
         /\ FileByte(image, image.segs[k].offset + (a - image.segs[k].pa)) = Zero
<1> DEFINE p == image.segs[k].pa
           size == image.segs[k].memsz
           off == image.segs[k].offset
           bootstack == image.bootstack
           top == image.bootstacktop
           edata == image.edata
           globals == image.globals
<1>1. p \in Nat /\ size \in Nat /\ off \in Nat
  BY Segments DEF Shape
<1>2. /\ bootstack \in 0 .. MEMSIZE /\ top \in 0 .. MEMSIZE /\ bootstack <= top - WORD
      /\ top <= edata /\ edata \in 0 .. MEMSIZE /\ globals \in 0 .. MEMSIZE
      /\ a \in edata .. globals - 1 /\ p <= bootstack /\ globals <= p + size
  BY Ordered DEF Shape
<1> HIDE DEF p, size, off, bootstack, top, edata, globals
<1>3. a - p \in 0 .. size - 1 /\ p + (a - p) = a /\ a \notin bootstack .. top - 1
  BY <1>1, <1>2, Sizes
<1> DEFINE n == off + (a - p)
<1>4. n \in off .. off + size - 1 /\ p + (n - off) = a
  BY <1>1, <1>3
<1> HIDE DEF n
<1>5. InBss(image, n)
  BY <1>2, <1>4 DEF InBss, p, size, off, edata, globals
<1>6. FileByte(image, n) = Zero
  BY <1>5 DEF FileByte
<1> QED BY <1>3, <1>6 DEF n, p, size, off, Bootstack, bootstack, top

\* i386_init clears the BSS.
LEMMA ClearBssCore ==
  ASSUME Core, ClearBss
  PROVE  Core'
<1> USE DEF Core, Loading
<1> DEFINE cleared == Linked(image.edata .. image.end - 1)
           frames == Linked(Bootstack)
<1>1. /\ UNCHANGED <<image, cpu, gate, disk, readseg, kernel>>
      /\ pc = "relocated" /\ pc' = "running"
      /\ mem' = [a \in DOMAIN mem |-> IF a \in cleared THEN Zero
                                     ELSE IF a \in frames THEN Frame ELSE mem[a]]
  BY DEF ClearBss, Goto
<1> HIDE DEF cleared, frames
<1>2. mem' \in [0 .. MEMSIZE - 1 -> Int]
  BY <1>1 DEF Shape, Zero, Frame
<1> QED BY <1>1, <1>2 DEF Shape, Fetch, Reading, Counts, cpu, gate, readseg, kernel

\* What memset and the stack leave alone is as it was, and the variables behind
\* `end` were loaded as zeros.
LEMMA ClearBssStep ==
  ASSUME IInv, ClearBss
  PROVE  IInv'
<1> USE DEF IInv, Loading, Entering
<1> DEFINE bootstack == image.bootstack
           top == image.bootstacktop
           edata == image.edata
           end == image.end
           globals == image.globals
<1>1. /\ UNCHANGED <<image, cpu, gate, disk, readseg, kernel>>
      /\ pc = "relocated" /\ pc' = "running"
      /\ mem' = [a \in DOMAIN mem |->
                   IF a \in Linked(edata .. end - 1) THEN Zero
                   ELSE IF a \in Linked(Bootstack) THEN Frame ELSE mem[a]]
      /\ image' = image
  BY DEF ClearBss, Goto
<1>2. /\ bootstack \in 0 .. MEMSIZE /\ top \in 0 .. MEMSIZE
      /\ edata \in 0 .. MEMSIZE /\ end \in 0 .. MEMSIZE
      /\ globals \in 0 .. MEMSIZE /\ end <= globals
      /\ image.panicstr \in edata .. globals - 1
      /\ DOMAIN mem = 0 .. MEMSIZE - 1 /\ a20 /\ paging
  BY <1>1, Ordered DEF Core, Shape, Gate, Fetch
<1>3. Bootstack = bootstack .. top - 1
  BY DEF Bootstack
<1> HIDE DEF bootstack, top, edata, end, globals
<1>4. edata .. end - 1 \subseteq 0 .. MEMSIZE - 1 /\ Bootstack \subseteq 0 .. MEMSIZE - 1
  BY <1>2, <1>3, Sizes
<1>5. Linked(edata .. end - 1) = edata .. end - 1 /\ Linked(Bootstack) = Bootstack
  BY <1>2, <1>4, LinkedThere
<1>6. \A a \in 0 .. MEMSIZE - 1 :
         mem'[a] = IF a \in edata .. end - 1 THEN Zero
                   ELSE IF a \in Bootstack THEN Frame ELSE mem[a]
  BY <1>1, <1>2, <1>5
<1>7. \A n \in DOMAIN image.segs : BesideStack(n)
  BY <1>1 DEF Memory
<1>8. ASSUME NEW a \in edata .. globals - 1 PROVE mem'[a] = Zero
  <2>1. a \in 0 .. MEMSIZE - 1
    BY <1>2, Sizes
  <2>2. PICK k \in DOMAIN image.segs :
          /\ image.segs[k].pa <= image.bootstack
          /\ image.globals <= image.segs[k].pa + image.segs[k].memsz
    BY Symbols DEF Core, Shape
  <2> DEFINE p == image.segs[k].pa
             off == image.segs[k].offset
             size == image.segs[k].memsz
  <2>3. /\ a - p \in 0 .. size - 1 /\ p + (a - p) = a /\ a \notin Bootstack
        /\ FileByte(image, off + (a - p)) = Zero
    BY <2>2, BssIsZero DEF Core, edata, globals
  <2>4. \A j \in 0 .. size - 1 : p + j \notin Bootstack => mem[p + j] = FileByte(image, off + j)
    BY <1>7 DEF BesideStack, Held
  <2> HIDE DEF p, off, size
  <2>5. mem[a] = Zero
    BY <2>3, <2>4
  <2> QED BY <1>6, <2>1, <2>3, <2>5
<1>9. ASSUME NEW n \in DOMAIN image.segs, NEW k \in 0 .. image.segs[n].memsz - 1,
             image.segs[n].pa + k \notin Bootstack
      PROVE  mem'[image.segs[n].pa + k] = FileByte(image, image.segs[n].offset + k)
  <2> DEFINE p == image.segs[n].pa
             size == image.segs[n].memsz
             off == image.segs[n].offset
  <2>1. p \in Nat /\ size \in Nat /\ off \in Nat /\ p + size <= MEMSIZE - SECTSIZE
    BY Segments DEF Core, Shape
  <2>2. mem[p + k] = FileByte(image, off + k)
    BY <1>7, <1>9 DEF BesideStack, Held
  <2>3. p + k \in 0 .. MEMSIZE - 1 /\ k \in 0 .. size - 1
    <3>1. k \in 0 .. size - 1
      OBVIOUS
    <3> HIDE DEF p, size
    <3> QED BY <2>1, <3>1, Sizes
  <2>4. CASE p + k \in edata .. end - 1
    <3>1. mem'[p + k] = Zero
      BY <1>6, <2>3, <2>4
    <3>2. FileByte(image, off + k) = Zero
      <4> DEFINE m == off + k
      <4> HIDE DEF p, size, off
      <4>1. m \in off .. off + size - 1 /\ p + (m - off) \in edata .. globals - 1
        <5>1. p + (m - off) = p + k
          BY <2>1, <2>3
        <5>2. p + k \in edata .. globals - 1
          BY <1>2, <2>4
        <5>3. m \in off .. off + size - 1
          BY <2>1, <2>3
        <5> QED BY <5>1, <5>2, <5>3
      <4> HIDE DEF m
      <4>2. InBss(image, m)
        BY <4>1 DEF InBss, p, size, off, edata, globals
      <4>3. FileByte(image, m) = Zero
        BY <4>2 DEF FileByte
      <4> QED BY <4>3 DEF m
    <3> QED BY <3>1, <3>2
  <2>5. CASE p + k \notin edata .. end - 1
    <3> HIDE DEF p, size, off
    <3>1. p + k \notin Bootstack
      BY <1>9 DEF p
    <3>2. mem'[p + k] = mem[p + k]
      BY <1>6, <2>3, <2>5, <3>1
    <3> QED BY <2>2, <3>2 DEF p, off
  <2> QED BY <2>4, <2>5
<1>10. KernelStartsClean'
  <2>1. Bootstack' = Bootstack
    BY <1>1 DEF Bootstack
  <2> QED BY <1>1, <1>8, <1>9, <2>1 DEF KernelStartsClean, Held, edata, globals
<1>11. Core'
  BY ClearBssCore
<1>12. Gate'
  BY <1>1, <1>2 DEF Gate, gate, readseg
<1>13. Memory'
  BY <1>1, <1>10 DEF Memory
<1>14. Speaking'
  <2>1. panics = 0 /\ panics' = panics /\ messages' = messages
    BY <1>1 DEF Core, Counts, kernel
  <2>2. mem'[image.panicstr] = Zero
    BY <1>2, <1>8
  <2> QED BY <1>1, <2>1, <2>2 DEF Speaking, PanicSpeaksOnce
<1> QED BY <1>11, <1>12, <1>13, <1>14

\* panic.
LEMMA PanicCore ==
  ASSUME Core, Panic
  PROVE  Core'
<1> USE DEF Core, Loading
<1>1. /\ UNCHANGED <<image, pc, cpu, gate, disk, readseg>>
      /\ pc = "running" /\ panics < MaxPanics /\ panics' = panics + 1
      /\ \/ mem' = [mem EXCEPT ![image.panicstr] = Message] /\ messages' = messages + 1
         \/ mem' = mem /\ messages' = messages
  BY DEF Panic
<1>2. mem' \in [0 .. MEMSIZE - 1 -> Int]
  BY <1>1 DEF Message, Shape
<1>3. Counts'
  BY <1>1, BootAssumption DEF Counts
<1> QED BY <1>1, <1>2, <1>3 DEF Shape, Fetch, Reading, cpu, gate, readseg

\* It prints if the flag is clear, and sets it.
LEMMA PanicStep ==
  ASSUME IInv, Panic
  PROVE  IInv'
<1> USE DEF IInv, Loading, Entering
<1> DEFINE panicstr == image.panicstr
<1>1. /\ UNCHANGED <<image, pc, cpu, gate, disk, readseg>>
      /\ pc = "running" /\ panics' = panics + 1
      /\ IF mem[panicstr] = Zero
         THEN mem' = [mem EXCEPT ![panicstr] = Message] /\ messages' = messages + 1
         ELSE mem' = mem /\ messages' = messages
  BY DEF Panic
<1>2. panicstr \in 0 .. MEMSIZE - 1 /\ mem \in [0 .. MEMSIZE - 1 -> Int]
  BY Ordered DEF Core, Shape
<1>3. Core'
  BY PanicCore
<1>4. Gate'
  BY <1>1 DEF Gate, gate, readseg
<1>5. panics \in Nat /\ messages \in Nat
  BY DEF Core, Counts
<1>6. panics' > 0
  BY <1>1, <1>5
<1>7. Memory'
  BY <1>1, <1>6 DEF Memory, KernelStartsClean
<1>8. mem[panicstr] = IF panics = 0 THEN Zero ELSE Message
  BY <1>1 DEF Speaking
<1>9. Speaking'
  <2>1. CASE panics = 0
    <3>1. mem'[panicstr] = Message /\ messages' = messages + 1
      BY <1>1, <1>2, <1>8, <2>1
    <3>2. messages' = 1
      BY <2>1, <3>1 DEF Speaking, PanicSpeaksOnce
    <3> QED BY <1>1, <1>6, <3>1, <3>2 DEF Speaking, PanicSpeaksOnce
  <2>2. CASE panics # 0
    <3>1. mem' = mem /\ messages' = messages
      BY <1>1, <1>8, <2>2 DEF Zero, Message
    <3>2. messages = 1
      BY <1>5, <2>2 DEF Speaking, PanicSpeaksOnce
    <3> QED BY <1>1, <1>6, <1>8, <2>2, <3>1, <3>2 DEF Speaking, PanicSpeaksOnce
  <2> QED BY <2>1, <2>2
<1> QED BY <1>3, <1>4, <1>7, <1>9

-----------------------------------------------------------------------------
(* The theorems                                                            *)

\* The machine is switched on.
LEMMA Starts ==
  ASSUME Init
  PROVE  IInv
<1>1. /\ image \in Images /\ pc = "seta20.1" /\ eip = 0 /\ paging = FALSE
      /\ kbc \in [full : BOOLEAN, byte : {"none"}, command : {FALSE}] /\ a20 \in BOOLEAN
      /\ mem = [a \in 0 .. MEMSIZE - 1 |-> IF a \in LOADER THEN Code ELSE Other]
      /\ disk \in [busy : BOOLEAN, sector : {0}, buffer : {0}]
      /\ ph = 0 /\ pa = 0 /\ end_pa = 0 /\ offset = 1 /\ panics = 0 /\ messages = 0
  BY DEF Init
<1>2. Len(image.segs) \in Nat /\ MaxPanics \in Nat
  BY <1>1, Segments, BootAssumption
<1>3. mem \in [0 .. MEMSIZE - 1 -> Int]
  BY <1>1 DEF Code, Other
<1>4. 0 \in 0 .. W - 1 /\ 0 \in 0 .. MEMSIZE
  BY Sizes
<1>5. Shape
  <2>1. disk \in [busy : BOOLEAN, sector : Nat, buffer : Nat]
    BY <1>1
  <2>2. ph \in 0 .. Len(image.segs) /\ offset \in Nat \ {0}
    BY <1>1, <1>2
  <2> QED BY <1>1, <1>3, <1>4, <2>1, <2>2 DEF Shape
<1>6. Fetch /\ Reading /\ Counts /\ Speaking
  BY <1>1, <1>2 DEF Fetch, Reading, Loading, Counts, Speaking, PanicSpeaksOnce
<1>7. Gate
  BY <1>1 DEF Gate, Loading, Entering
<1>8. \A a \in LOADER : mem[a] = Code
  <2> TAKE a \in LOADER
  <2>1. a \in 0 .. MEMSIZE - 1
    BY LoaderPlace, Sizes
  <2> QED BY <1>1, <2>1
<1>9. Memory
  BY <1>1, <1>8 DEF Memory, Loading, Entering, KernelStartsClean
<1> QED BY <1>5, <1>6, <1>7, <1>9 DEF IInv, Core

\* Nothing happens.
LEMMA Stutters ==
  ASSUME UNCHANGED vars
  PROVE  (Core => Core') /\ (IInv => IInv')
<1>1. UNCHANGED <<image, pc, cpu, gate, mem, disk, readseg, kernel>>
  BY DEF vars
<1>2. Start' = Start /\ Size' = Size /\ From' = From /\ Position' = Position
      /\ Loading' = Loading /\ Entering' = Entering /\ Bootstack' = Bootstack
  BY <1>1 DEF Start, Size, From, Position, Loading, Entering, Bootstack, readseg
<1>3. Core => Core'
  <2>1. (Shape => Shape') /\ (Fetch => Fetch') /\ (Counts => Counts')
    BY <1>1 DEF Shape, Fetch, Counts, cpu, gate, readseg, kernel
  <2>2. Reading => Reading'
    BY <1>1, <1>2 DEF Reading, readseg
  <2> QED BY <2>1, <2>2 DEF Core
<1>4. Gate => Gate'
  BY <1>1, <1>2 DEF Gate, gate, readseg
<1>5. Memory => Memory'
  BY <1>1, <1>2 DEF Memory, InPlace, BesideStack, Held, Headers, KernelStartsClean,
                    readseg, kernel
<1>6. Speaking => Speaking'
  BY <1>1 DEF Speaking, PanicSpeaksOnce, kernel
<1> QED BY <1>3, <1>4, <1>5, <1>6 DEF IInv

\* Every step keeps the types.
LEMMA CoreKeeps ==
  ASSUME Core, [Next]_vars
  PROVE  Core'
<1>1. CASE SetA20Command \/ SetA20Data
  BY <1>1, SetA20Core
<1>2. CASE Bootmain
  BY <1>2, BootmainCore
<1>3. CASE ReadCommand
  BY <1>3, ReadCommandCore
<1>4. CASE ReadData
  BY <1>4, ReadDataCore
<1>5. CASE NextSegment
  BY <1>5, NextSegmentCore
<1>6. CASE BadImage
  BY <1>6, BadImageCore
<1>7. CASE CallEntry
  BY <1>7, CallEntryCore
<1>8. CASE TurnOnPaging \/ JumpRelocated
  BY <1>8, PagingCore
<1>9. CASE ClearBss
  BY <1>9, ClearBssCore
<1>10. CASE Panic
  BY <1>10, PanicCore
<1>11. CASE KbcTakes \/ DiskReady
  BY <1>11, DevicesCore
<1>12. CASE Spin \/ UNCHANGED vars
  BY <1>12, Stutters DEF Spin
<1> QED BY <1>1, <1>2, <1>3, <1>4, <1>5, <1>6, <1>7, <1>8, <1>9, <1>10, <1>11, <1>12
        DEF Next, Processor

\* Every step of a disk that is not too fast keeps the invariant.
LEMMA Keeps ==
  ASSUME IInv, [Next]_vars, [Timely]_vars
  PROVE  IInv'
<1>1. CASE SetA20Command \/ SetA20Data
  BY <1>1, SetA20Step
<1>2. CASE Bootmain
  BY <1>2, BootmainStep
<1>3. CASE ReadCommand
  BY <1>3, ReadCommandStep
<1>4. CASE ReadData
  BY <1>4, ReadDataStep
<1>5. CASE NextSegment
  BY <1>5, NextSegmentStep
<1>6. CASE BadImage
  BY <1>6, BadImageStep
<1>7. CASE CallEntry
  BY <1>7, CallEntryStep
<1>8. CASE TurnOnPaging \/ JumpRelocated
  BY <1>8, PagingStep
<1>9. CASE ClearBss
  BY <1>9, ClearBssStep
<1>10. CASE Panic
  BY <1>10, PanicStep
<1>11. CASE (KbcTakes \/ DiskReady) /\ Timely
  BY <1>11, DevicesStep
<1>12. CASE Spin \/ UNCHANGED vars
  BY <1>12, Stutters DEF Spin
<1> QED BY <1>1, <1>2, <1>3, <1>4, <1>5, <1>6, <1>7, <1>8, <1>9, <1>10, <1>11, <1>12
        DEF Next, Processor

\* The types hold in every behaviour, ...
LEMMA CoreHolds == Spec => []Core
<1>1. Init => Core
  BY Starts DEF IInv
<1> QED BY <1>1, CoreKeeps, PTL DEF Spec

\* ... and the invariant in those with a disk that is not too fast.
LEMMA Holds == Spec /\ [][Timely]_vars => []IInv
BY Starts, Keeps, PTL DEF Spec

\* Every state of the boot has its type; in particular eip, the bounds of
\* readseg and the sector number stay in range, whatever kernel is on the disk
\* and however fast the disk is.
THEOREM TypeCorrect == Spec => []TypeOK
<1>1. Core => TypeOK
  BY DEF Core, Shape, Counts, TypeOK
<1> QED BY <1>1, CoreHolds, PTL

\* readseg, which copies whole sectors, never copies one over the boot loader
\* or, while segments go in, over the headers that bootmain still reads.  boot.S
\* does not ensure the hypothesis: a sector that arrives before the controller
\* has taken the second byte is written with the gate closed.
THEOREM LoaderSurvives == Spec /\ [][Timely]_vars => []LoaderIntact
<1>1. IInv => LoaderIntact
  BY DEF IInv, Core, Memory, Reading, Loading, LoaderIntact
<1> QED BY <1>1, Holds, PTL

\* When bootmain calls the entry point, every byte of every segment is where
\* the program header wants it, if no sector came too early.
THEOREM AllLoaded == Spec /\ [][Timely]_vars => []Loaded
<1>1. IInv => Loaded
  BY DEF IInv, Memory, Entering, InPlace, Loaded
<1> QED BY <1>1, Holds, PTL

\* From the call of the entry point to the jump to the link address, paging on
\* or off, the processor fetches the byte that the kernel's file has there, if no
\* sector came too early.
THEOREM FetchWorks == Spec /\ [][Timely]_vars => []FetchesKernel
<1>1. IInv => FetchesKernel
  <2> SUFFICES ASSUME IInv, Entering
               PROVE  LET a == EntryPgdir(eip) IN
                      /\ a # Fault
                      /\ \E n \in DOMAIN image.segs :
                           LET s == image.segs[n] IN
                           /\ a \in Span(s)
                           /\ mem[a] = FileByte(image, s.offset + (a - s.pa))
    BY DEF FetchesKernel, Entering
  <2> DEFINE entry == image.entry
             a == EntryPgdir(eip)
             bootstack == image.bootstack
             top == image.bootstacktop
  <2>1. /\ image \in Images /\ entry \in Nat /\ entry + 2 < MEMSIZE
        /\ entry + 2 < bootstack /\ bootstack \in 0 .. MEMSIZE /\ top \in 0 .. MEMSIZE
    BY Ordered DEF IInv, Core, Shape
  <2>2. \/ ~paging /\ eip = entry
        \/ paging /\ eip = entry + 1
        \/ paging /\ eip = KERNBASE + entry + 2
    BY DEF IInv, Core, Fetch, Entering
  <2> HIDE DEF entry, bootstack, top
  <2>3. entry < PTSPAN /\ entry + 1 < PTSPAN /\ ~(KERNBASE + entry + 2 < PTSPAN)
        /\ KERNBASE + entry + 2 \in KERNBASE .. KERNBASE + PTSPAN - 1
        /\ (KERNBASE + entry + 2) - KERNBASE = entry + 2
    BY <2>1, Sizes
  <2>4. a \in {entry, entry + 1, entry + 2}
    <3>1. eip = entry => a = entry
      BY <2>1, <2>3, LowAddress
    <3>2. eip = entry + 1 => a = entry + 1
      BY <2>1, <2>3, LowAddress
    <3>3. paging /\ eip = KERNBASE + entry + 2 => a = entry + 2
      BY <2>3 DEF EntryPgdir
    <3> HIDE DEF a
    <3> QED BY <2>2, <3>1, <3>2, <3>3
  <2> HIDE DEF a
  <2>5. a \in Nat
    BY <2>1, <2>4
  <2>6. PICK n \in DOMAIN image.segs :
          entry .. entry + 2 \subseteq Span(image.segs[n])
    BY <2>1, BootAssumption DEF Image, entry
  <2> DEFINE s == image.segs[n]
             p == s.pa
             size == s.memsz
             off == s.offset
  <2>7. p \in Nat /\ size \in Nat /\ off \in Nat
    BY <2>1, Segments
  <2>8. a \in p .. p + size - 1 /\ a \in Span(s)
    <3>1. a \in entry .. entry + 2
      BY <2>1, <2>4
    <3> QED BY <2>6, <3>1 DEF Span
  <2>9. \A k \in 0 .. size - 1 : p + k \notin Bootstack => mem[p + k] = FileByte(image, off + k)
    BY DEF IInv, Memory, BesideStack, Held
  <2>10. a # Fault
    BY <2>5 DEF Fault
  <2>11. mem[a] = FileByte(image, off + (a - p))
    <3> HIDE DEF p, size, off
    <3>1. a - p \in 0 .. size - 1 /\ p + (a - p) = a
      BY <2>5, <2>7, <2>8
    <3>2. a \notin bootstack .. top - 1
      BY <2>1, <2>4
    <3> QED BY <2>9, <3>1, <3>2 DEF Bootstack, bootstack, top
  <2> QED BY <2>8, <2>10, <2>11 DEF a
<1> QED BY <1>1, Holds, PTL

\* All variables are zero when i386_init goes on, those behind `end` too, and
\* everything else but the stack is as in the file, if no sector came too early.
THEOREM StartsClean == Spec /\ [][Timely]_vars => []KernelStartsClean
<1>1. IInv => KernelStartsClean
  BY DEF IInv, Memory
<1> QED BY <1>1, Holds, PTL

\* The first call of panic and no other prints, wherever the linker puts the
\* variable panicstr, if no sector came too early.
THEOREM SpeaksOnce == Spec /\ [][Timely]_vars => []PanicSpeaksOnce
<1>1. IInv => PanicSpeaksOnce
  BY DEF IInv, Speaking
<1> QED BY <1>1, Holds, PTL
=============================================================================
