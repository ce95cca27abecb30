# The JOS kernel of 6.828, lab 1, in TLA+

This directory models the kernel of the repository — its boot path, its
console, its monitor, its printing and string routines and its debugging
information — and the two programs around it that have a life of their own, the
grading scripts and the dependency merger, as TLA+ modules. TLC checks them on
small instances, and TLAPS proves every invariant checked and both refinements
for every instance, under the hypotheses that each theorem states. `PROJECT.json` is the index: components, runs, hazards,
theorems, and for every definition the source lines it stands for.

The kernel runs on one processor with interrupts off. What makes it hard is
not threads but everything that moves beside the processor — keys, serial line,
printer, disk, keyboard controller — and data kept in two forms at once: a line
and its echo, a buffer and its indices, a linear screen and its rows. The
grader and the build run beside processes that end, hang or get killed at any
time.

## The system

| Component | State | Operations | Interacts with |
|---|---|---|---|
| boot loader (`boot/`) | A20, disk registers, position in `readseg` | A20 gate, protected mode, load segments, call the kernel | keyboard controller, disk; hands over to `entry.S` |
| entry and init (`kern/entry.S`, `entrypgdir.c`, `init.c`) | page directory, BSS, `panicstr` | paging, jump to link address, clear BSS, `panic` | every other kernel component relies on a clean BSS |
| console input (`kern/console.c`) | ring `cons`, modifier bits `shift`, `serial_exists` | `serial_intr`, `kbd_intr`, `cons_getc`, `getchar` | polled by `readline`; keyboard controller, COM1, reset line |
| console output (`kern/console.c`) | `crt_buf`, `crt_pos`, 6845 cursor | `cputchar` → serial, parallel, screen | called by `cprintf` and by the echo of `readline` |
| monitor (`kern/monitor.c`, `lib/readline.c`) | line buffer, `argv` | `readline`, `runcmd`, commands | console input and output; entered by `i386_init` and `panic` |
| debugging information (`kern/kdebug.c`) | stabs table (constant), bracket of the search | `stab_binsearch`, `debuginfo_eip` | for the backtrace that lab 1 asks for |
| formatted printing (`lib/printfmt.c`, `kern/printf.c`) | flags of a directive, bounded buffer | `vprintfmt`, `vsnprintf` | prints through `cputchar` |
| strings (`lib/string.c`) | pointers and count of the call | `memmove`, `strlcpy`, `strtol`, … | called everywhere |
| grading (`gradelib.py`, `grade-lab1`) | score, completed tests, QEMU and GDB connections, deadlines | `run_tests`, `run_qemu`, `__react` | runs `make`, and the kernel under QEMU with its GDB stub |
| dependency merger (`mergedep.pl`) | `.deps`, its table | read, write, rename, delete | run by `make` before it compiles; reads what gcc writes |

Hard behaviours, and what must hold despite them:

- *Console input.* Keys and serial bytes arrive between any two polls, get lost
  in full devices, and a reboot can come in the middle. The ring must stay a
  queue; no modifier may stick or appear from nowhere; every scan code must be
  read.
- *Console output.* Ports may never become ready; the screen wraps, erases
  backwards and scrolls. Nothing may be written outside video memory, the
  screen must look like a terminal, printing must end.
- *Monitor.* Echo and buffer are kept side by side; the line is cut in place.
  The screen must show the line, `argv` must be its words, and a prompt must
  follow.
- *Debugging information.* The binary search steps over entries of other types
  and repeated addresses. It must read only the table, end, and bracket the
  address.
- *Formatted printing.* Flags, widths and stars decide what the next character
  of a format means; the output may not fit its buffer. The text must be what
  the directives mean, and the buffer must end in NUL whatever its size.
- *Boot.* Two devices answer in their own time, sectors overlap segments, the
  address space changes under the running code. The kernel must be whole, be
  fetched where it is, and start with clean variables.
- *Strings.* Blocks overlap in both directions, sizes end in the middle of a
  string, a char is signed. Each routine must leave and return what it
  promises, and touch nothing else.
- *Grading.* Output, deadline, breakpoint, stop line and Ctrl-C race; an
  emulator of an earlier grader may hold the port. Points must be earned by
  what the kernel showed in the test's own run, no attached emulator may be
  left behind, and the grader must end.
- *Dependency merger.* `make` and `mergedep.pl` may be killed between any two
  steps and files are edited at any time. No dependency may get lost, and no
  stale object may be taken to be current.

## Modules

| Module | Stands for | Composed of |
|---|---|---|
| `InputQueue` | abstract promise of console input: a bounded queue | |
| `ConsoleInput` | input half of `console.c` and its devices | refines `InputQueue` |
| `Terminal` | abstract promise of the screen: page, row, column | |
| `Crt` | `cga_putc` as operators on a screen | |
| `Display` | output half of `console.c` and its ports | extends `Crt`, refines `Terminal` |
| `Monitor` | `readline.c`, `monitor.c`, echo included | extends `Crt` |
| `StabSearch` | `kdebug.c` | |
| `Directive` | reference definition: what a directive means | |
| `Printf` | `printfmt.c` | extends `Directive` |
| `Boot` | `boot.S`, `main.c`, `entry.S`, `entrypgdir.c`, `init.c` | |
| `StringMeaning` | reference definition: what each string routine promises | |
| `Strings` | `string.c` | extends `StringMeaning` |
| `Grader` | `gradelib.py` with the tests of `grade-lab1` | |
| `MergeDep` | `mergedep.pl` and the rules of `make` around it | |
| `ConsoleInputProofs`, `DisplayProofs`, `MonitorProofs`, `StabSearchProofs`, `PrintfProofs`, `BootProofs`, `StringsProofs` | theorems | extend the module they are about |
| `ToolsProofs` | theorems about the programs around the kernel | extends `Grader` and `MergeDep` |
| `MC…` | small instances | extend the module they instantiate |

An operator named `X_Something` beside a definition `X` is a variant of it with
a plausible bug. `PROJECT.json` pairs it with the property that rejects it; no
specification uses it.

### ConsoleInput

`ring` is `cons` (`buf`, `rpos`, `wpos`), `shift` a set of flag names,
`keyboard` the queue of the i8042, `devices` what is there at all.
`pc` is the position in `cons_getc`: `SerialByte`/`SerialDone` are the loop of
`cons_intr(serial_proc_data)`, `KbdEscape`, `KbdRelease`, `KbdPress`, `KbdDone`
the branches of `kbd_proc_data` with the store in the ring that follows,
`TakeChar`/`TakeNone` the end of `cons_getc`. Each action covers one call of
`proc` together with what `cons_intr` does with its result. A store that makes
the full ring look empty is named `Overrun`; the implementation of `InputQueue`
is stated for behaviours without one (`QueueSpec`), and `MCConsoleOverrun` is an
instance in which it happens. `Environment`
(external) presses and releases keys, delivers serial bytes and mouse bytes,
drops what does not fit and completes a reset.

### Display, Crt, Terminal

`Cputchar` starts `cons_putc`; `Wait` is one turn of a wait loop, `SerialPutc`
and `LptPutc` the writes after them, `CgaChar` and `CgaTab` are `cga_putc`; behind the five spaces of a tab the outer
call scrolls no further and writes the cursor that is there already, which is
left out.
`Crt!Put` is the switch, `Crt!Scroll` the end-of-screen check. The refinement
maps the linear buffer to rows (`Grid`) and the position to `Row` and `Col`.

### Monitor

`ReadlineStart`, `Backspace`, `Insert`, `EndLine`, `Ignore` are the prompt and
the branches of `readline`; `Gobble`, `SaveArg`, `TooMany`, `Scan`, `EndParse`,
`Lookup` the steps of `runcmd` in order. `out` holds what `cprintf` has yet to
print and `Cputchar` prints it, one character a step, so that prompt, echo and
replies share one screen. What a command prints is abstracted to a line.

### StabSearch

One action per branch of `stab_binsearch`; `FindFile`, `NoFile`, `FindFun`,
`NameFun`, `FileBack`, `NameFile`, `CountArg` are the stretches of
`debuginfo_eip` between its calls. Names are represented by the index of their
stab. The line-number search is missing because the source leaves it to the
student ("Your code here", `kdebug.c:181`).

### Directive, Printf

`Directive` says what a programmer writes (`Written`), which arguments that
takes (`Arguments`) and which text it stands for (`Meaning`), without a loop or
flags. `Printf` reads the written format back, one action per case of
`vprintfmt`'s switch: `Flag` is every `goto reswitch`, `FirstDigit`,
`NextDigit` and `Asterisk` lead to `process_precision`, `ConvertArg`,
`ConvertPlain` and `Unrecognized` put text. What a case puts waits in `out`
and `Sprintputch` stores it character by character. A string is a sequence
that ends in NUL, the null pointer the empty sequence; the type of an argument
is the one its directive expects. Characters are the members of `Char`. A numeral
in `Directive` is the number of its `Places` and the digit of each by weight;
`PrintNum` in `Printf` recurses as `printnum` does.

### Boot

A byte of memory holds the disk position it was copied from, or a mark:
`Zero`, or `Frame` for what is pushed on the stack. `FileByte` is what the
kernel's file holds: its own bytes, and zeros from `edata` up to `globals`, because
`BYTE(0)` (`kernel.ld:54`) puts `.bss` and the common symbols behind `end` into
the file. `Linked` says what the linker guarantees of a kernel, `Span` which addresses
a segment takes, `InBss` which of them hold variables without an
initial value, `Bootstack` where `entry.S` reserves the stack (in `.data`, so
that the call of `i386_init` writes there). `WORD` is the size of what a call
pushes. `FastDisk` tells whether the disk may answer before the keyboard controller
has taken its second byte.
`SetA20Command`/`SetA20Data` are the two writes to the keyboard controller,
`Bootmain` the switch to flat segments and the first `readseg`, `ReadCommand`
and `ReadData` the halves of `readsect` around its second wait, `NextSegment`,
`BadImage`, `CallEntry` the loop of `bootmain`; `TurnOnPaging`,
`JumpRelocated`, `ClearBss`, `Panic` the kernel's side. `Wire` is what the
address bus selects with and without A20, `EntryPgdir` what the page directory
maps.

### StringMeaning, Strings

`StringMeaning` says what the caller sees to (`Requires`: the strings it passes
end inside the memory), what a call leaves (`After`) and returns (`Value`) as
functions of the memory before it, without a loop. A routine that walks a string is described by
the first place where it stops (`Stops`, `From`), `strtol` by the positions
of its white space, sign, prefix and digits and by the sum its digits stand
for (`Positional`). The promises are those of the C library and of the comments,
and where this library differs, its own: `strlcpy` returns how many bytes it copied, and
`strchr` and `strfind` do not look for the NUL. `StringsAssumption` says that every call checked is one
that `Requires` allows. `Strings` takes one step per turn of a
loop or of `rep`: `Memmove` chooses direction and size, `Movs` is one turn of
`rep movsl` or `movsb` (`w` bytes, `step` is the direction flag), `Memset`,
`Stos`, `RepEnd` likewise; the others have an action each and `strtol` three.
Memory is a function from addresses to bytes. `memcpy` is a call of `memmove`.

### Grader

`Grade` starts a grader and its first build, which `MakeEnds` ends, if it ends at
all. `suite` is the state of `run_tests` and of the nested calls of `run_test`
(`frames`), `r` the `Runner`. `Enter` and `Result` are `run_test` before and
after the test's function, `Match` the function of a test that looks for a
line. `Probe` and `Spawn` construct `QEMU`, `Select`, `ReadQemu`, `ReadGdb`,
`TimedOut` are `__react`, `Connect` and `MonitorRaises` the monitor that starts
the GDB client, `Leave` what follows the reactor in each of the three phases,
`Shutdown` and `Wait` the `finally` and the drain behind it. External are
`make` and QEMU (`MakePrints`, `Listen`, `PrintLine`, `Breakpoint`, `Die`),
the clock and `Interrupt`, which reaches the grader and the processes of its
terminal. The first build runs outside the handler of `run_tests`, and the
shutdown needs `self.reactors`, which is not there when Ctrl-C comes between
the connection and `gradelib.py:411` in the Runner's first run; both end the grader with a
traceback. A line of output is the name of the test that looks for it. An
interrupt between two statements of the shutdown is represented by the one just
before it or just after it. A second grader may find the emulator of the first.

### MergeDep

A file of dependencies is a function from objects to sets of headers. `MakeDeps`
looks at the times of `.deps` and the `.d` files, `ReadDeps`, `WriteTmp`,
`Rename`, `Unlink` are `mergedep.pl`, `Compile`, `CompileError` and `UpToDate`
the rules for objects, one object a step; a compiler replaces its output as a
whole. `Kill` comes between any two steps, `EditSource` and `EditHeader` at any
time. `Faults` are what may go wrong beside that: a full disk, and an interrupt
that makes `make` delete the target it has changed (`.DELETE_ON_ERROR` and
`.PRECIOUS`, `GNUmakefile:115-121`). The specification and its parts are named
`MDSpec`, `MDInit`, …, and its program counter is `step`, so that one module can extend
`Grader` and `MergeDep`.

## Runs

| Run | Question | Bounds, and why they are enough |
|---|---|---|
| `console_input` | is the ring a queue, do modifiers tell the truth, is every scan code read | ring of 3: every position of both indices, full and wrapped; 4 external events; keys of one and two bytes, a shift, CapsLock, Ctrl-Alt-Del; machines with and without COM1 |
| `mouse_byte` | does the keyboard survive a mouse byte | as above with a mouse; **violated** |
| `input_overrun` | does the ring say "none waiting" only when there is none | a ring of 3 and a serial line; **violated** |
| `display` | is the screen a terminal, does printing end | 3 × 2 cells and 4 characters: every character in every cell, two scrolls in a row; 2 polls of a port |
| `monitor` | does the screen show the line, is `argv` the words of the line | 3 × 3 cells, so the prompt fills a row and lines wrap and scroll; buffer of 6 and 7 keys: the buffer fills and overflows; 2 arguments allowed, so 3 are too many |
| `printf` | is the text what the directives mean, does the buffer hold it | every flag, width, precision and size in one directive, with null, empty, short, long and unprintable strings and with zero, negative and too large numbers; pairs in which the second must not see the first's flags; buffers of 0, 1, 4 and 20 bytes and none at all; an int of 8 bits |
| `stab_search` | does the search end with the right bracket | every ordered table of 5 entries over 4 addresses: all orders of types, repeated and adjacent addresses, no match, matches only above or below |
| `boot` | is the kernel loaded whole and entered safely, do all variables start at zero | sectors of 2 bytes, 32 bytes of memory with A20 in the middle; every kernel of two small segments close to each other: unaligned, empty, overlapping, sharing a sector, in both orders; kernels with variables before and behind `end`, with an empty segment at address 0, one of three segments, and a bad image; a disk slower than the keyboard controller (`FastDisk` is false) |
| `strings` | does each routine leave and return what it promises | blocks of up to 9 bytes at every place of 14: every overlap and alignment, words and bytes; all pairs of strings of up to 2 bytes, on both sides of the sign; sizes 0 to 4; numbers of up to 5 characters in 5 bases |
| `grader` | do the scores tell what the kernel showed, is nothing left behind, does the grader end | two graders in a row with one run of QEMU each, so that the second meets what the first left (`grade-lab1` has one test that runs QEMU; that several runs of one grader do not mix is proved, not checked); two tests behind it, one whose line ends the run; a pipe of 2 lines; runs of all tests and of one; Ctrl-C at any time, again and again |
| `mergedep` | does any kill lose a dependency, is a stale object ever current | 2 objects and 2 headers, interchangeable; any number of builds, kills and edits; no full disk and no Ctrl-C (`Faults = {}`) |
| `mergedep_full` | does that hold on a full disk | as above; **violated** |

Passing runs show the properties on every behaviour within the bounds. The
violated runs are disagreements between the code and what it says of itself:

- `mouse_byte`: `kbd_proc_data` (`console.c:326`) returns without reading the
  byte it means to ignore, and sees it again at every poll.
- `input_overrun`: `cons_intr` (`console.c:403`) stores without looking at `rpos`;
  the character that fills the ring makes it look empty, and `cons_getc`, which
  promises "0 if none waiting" (`console.c:409`), returns 0 with a ring full of
  characters.
- `mergedep_full`: nobody looks at what `print` and `close` return
  (`mergedep.pl:77`), so a cut-off table replaces `.deps` and the new files are
  deleted all the same. An interrupt is not better: `make` deletes the
  `.deps` it was about to finish, after some `.d` files are gone
  (`Faults = {"interrupt"}` violates the same property).

Four more disagreements are visible in the modules and excluded by name where
a property would meet them; they have no run of their own:

- `runcmd` (`monitor.c:89`) refuses the 16th word with a message that allows
  16; `ArgvSplitsLine` speaks of the lines that it accepts.
- `printnum` pads with `padc` before the first digit (`printfmt.c:45`), and the
  flag meant "to pad on the right" (`printfmt.c:107`) sets it to `-`;
  `PrintsAsWritten` leaves numbers with `-` out (`Supported`), and directives with
  both `-` and `0`, of which the last counts. A width or precision written as
  `0` is taken for that flag (`printfmt.c:113`), so `WellFormed` has none.
- When every entry of the type lies above the address, `stab_binsearch` leaves
  `*region_left` where it was and puts `*region_right` in front of the first
  entry, although "If \*region_left > \*region_right, then 'addr' is not contained in any
  matching stab" (`kdebug.c:32-34`). For an address in front of its file's functions, `lfun <= rfun`
  then holds (`kdebug.c:152`) and the file's own entry is reported, although
  "stabs[lfun] points to the function name" (`kdebug.c:153`). `SearchFinds` leaves the
  case out by name (`AllAbove`); `NamesNearestFunction` says of such a file nothing.
- After an exact match `stab_binsearch` continues with `addr + 1`
  (`kdebug.c:80`), so a function one byte further on is reported; `Spaced`
  leaves such tables out.

`SearchFinds` and
`NamesNearestFunction` hold for tables in which no
two entries of a type are one address apart (`Spaced`), which real functions
satisfy. `StabAssumption` adds what the assembler and the linker see to: entry 0
is a header without address, entries of one type are in order, and no code lies
at the last address, where `addr++` would wrap. The sign of a negative number stands before its
field, and the smallest int is no error code, because its negation is undefined.

## Fairness

- `ConsoleInput`, `Monitor`, `StabSearch`, `Printf`: weak fairness of the kernel's own
  steps, because the processor runs. Nothing is assumed of keys, lines or users;
  `KeyboardDrains` is about behaviours in which external events pause, which
  the bound `MaxEvents` expresses.
- `Display`: weak fairness of the kernel's steps and none for the ports, which
  may stay busy for ever.
- `Boot`: weak fairness of the processor, of the keyboard controller and of the
  disk: `waitdisk` and the A20 loops have no bound, so the boot ends only if
  both answer. With `FastDisk` false the disk is also slower than the
  keyboard controller: `boot.S:41-42` does not wait until the gate is open, and
  with a faster disk the kernel may be loaded over the loader (with `FastDisk`
  true TLC finds `LoaderIntact` violated). No line of the repository says that the disk
  is slow, so this is an assumption about the machine and not a finding.

- `Grader`: weak fairness of the grader's own steps and of the clock, and that an
  emulator that was told to end does: `qemu.wait()` (`gradelib.py:428`) has no bound, although the
  docstring (`gradelib.py:386`) says that `timeout` bounds the run. Nothing is assumed of the builds, the
  kernel or the stub, which may hang or stay silent. The build of a run is under the
  deadlines of the reactor; the first one (`gradelib.py:102`, `211`) is not, so `Ends` is
  about graders whose first build has ended. `make` answers the
  question for the GDB port.
- `MergeDep` and `Strings` state no liveness: a build ends when nobody edits,
  and the loops of `string.c` end because the checked ones reach `done` (TLC's
  deadlock check would find a stuck one, and every step moves a pointer or a
  count).

## Proofs

The properties of a run hold for its instance; the theorems hold for every
value of the constants that satisfies the module's `ASSUME`s. What a theorem
needs beyond them stands in its statement.

- `ConsoleInputProofs!TypeCorrect` and `Refinement`: for any ring size, any
  tables and any keyboard, both indices stay inside the buffer and every step
  of console input is one of the bounded queue `InputQueue`, but for an `Overrun`
  of the full ring. The invariant is `TypeOK` itself; the work is in
  the lemmas about `Contents`, the sequence between the two indices, under a store and a
  take, with and without wrap.
- `DisplayProofs!TypeCorrect`: `crt_pos` is on the screen and the poll counters
  within their bound. The invariant `IInv` adds that `cons_putc` works only on
  what a caller printed (`Working`), which the refinement needs.
- `DisplayProofs!Refinement`: for a screen of any size the linear buffer
  implements `Terminal`. Lemmas relate a position to its row and column
  (`Unique`, `Position`), a write and a scroll of the buffer to those of the
  grid (`GridWrite`, `GridScroll`); then one case per kind of character.
- `StabSearchProofs!TypeCorrect`: for every ordered table and every address the
  lookup reads only entries of the table. The invariant `IInv` says more than
  the types: a region starts with an entry of another type (`Region`), the
  window lies inside the bracket and the bracket inside the region (`Bracket`);
  without the former, `m - 1` could leave the region.
- `StabSearchProofs!Finds`: both searches return what `SearchFinds` promises,
  which is nothing for a search whose candidates are all above the address.
  The invariant `FInv` keeps every candidate left of the window at or below the
  address and every one right of the bracket above it, and knows that the
  search looks for `eip + 1` only after an exact match (`Target`), where
  `Spaced` is needed.
- `StabSearchProofs!Names`: the lookup reports the nearest function of the
  file it found. `Named` carries what each of the two searches found through the
  assignments of `debuginfo_eip` between and after them.
- `PrintfProofs!Terminated`: whatever the format puts, `vsnprintf`, given a buffer, stores a
  prefix of it inside the `n` bytes, terminates it and returns the length of
  all of it. The invariant adds that nothing is left to put before the first
  directive and after the last; `AppendAny` makes the output a sequence without
  a type for its characters, so that nothing is assumed of the arguments.
- `PrintfProofs!MeansWhatIsWritten` and `TypeCorrect`: for every format of well-formed
  items, every argument and every size, `vprintfmt` puts what the directives mean,
  and reads no character and no argument that is not there. A format is a flat
  sequence of characters, so the invariant `Parsing` says which item the loop is
  in and how many of its characters and arguments are behind it (`At`). `Phase` is one
  of six places in a directive, each with what the locals hold there: after some
  flags (`FlagsRead`), digits (`Front`: the number that the digits read so far stand for)
  or l's; `InBefore`, `InLiteral` and `Behind` are the places in text. `Promised` says
  that what is put or waits in `out` is what the items before mean, and the part of this
  one. `NextIs` shows which character comes next at each place, and one lemma per
  action (`FlagKeeps`, …, `UnrecognizedKeeps`) that the next place is right.
  `PutsMeaning` is about the conversions: `printnum`, with its padding on the way
  down, prints the numeral of `Directive` (`PrintNumIs`), and `%s` the
  characters that are shown. Recursive functions are treated as in `strtol`: the least
  number for which an equation would fail.

- `ConsoleInputProofs!NoneSticks` and `NoneInvented`: while no scan code was
  lost, no modifier sticks and none appears from nowhere. Neither is inductive: what
  `shift` will be depends on the codes that still wait in the keyboard. The
  invariant `KeysInv` is about all of them at once: played in their order they
  press only keys that are up and release only keys that are down
  (`Coherent`), and they end with the keys that the user holds (`Ends`).
- `MonitorProofs!ShowsLine`, `SplitsLine` and `TypeCorrect`: for any screen and
  any buffer, the screen shows the line while it is typed, and `argv` is
  its words. The invariant says where the cursor is after the characters still in
  `out` (`Line`), and, for the parse, that the buffer left of `p` is the line with
  NULs in the white space (`Cut`), that `argv` holds the starts of the words so far
  (`Saved`) and where `p` stands between two words (`Place`). `LineFits` is
  needed: a line longer than the screen would scroll its beginning away.
- `BootProofs!TypeCorrect`: for every kernel that `Image` allows, every sector
  size, and any order in which keyboard controller and disk answer. `Core` is its
  invariant: `Reading` says where `readseg` stands between the rounded start and the end,
  `Fetch` which address `eip` means under the segments and pages of the moment.
- `BootProofs!LoaderSurvives`, `AllLoaded`, `FetchWorks`, `StartsClean` and
  `SpeaksOnce` are about behaviours in which no sector arrives while the
  controller still holds a byte (`[][Timely]_vars`). `boot.S` does not ensure that; without it,
  they are false. `Image` is what the linker sees to: segments with bytes in them lie above
  A20, behind the loader and the headers, and share a sector of memory only if they
  share it on the disk; stack and variables are in one segment. `Gate` knows that
  the gate is open before anything is stored above it, and `Memory` which bytes
  are in place. That overlapping sectors do not spoil a segment loaded earlier is the
  heart of `AllLoaded`. `StartsClean` needs that the variables behind `end`, which
  `i386_init` does not clear, are zeros of the file, and that clearing the others
  leaves the stack alone; `SpeaksOnce` follows for `panicstr` on either side of `end`.
- `StringsProofs!PromisesKept`: every routine, called as `Requires` says, leaves
  and returns what it promises, for memory of any size, all strings and all numbers. The
  invariant `Phase` has a conjunct for each loop (`Scanning`, `Comparing`,
  `Appending`, `Copying`, `Padding`, `AtSign`, `AtPrefix`, `AtDigit`, …): what lies
  behind the pointers is done and none of it was a place to stop. That the recursive
  sum of `strtol`'s digits exists for every number of them is proved from the least
  number for which it would not (`HornerExists`), and `PositionalIs` unfolds it.
  For `memmove`, it says which bytes have moved after some turns of `rep`
  (`Upwards`, `Downwards`); `MovesUp` and `MovesDown` show that the next bytes
  have not been overwritten, which is where the choice of the direction is needed.
- `StringsProofs!RepInside`: no turn of `rep` reads or writes beside the blocks of the
  call, whichever way it goes and however wide it is.
- `StringsProofs!TypeCorrect`: no pointer leaves the memory of its call by more than
  one, but `memmove`'s, which end a backward move of words four bytes in front of
  the blocks (and are not used there, as `RepInside` shows); no routine with a size
  writes behind it.
- `ToolsProofs!GraderTypes`, `PassedHonestly`, `FailedFairly`, `ZeroIsFullScore`,
  `NoneLeft` and `ForeignWasLate`: for any tests registered as `GraderAssumption`
  says (once, a child behind its parent and before the next test that runs QEMU), any points,
  filters, stop lines, size of the pipe and number of graders, all six
  invariants of `Grader`. None is inductive; one invariant, `IInv`, carries them all:
  - `Stack` and `Calls`: the stack of calls holds the current test, or its parent on top of it; a
    test is complete from its call on, ends at most once, and does so after its
    parent. Hence `Score` is the worth of the tests that ended, each once.
    `Worth` is a recursive function, which is shown to exist (`SumsExist`), to add a test's
    points once (`WorthMore`) and to be less for a set that lacks a test
    worth points (`WorthLess`, for status 0).
  - `Connections`, `Attached` and `Others`: which emulator the Runner holds in each phase, and
    that another can be alive only if it was being built when the port was
    probed.
  - `Held`: what the Runner has of the latest run is what the kernel showed in
    it (`Owned`), and what the kernel showed is in its output, or still in the pipe of a run that
    goes on, or a deadline or a stop line cut the run short (`Read`). `Holds` says
    how long the Runner keeps the run of a test: until the next test that runs
    QEMU is about to start it.
  - `Ending`: after the reactor loop the kernel prints no more, and when QEMU is waited for, the pipe
    is empty, unless the run was cut short. This is what the drain
    in `Shutdown` is for.

  There is one lemma per action; those of a run rest on `RunGoesOn`, those that
  exit on `ExitStep`, those that return from a test on `Results`.
- `ToolsProofs!Kept` and `Fresh`: for any number of objects and headers, no
  kill loses a dependency and no stale object is current. Neither is inductive.
  The invariant `MDInv` adds that an object whose recorded headers are unchanged
  includes what it included when it was compiled (`Traced`: a new header can
  only come in through a changed file), that a `.d` file older than `.deps`
  says nothing new (`Older`, so merging again is harmless), and what
  `mergedep.pl` knows at each step (`Merging`: the table is what the files said,
  until the rename makes it so). Both are about behaviours in which no full disk
  cuts off `.deps.tmp` and no Ctrl-C makes `make` delete `.deps`
  (`[][Undisturbed]_MDvars`); they are false without that, and allow every other step of
  those faults. `ToolsProofs!MergeTypes` needs no such hypothesis.

Every invariant that a passing run checks is proved, under the hypotheses named
above, and so are `NoPhantomModifier` and both refinements.
Only model-checked are the liveness properties (`KeyboardDrains`, `PutcReturns`,
`PromptReturns`, `Returns`, `Terminates`, `Boots`, `Ends`): fairness is beyond TLAPS.

## Not modelled

- Of the grading scripts: `user_test` and `reset_fs`, which need programs and a
  file system of later labs; the saved `jos.out` logs; colours and wording.
- Of the dependency merger: files it cannot parse, on which it dies before it
  writes; an edit while the compiler runs, which `make` itself cannot see
  (compiling is one step).
- Overflow in `strtol`, which is undefined ("we don't properly detect overflow!").
- Write protection and the contents of the GDT: nothing in the code depends on
  them.
- What `help` and `kerninfo` print; `test_backtrace`, which only prints.
- A body for `%o`, `mon_backtrace` and the line-number search are exercises that this tree
  leaves open.
- `user/sendpage.c`, `fs/test.c`: programs of later labs, whose kernel is not here.
- Build files and build products.

## Plan

1. A composition of `ConsoleInput` and `Monitor`. `Monitor` takes any character
   from `getchar` at any time, which is what `InputQueue` can deliver; the
   composition would add that a line typed ahead, while a command prints, is
   the next line.
2. Shorter models of the printing and grading code.
