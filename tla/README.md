# TLA+ models of cowboot

cowboot is a secondary bootloader for the Ingenic M200 (MIPS).  The vendor
U-Boot loads it as if it were a kernel.  It moves itself to the top of memory,
shows a logo, lets the user break into a one-key menu, reads a boot image from
eMMC, places kernel, ramdisk and parameters (or a device tree) in memory and
jumps to the kernel.  It is C and assembly on the bare machine: one thread, no
interrupts, no scheduler.  What runs beside it is hardware: the MMC controller
with its card, the display that goes on reading its descriptors and the frame
buffer, the watchdog, and a user with a key.

## Inventory

| Part | Source | State it keeps | Operations | Modelled in |
|---|---|---|---|---|
| Start and relocation | `src/cpu/start.S`, `src/cpu/link.lds` | image in memory, GOT, `.rel.dyn`, bss | copy, move pointers, clear bss, jump to `main` | `Relocate` |
| Main and autoboot | `src/init/main.c` | countdown | `early_init`, `main` | `BootMenu`, `MenuScreen` |
| Boot menu | `src/boot/bootmenu.c`, `src/board/qogir/board.c` | selection, hold counter | `cycle_menu`, the commands | `BootMenu`, `MenuScreen` |
| Restart | `src/drivers/timer/timer.c:41-63` | CPM signature registers, watchdog | `_machine_restart` | `BootMenu` |
| Timer | `src/drivers/timer/timer.c:1-39` | `multiple`, the OST counter | `timer_init`, `udelay` | `Timer` |
| MMC driver | `src/drivers/mmc/mmc.c` | controller registers, FIFO, card | `mmc_read_data`, `mmc_send_status` | `Mmc`, promise in `SectorRead` |
| Heap | `src/cpu/mem.c` | `heap.start`, `end`, `offset` | `boot_alloc_init`, `malloc` | `Heap` |
| Image loader | `src/boot/boot.c` | all of memory | `mmc_load_bootimg`, `boot_jz_image`, `boot_v2_bootimg` | `BootLoad`, `BootFdt` |
| Image writer | `src/scripts/mkbootimg.py` | the output file | `write_header`, `write_data`, `write_vendor_boot_*` | `BootImage`, `MkBootImg` |
| Certifying | `src/scripts/gki` | the image file or archive | `certify_bootimg`, `boot_signature_info` | `CertifyBootImg` |
| Device tree library | `src/lib/libfdt` | the blob | edits, the sequential writer, queries | `FdtRo`, `FdtRw`, `FdtSw`, `FdtQuery`; promise of the edits in `FdtTree` |
| Display | `src/drivers/video` | descriptors, frame buffer, `cur_y` | `early_lcdc_init`, `draw_*`, `video_printf` | `Screen`; descriptors in `BootLoad` |
| Caches | `src/cpu/cache.c` | - | index operations | no |
| Strings | `src/lib/string.c` | - | `memcpy`, `strchr`, ... | `Strings` |
| Formatted output | `src/include/lib/nanoprintf.h` | - | `npf_vsnprintf` | `Format` |

How the parts meet:

- `_start` calls `early_init`: heap bounds, board, display (whose descriptors are
  the heap's first region), logo, then `relocate_code`; `main` runs in the copy.  Everything after relies on the
  copy's pointers, which is the subject of `Relocate`.
- `main` samples the key once a second.  No key: the image is booted.  A key:
  `cycle_menu`, which never returns but for a command that does.  Three of the
  commands boot, three restart the machine, and those three *return to the menu*
  while the watchdog counts.
- A boot command calls `mmc_load_bootimg`: header to the heap, sizes from the
  header, `malloc` for the whole image, a second read.  `boot_jz_image` or
  `boot_v2_bootimg` then copy the parts from the heap to their addresses.  The
  loader shares memory with the display (first region of the heap, and the frame
  buffer below it) and with the relocated loader itself, which lies above the
  heap.  `mmc_read_data` tells it nothing about success.
- `boot_v2_bootimg` edits the image's device tree in place with libfdt, in the
  1024 bytes it has been given to grow, and looks at no result.
- The image on flash was written by `mkbootimg.py`, perhaps certified, on another
  machine: the two agree on a layout that each computes for itself.
- Every message of the driver and the loader goes to the screen through
  `video_printf`, whose line moves down and never back.

What is hard here, and therefore what the models are about: a polled driver and
a controller that move between each other's accesses, time-outs meeting late
answers, words left in a FIFO; key and watchdog timing against a sampling loop;
memory regions that depend on each other's sizes; loops whose bounds are off by
one; an in-place editor whose every edit moves what earlier offsets referred to;
library loops over bytes and numbers at the edge of their range.
`PROJECT.json` lists each hazard at its line with the properties aimed at it.

## Modules

Each component has a module with its state as variables, one action per
operation or loop turn, and its properties at the end; `MC<Module>` and the cfg
files give the constants small values; `<Module>Proofs` holds the proofs.
Definitions named `X_Word` and commented "Mutant" stand next to the definition
`X`: they are plausible bugs of it, used to show that a property can fail.

### Mmc and SectorRead

`SectorRead` is what the image loader wants of the driver: the destination is
filled front to back with the words of the request, never beyond it, and a call
without fault returns only when the request is complete.

`Mmc` is the driver with `pc` at its accesses to the controller: `issue`
(registers of a command, START_OP), `await` (`mmc_poll_status`), `stat`, `pop`,
`restat`, `flag` (the two nested loops of `_mmc_read_data`), `busy` (the wait
for PRG_DONE of STOP).  Controller and card are external, modelled from the
registers the driver touches: they may answer, answer late or not at all, raise
CRC errors or the read time-out, and go on between any two accesses.  `fault` is
history: something has gone wrong in the current call.  `KeepFifo` says whether
START_OP may find old words in the FIFO and leave them: the repository does not
say, so both are checked.  `ReadsSectors` is `Sectors!Spec`, with the refinement
mapping `busy`, `want`, `dest`, `fault`.

### BootMenu

Autoboot countdown, menu, the six commands, `_machine_restart` write by write,
the watchdog and the user.  A tick is one watchdog count (about 2 ms); code
takes no time except in `udelay`, and `wait` is what remains of the current one.
History: the command run last (`chosen`), how many ran (`runs`), whether the
last press began in the menu (`fresh`), what it has done (`effects`) and how
long it lasted (`down`).

### Timer, Screen, MenuScreen

`Timer` is the operating system timer and `udelay`: the count goes on between the
read of the low half, which latches the high half, and the read of the buffer.
`multiple` is what the code computes, 24 / 4 counts in a microsecond; the comment
at `timer.c:36` speaks of 3 MHz.

`Screen` is the frame buffer as a function from its words to colours.  Its
operators are `clear_fb`, `draw_char`, `draw_string`, `draw_logo`, the drawing of a
menu and `video_printf`, which writes the text it is given (it does not format)
and moves `cur_y` down a line.  A word behind the end of a row is the next row's.

`MenuScreen` composes the three: each step of `BootMenu` that draws, draws in the
same step; the loader may report errors while it loads.  The timer runs by itself
before `main` starts, from any count the stage before may have left; `main`'s
`timer_init` sets it to zero, and from then on delays are the ticks of `BootMenu`.

### Relocate

`relocate_code`, one action per loop turn: copy, GOT, `.rel.dyn`, bss.  `rel` is
any list of entries, for words of the GOT too and for one word several times; the
comparison after the increment in the third loop is in `RelocDynNext`.
`RelocationSound` asks for the copy as it must be (`CopyRelocated`) and that each
loop stays in its table (`WithinTables`).

### Heap, BootImage, BootLoad, MkBootImg, FlashBoot

`Heap` is `malloc`, with `u32` arithmetic.  `BootImage` is the file layout of
`mkbootimg.py`.  `BootLoad` EXTENDS both: memory is a function from addresses to
tagged bytes (`<<"kernel", 3>>`), an action is one step of `mmc_load_bootimg` or
one copy of a boot command.  A read ends with any prefix stored if it met a
fault, as `SectorRead` allows.  The magic is looked at once, in the header on the
stack (`hdr` up to `AllocImage`).  The boot commands go by the header in the heap,
which is the image's when it arrived whole and otherwise whatever the heap held: any
member of `Stale`, with the magic (`Marked`) or without.  Copies then run from and
to addresses that are not followed (`Seen`).
The device tree is one block there; what the calls of libfdt do to it is
`BootFdt`.

`MkBootImg` is `mkbootimg.py` as it writes: a file is the list of its pieces, each
with name, place, size and, where later code goes by it, value.  Its steps are the
phases of `main` for boot images of header versions 0 to 4 and vendor_boot images.
A command line is any record of `CommandLines`: sizes of files, lengths of texts,
numbers of versions.  `CertifyBootImg` EXTENDS it with `certify_bootimg.py`, which
takes an image or an archive of several, adds the extra arguments of an info file,
erases the certificates and the footer it finds, and may be run again on its own
result; and with `boot_signature_info.sh`, which shows the certificates of an
image.  `avbtool` is external.  `FlashBoot` composes writer and loader: an image is
written, and booted once it is.  The loader's model counts in units of 1024 bytes
(`Unit`), so that pages of 2048 and 4096 bytes are two and four of its addresses.

### FdtRo, FdtRw, FdtTree, FdtEdit, BootFdt

`FdtRo` holds the representation: header fields and the bytes behind the header,
offsets as in the code.  A byte nobody wrote, or that `memmove` has left behind,
is `Junk`, so that reading it shows.  A 32-bit word stands in its first byte.
`Tags` walks the structure block once (`fdt_next_tag`); the reading functions of
`fdt_ro.c` are operators on its result.  `FdtRw` holds the editing functions of
`fdt_rw.c` and `fdt_wip.c` as functions from a blob to a return value and a blob.

`FdtTree` is what `libfdt.h` promises, on a mapping from paths to properties:
exactly the asked change, or none.  `FdtEdit` is a client that makes any sequence
of calls; its state is the blob, and `tags`, `tree` and `reserved` are decoded
from it at each step.  `EditsAsAsked` is `FdtTree!Spec` under that decoding.

`BootFdt` is the sequence of calls of `boot_v2_bootimg` (`boot.c:149-176`), with
the program's own names and sizes.

### FdtSw, FdtQuery, FdtWrite

`FdtSw` is the writer of `fdt_sw.c`: a blob that fills its buffer from both ends
and keeps its state in header fields.  `FdtQuery` holds the queries of `fdt_ro.c`
that no edit needs: paths, parents, phandles, aliases, lists of strings.
`FdtWrite` is a client that makes calls in and out of turn, exchanges the buffer
for one of another size or a shifted one, finishes the tree and asks questions of
it.  Its history is the list of calls that were accepted (`HoldsWhatWasWritten`
reads it back from the blob).  libfdt does not check the nesting of nodes, so
the client keeps to it.  `QueriesAgree` compares each query with what it is defined
to return on the decoded tree.  `generate_phandle` answers 0 for a tree that holds
the illegal phandle 0xffffffff; its part `PhandlesAgree` speaks of trees without it.

### Format, Strings, Lib

`Format` is `npf_vpprintf` as `string.c` configures it: the parser of a conversion
(the format is a list of characters), the arguments it extracts, the conversions
of numbers, characters, strings, pointers and `%n`, and the buffer that counts on
when it is full.  Texts are made of any `Character` but the NUL; for TLC these are
the ones its calls use, and the widths are scaled to 8, 6 and 4 bits.  The
reference is what the C standard says of a directive, on the directive and not on
its characters.
Two places differ from C and are left out of the reference, which the comments of
`Format` name: `%.-5d`, which C does not define, and the `0` flag of `%b`, which C
does not have, beside a precision.

`Strings` is `string.c`, a turn of a loop at a time, over a memory of bytes; its
reference is what the C library promises of result and memory.  `memcpy` over its
own source repeats a pattern, and `StringsAsC` says which: `Copied` in
`BootLoad` relies on it.  `Lib` puts both in one specification.

## Runs

| Run | Question | Result |
|---|---|---|
| `mmc_safety` | Does the driver deliver sectors, leave the card ready, tell the truth about its state, and return? | yes |
| `mmc_full_image` | Does 0 from `mmc_read_data` mean the image is read, as `boot.c:102` takes it? | **no** |
| `menu_safety` | Does each press do one thing, do commands need a long press and run what is shown, does a restart leave the right signature, does everything end?  Does the screen show it?  Does a delay last? | yes |
| `menu_release` | Is the key released before the menu looks at it, as `main.c:62` says? | **no** |
| `reloc_safety` | Does the copy have each pointer moved once, for the entries the loops reach, and bss clear?  Do the loops stay in their tables? | yes |
| `reloc_all` | Are all entries of `.rel.dyn` applied? | **no**, the last one is not |
| `load_safety` | Does the writer's file say what the loader takes it for, are the parts where the kernel looks, and is nothing in use overwritten? | yes, for a jz image with a ramdisk no longer than its kernel |
| `load_ramdisk` | Is the ramdisk intact whatever its size (`jz_bootimg.h:58`)? | **no** |
| `fdt_edit` | Do edits of a tree do what `libfdt.h` says and leave a valid blob, in buffers that are often too small? | yes |
| `boot_fdt` | Are 1024 bytes enough for what boot_v2_bootimg adds, and does the kernel get the tree intended? | yes |
| `fdt_write` | Does a tree written front to back hold what was written, whatever fails and moves meanwhile, and do the queries agree with it? | yes |
| `library` | Do the formatter and the string functions do what C says, inside their operands? | yes |

A property of a run that has several named parts, such as `ScreenAgrees`,
`StagesSound` or `WaitsEnd`, is their conjunction; each part is stated above it in
its module.  `TypeOK` of `BootMenu` and `Relocate` is proved and so in no run.

The four that fail are listed in `PROJECT.json` under "findings", each with the
line that promises otherwise.

### Bounds

- `mmc_*`: two polls, a FIFO of two words, blocks of two words, requests of one
  and two blocks, one retry, two calls (`MaxCalls`).  A transfer can be longer
  than the FIFO and span blocks; the poll limit is reached before and after the
  answer; the second call meets whatever state the first one left.  Polls and
  retries only count down, so larger values add turns of the same loop.
- `menu_*`: a long press of three samples of three ticks, a countdown of two
  samples of seven ticks, a watchdog of two.  What matters is their order, which
  is the code's: 2 ticks of watchdog < a 5-tick sample < the countdown's 512; a
  press (at least four ticks) fits between two samples of the countdown but not
  between two of the menu.  The key is pressed and released without limit.  The
  menu of a DOWNSTREAM_BOOT build has all six commands.  The screen is 12 words by
  26, a character two by two, laid out like the board's 360 by 360 with characters
  of 8 by 16: entries a row apart, console lines without a gap, logo above.
  `MaxMessages` is four, what fits there.  On the board a read reports at most six
  errors and a boot makes two reads; with the prompt and the three messages of
  `boot_v2_bootimg` that is 16 messages, and 19 lines fit below the first; the
  longest is 31 characters, 298 of 360 columns from where it begins.  The timer's
  low half has four values and rolls over three times within the bound.
- `reloc_*`: six words, of them a GOT of four (two reserved), four entries
  of `.rel.dyn`, two words of bss; every content, every list of entries, so that a
  pointer of the GOT is listed as well, or listed twice.
- `load_*`: 101 addresses, pages of two and four bytes, parts of 0 to 7 bytes:
  empty, shorter than a page, a page and longer, ramdisk shorter than, equal to
  and longer than the kernel, images too long for the heap.  Header and sector
  are two bytes, a word is two: the heap is met with every remainder and with
  exact fits.  After a failed read memory holds one of three headers with the magic
  or two without; their sizes are wrong for the image, and some reach beyond the end
  of memory.  The images that are only written cover versions 1, 3 and 4 with every
  optional part present and absent, vendor ramdisks with equal, different and
  banned names, texts one character below, at and above each limit, operating
  system versions and patch levels at the ends of their fields, archives, info
  files with a key that is repeated, and three certifications in a row
  (`Certifications`), with and without room.
- `fdt_edit`: a root with a child, two node names (one with a unit address, so
  that both designate the same short name), two property names (one found as the
  tail of an existing string), values of 0 and 3 bytes, one region; version 16,
  17 and misordered blobs; buffers exactly full and with 16 bytes to spare, and one in which
  `fdt_open_into` must move the tree out of its own way.  `Growth` stops the
  client once 12 bytes have been added, which is past a string, a property header
  or the pair of tags of a node, so each is met both with and without room.
  `MCView` identifies states with the same blob and return value: what the next
  call does depends on the blob alone, and the action properties are checked on
  every transition before states are identified.
- `fdt_write`: a root and up to two levels below it, names of which one is the
  end of another, buffers around the size a tree needs and moved by a few bytes.
  `MCView` keeps the header, the reservation map, the structure and the strings as
  they are (`Live`), so each blob is looked at in each buffer and after each move;
  it leaves out the bytes between structure and strings and the last return value.
  And
  1080 finished trees with phandles at either end of their range, aliases to
  present, absent and nested nodes, and lists with and without their last NUL.
- `library`: every flag, width and precision with numbers at both ends of each
  width; buffers of every size up to past the text.  Strings of up to four
  characters in six bytes, words of two: every pair of pointers and every count.
- `boot_fdt`: the real sizes.  The tree has other nodes and properties before and
  behind /chosen; its bootargs have 0, 30 and 900 bytes or are missing, the image's
  0, 9 and 511 (the longest).  511 and 900 together exceed `final_cmdline`.

### Fairness

`Mmc`: weak fairness of the driver, of the controller receiving a word or raising
its read time-out (`mmc.c:140` programs it) while a transfer runs, and of
finishing a transfer that is complete.  The response to a command needs none:
`mmc_poll_status` gives up.  `CallsTerminate` holds provided the FIFO has no old
words (its premise): with them the two loops may wait for words that will not
come.  `BootMenu`: the program runs and time passes; nothing is assumed of the
user.  `MenuScreen` states the same of the steps without what they draw, since
drawing holds up no step, and of the timer that its count goes on and `udelay`
looks at it.  `Relocate`: the processor runs.  The other modules state no liveness.

### Deadlock

`FdtEdit` is checked for deadlock.  The others stop where the program does: at the
kernel's entry, at the reset, at `main`, at the crash after a refused `malloc`,
when a call of the library has returned or a tree is finished, or at the bound
`MaxCalls`; their cfg files say `CHECK_DEADLOCK FALSE` for that.

## Proofs

TLAPS checks the following for every value of the constants that satisfies the
named assumptions.  Each inductive invariant was first checked by TLC.

| Module | Theorem | Says |
|---|---|---|
| `MmcProofs` | `Implements` | `Spec => ReadsSectors`: the driver implements `SectorRead` |
| | `CardReadyAfterRead` | `Spec => []CardLeftReady` |
| | `StatusIsTruthful` | `Spec => []StatusTruthful` |
| | `TypeCorrect` | `Spec => []TypeOK` |
| `BootMenuProofs` | `LastCommand` | `Spec => []AtMostOneCommand` |
| | `RightSignature` | `Spec => []RestartKeepsPromise` |
| | `RunsHighlighted` | `Spec => RunsWhatIsShown` |
| | `OneEffect` | `Spec => []PressHasOneEffect` |
| | `NeedsLongPress` | `Spec => OnlyLongPressRuns` |
| | `TypeCorrect` | `Spec => []TypeOK` |
| | `NeverReturnsEarly` | `TimerSpec => NeverEarly` |
| | `DrawingIsTheMenu` | `AllSpec => Spec`: what is proved of the menu holds with the drawing |
| | `ScreenShowsState` | `AllSpec => []ScreenAgrees` |
| | `MessagesStay` | `AllSpec => []MessagesReadable` |
| `RelocateProofs` | `Relocated` | `Spec => []RelocationSound`: the loops stay in their tables and the copy is right |
| `FlashBootProofs` | `Disjoint` | `HeapSpec => []RegionsDisjoint` |
| | `Untouched` | `Spec => []InUseUntouched` |
| | `TypeCorrect` | `Spec => [](TypeOK /\ HeaderRead /\ Descriptors)`: which header memory is taken by and where |
| | `OffsetsAlwaysAgree` | `Spec => []OffsetsAgree` |
| | `PartsArrive` | `Spec => []PartsInPlace` |
| | `HeaderStays` | `Spec => []HeaderKept` |
| | `LoaderUnchanged` | `FlashSpec => Spec`: what is proved of the loader holds with the writer beside it |
| | `HeaderAlwaysAgrees` | `FlashSpec => []HeaderAgrees` |
| | `FileIsTheImage` | `FlashSpec => []FileIsImage` |
| | `TableAlwaysNames` | `FlashSpec => []TableNamesRamdisks` |
| | `CertifiedAlwaysOnce` | `FlashSpec => []CertifiedOnce` |
| `LibProofs` | `StringFunctionsAsC` | `LibSpec => []StringsAsC` |
| | `BufferNeverOverrun` | `LibSpec => []StaysInBuffer` |
| | `FormatsAsStandard` | `LibSpec => []FormatterAsC` |
| `BootFdtProofs` | `EditsKeepInvariant` | `Spec => []IInv` |
| | `RoomAlwaysSuffices` | `Spec => []RoomSuffices` |
| | `ChosenAlwaysStays` | `Spec => []ChosenStays` |
| | `TreeHandedOver` | `Spec => []HandedOver` |

`Numbers` holds what several of them need of numbers: induction, least numbers,
remainders.  `FdtProofs` holds what is true of libfdt's operators whoever calls
them.

- **Mmc.**  `IInv` is `TypeOK`, `Control` (which command, entry point and phase go
  together), `Counting` (while the FIFO is drained `sz` is what the destination
  still lacks), `Flagged` (an error flag means a fault, the done flag means all
  words were sent) and `Clean` (without a fault the destination mirrors the
  transfer).  `ReadsSectors` alone is not inductive: that a return without fault
  is complete rests on the last word having been popped, which `Flagged` and
  `Clean` tie to the flags the loops look at.  `NextSectors` maps each step of the
  driver to one of `SectorRead` or a stutter.  `CardInv` does the same for the
  card's state, and `StatusInv` for what `mmc_send_status` says of it: the answer
  it went by is not written any more once it has returned.  Nothing is assumed of
  the number of polls, the FIFO's depth, the sector size or `KeepFifo`.
- **BootMenu.**  The invariant follows `_machine_restart` write by write
  (`Scripted`: which writes are to come; `Started` and `Signed`: what those made
  have left), and then says that the watchdog's remaining time is shorter than
  what is left of the current sample (`Biting`), so no sample ends.  It needs
  `WdtTicks < SampleTicks` (2 and 5 in the code), and nothing of the key.
  `RunsHighlighted` adds that what is highlighted is the selection, which every
  redraw restores.  `PressInv` ties the counter of held samples to the key: a
  counter of n stands for n - 1 samples of one press (`KeyHeld`), because the key
  cannot come up and go down again between two samples (`Sampled`), and what that
  press has done is a function of the counter (`Effective`).
- **Timer.**  Between the two reads the count may go on by any number and roll over.
  `TimerIInv` says that what the two halves will make up lies between the count at
  the call and now: true of the latched high half, false of the running one.  The
  arithmetic needs that the low half is smaller than its modulus, nothing else.
- **Screen.**  `Screened` says of each phase what is on the screen (`MenuOn`,
  `ShowsLogo`, `Readable`), what is black (`Alone`), and that all messages are above
  the line the console is on (`Above`).  A text
  of one line that is drawn shows (`Shows`), and leaves every word outside its cells
  alone; so a step keeps what was drawn before if the cells of the new text are
  disjoint from the old ones, which needs the division of a word's number by the
  width of the screen.  The logo is the text of several lines: its nth line is what
  lies between two newlines (`LineEnd`), found by induction over the newlines, and
  the menu is drawn title by title, by induction over the titles.  Assumed: the
  layout (`LayoutAssumption`) - every text fits the screen, has a glyph for each
  character and, but for the logo, one line; titles and messages are a row apart or
  more; the logo lies above the menu and below the prompt.  The board's layout is
  one of these.
- **Relocate.**  One conjunct per loop says what the words behind its index hold.
  That a word in the GOT and in `.rel.dyn` is moved once rests on the pointer being
  read from the image, which no loop writes.  The indices are in their tables
  because each table has a word to begin with.  Assumed of the linker
  (`RelocateAssumption`): the GOT ends the image and has an entry behind the reserved
  two, `.rel.dyn` has at least two behind the reserved one, and bss is not empty.
- **Heap.**  Regions end below the offset, the offset is a multiple of the word.
  Assumed: the heap's start is aligned and no request wraps an address.
- **BootLoad.**  `LoadInv` adds where the image's region lies (`Descriptors`) and
  that an image which fitted the heap fits below the frame buffer (`Fitted`).
  Assumed: the memory map (`LoadAssumption`, `PlaceAssumption`), and for
  `boot_jz_image`, which does not check it, that its parts end below the frame
  buffer (`ImageAssumption`), and that a header with the magic asks malloc for no
  more than `MaxRequest`.  `Untouched` speaks of boots without a fault: after one, the
  sizes may be anything memory held, and the kernel may even be entered by a header
  without the magic.  What is left of it then is `TypeCorrect`: memory for an image is
  taken by a header with the magic, behind the descriptors and within the heap.
- **Images.**  The writer pads a position to the page, the reader rounds sizes up and
  adds; `PaddedBehind` shows that behind whole pages the two are the same, which
  needs that two multiples of a page less than a page apart are equal
  (`SameMultiple`), and `StartsAgree` goes through the parts.  `PlaceInv` then says
  that while parts are copied the image is whole and above all their places
  (`ImageThere`) and what has been copied stays (`Placed`).  That it survives a step
  is one lemma for a copy of a part (`PartCopied`: it brings the part's bytes and
  leaves everything outside) and one for what lies outside (`HoldsStays`).
  `HeaderStays` follows from `ImageThere`.  Assumed beside the above: a header is
  not empty, an image of version 2 has a device tree, which `mkbootimg.py:262`
  insists on, and the image the loader carries is within the loader.

- **Writer.**  `WriterInv` says of each step what the file then is, as a function of
  the command line alone (`HeadOf`, `DataOf`, `ImageOf`); what the properties ask of
  the file is then a question about that function.  `PutFile`, `PadFile` and
  `PartAdded` say what a write leaves behind and what it leaves alone, `Headed` where
  each field of each version is, `DataParts` where each part.  Places are proved
  by name, not by number of the piece: `PieceIs` finds a piece whose name no earlier
  one has, `NameKept` keeps it while pieces of other names follow.
  `FileIsTheImage` needs beside this that padding commutes with the unit
  (`PaddedScales`).  `TableInv` does the same for the vendor image, whose number of
  pieces is not fixed: `RamdisksPut` and `TablePut` say by induction where the nth
  ramdisk and the nth entry are, and `NthOf` that the nth place counted from below,
  which is how the property finds an entry's ramdisk, is that one.
- **Certifying.**  `CertInv` says of every image of the archive that it is as it was
  built until it is certified, and then what was built with one set of certificates
  behind it and a footer behind those.  The step that could break this is certifying
  again, and `CertsErased` and `FooterFile` show that erasing gives back the built
  image from every such file; `SamePartition` that the partition stays the same.
  Assumed: a certificate has a size, the sizes avbtool uses are numbers
  (`CertifyAssumption`).
- **Strings.**  For each loop: the bytes behind the index are done, the others are as
  they were before the call, and the registers are where the index says.  Assumed:
  the memory holds bytes, and a call is one that C allows (`Legal`).
- **Formatter.**  Until the call returns, `FormatInv` has the loop at one place of
  the format: behind the first k directives and j characters of what follows them
  (`At`).  What has been put and counted is then what those directives and
  characters mean (`Meaning`), cut off where the buffer ends (`Cut`); the arguments
  left are those the directives so far have not taken (`PassedBy`); and `%n` has
  stored the lengths before it (`StoredBy`).  `StaysInBuffer` and `FormatterAsC` speak of the
  end of a call; the invariant is what makes a directive that takes an argument too
  many, or a count that is one off, fail at once.  Three things need a lemma of
  their own: that a directive read from its characters is the directive (`SpecIs`,
  from `ParsedIs`, part by part of its spelling); that the characters between directives begin none (`Lone`), so the loop stops at each
  directive and nowhere else; and that one conversion puts what the directive means
  (`FieldIs`; for the digits `RevIs`, by induction over the value: `npf_utoa_rev`
  leaves the digits C counts in powers of the base).  Where
  the kth directive is, what the first k mean and what they take is by induction
  over k (`Places`, `Meanings`, `Passings`, `Storings`).
  Assumed: `char` is no wider than `short`, `short` no wider than `int`, and an `int`
  is a whole number of hex digits (`WidthsAssumption`); the NUL that ends a text is
  none of its characters (`CharacterAssumption`); and a call passes what its format
  asks for, with directives C or nanoprintf defines (`CallsAssumption`).  A width or
  precision written in the format has at most two digits; one given by a `*` is any
  number.  The count of characters is a number, so a text is shorter
  than `INT_MAX`.

- **Device tree.**  `FdtProofs` goes up from bytes to tags: a string, a name or a
  property that is exchanged leaves the bytes before it where they are and moves
  those behind it (`Splice`, `SpliceStruct`), the header then says so
  (`EditedLaidOut`), and reading a tag is a question about the bytes it spans.
  `Tags` is a recursive function whose recursion is not on a number that counts
  down but on the offset, which each tag increases; `TagsWalk` therefore speaks of
  any list that is a walk - it begins at offset 0, each tag begins where the one
  before ends and is met in the node that one leads to, the last is where the walk
  stops - and shows, by induction over what is left of the block, that `Tags` is
  that list.  To know the tags of an edited block is then to give a walk:
  `WalkKept` takes the old one, with the tags before the edit, the new tag or pair
  of tags, and those behind it moved.
  `BootFdtProofs` goes on from tags to what they mean: with a property put in or
  exchanged the tree is the old one with that property of that node set and no
  other touched (`PropTree`), with a node put in it has one more node without
  properties (`NodeTree`), and `PathOffset` says which tag `fdt_path_offset` finds.
  `SetProp` and `AddChosen` are these for `fdt_setprop`, in each of its cases
  (value exchanged, property new, name found in the strings block or added to it),
  and `fdt_add_subnode`; both say how much room the call takes at most.
  `IInv` then has a line for each call (`Stage`): the blob is laid out as libfdt
  needs it, it means the image's tree with the properties set so far (`Related`),
  the offset held is that of /chosen, and 1008, 471, 436 and 403 bytes are left.
  The properties are not inductive without it: that no edit fails needs the room
  the calls before have left and that the blob is sound, and the tree handed over is
  a statement about the end of five calls.  Since a result is looked at nowhere,
  `HandedOver` holds only because `RoomSuffices` does.
  Assumed: the ramdisk's ends are numbers, a command line is at most 511 characters
  with no NUL among them (`CmdlineAssumption`), and the image's tree is one dtc
  writes (`DtbAssumption`).  That is: the header passes `fdt_check_header` and the
  buffer ends where it says; the blocks lie in their order and the reservation map
  has its end; the tags can be read up to FDT_END, one node is the root and FDT_END
  follows it; a node's children have different names, a node's properties too; a
  property's name is in the strings block and its value holds no byte left over by a
  move.  `fdt_check_header` alone does not give these, and libfdt's calls
  take them as given.  TLC evaluates the assumption for the trees of `MCBootFdt`,
  of version 16 and 17.
- **Kernel entry.**  What `BootFdt` hands over is what `BootLoad` carries as one
  block: its place, and that it is not overwritten, are `PartsInPlace` and
  `InUseUntouched`.

Induction over sizes, places and turns is done with sets of numbers
(`SetInduction` in `Numbers`), since the provers cannot instantiate the library's
theorems, whose parameter is an operator.

Only model-checked:

- what is temporal beyond `[]` (`CallsTerminate`, `HoldRunsCommand`, `ReachesMain`,
  and `WaitsEnd` with its parts `CountdownEnds`, `RestartHappens` and `DelayEnds`),
  because liveness needs ENABLED, which TLAPS does not handle;
- `FdtEdit`'s `BlobSound`, `FailureLeavesBlob` and `EditsAsAsked`: the lemmas of
  `FdtProofs` are about all blobs, but only the three calls `BootFdt` makes are
  proved to the end; the eleven others (deletion, NOPs, renaming, reservations,
  moving and packing) and misordered blobs each need theirs;
- `FdtWrite`'s `HoldsWhatWasWritten`, `StagesSound` and `QueriesAgree`: the first
  reads a history of any length back from the blob.

## What the failing runs show

- `mmc_full_image`: `mmc_read_data` returns 0 with words missing, and the loader
  goes on.  The commands' results are discarded at `mmc.c:228-234`.
- `menu_release`: "wait for release" is a 300 us delay, so the key that
  interrupts the countdown, if it stays down for the long-press time, runs the
  first entry.
- `reloc_all`: `reloc_dyn_loop` advances before it compares and leaves out the
  last entry of `.rel.dyn`.
- `load_ramdisk`: `boot_jz_image` puts the parameter block behind the *kernel's*
  size from the ramdisk's start, in the middle of a longer ramdisk.

Some more that no run shows:

- `extra_cmdline` is written by `mkbootimg.py`, which says that the kernel's command
  line is both fields together (`mkbootimg.py:488`), and is not read by the loader:
  a command line is cut after 511 characters.
- `fdt_rw.c:108` takes a string back with `strlen(name)` though it was put in with
  `namelen`; no caller in this program passes a name longer than `namelen`, so the
  model, whose names have that length, cannot meet it.
- An error that comes up while the inner loop of `_mmc_read_data` drains the last
  words (`mmc.c:54`) is not looked at; `malloc` returning NULL (`boot.c:104`) is not
  either, nor that a request near 4 GB wraps (`mem.c:22`); a header of version 3 or 4
  has no page size where `boot.c:95` reads one.  Each is plain from its line; the
  models have the first two as `CrcError` and `AllocFails` and exclude the last two
  by assumption.
- A key pressed and released between two samples of the countdown (`main.c:68`), or
  bouncing on release (`bootmenu.c:76`), is missed or counts again.

## Taken as given

- Controller and card (`Mmc`): starting an operation clears status and interrupt
  bits; a read time-out ends the transfer; a CRC error does not.
- The key does not bounce and keeps a position for more than a sample
  (`KeyHold > SampleTicks`).  With a shorter press `cycle_menu` may miss it.
- Caches are coherent where the code flushes.
- Reading the low half of the count latches the high half in `OSTCNTHBUF`, as the
  driver takes it; one of the mutants shows what happened otherwise.
- `avbtool` adds and erases a footer and tells a certificate from other bytes.
- bss lies over `.rel.dyn` (`link.lds:40`), so what is written before relocation must
  be in `.data`, as `heap` and `multiple` are; `Relocate` takes the entries as
  unwritten until `clear_bss`.
- After a read that met a fault `BootLoad` lets the destination hold a prefix, and
  leaves out foreign words: no promise is made about memory then.
- Trees are well formed when a client starts, node offsets are current at each
  call (the caller of libfdt must see to that; `BootFdt` checks that this program
  does), sibling names differ, and the bytes behind `totalsize` are no one's.

## Not modelled

- Cache operations: what they do depends on hardware the repository does not
  describe.
- The LCD controller's registers, `framebuffer_test`, which nothing calls, and the
  glyphs of `font.h`: a table.
- `start.S` before the copy (clocks, caches, the stack) and the BTB write between
  copy and jump.
- Of `src/scripts/gki`: the command line of `generate_gki_certificate.py` and what
  `avbtool` does; and the build.

## Plan

1. `Mmc` and `BootLoad` composed through `SectorRead`, so that a fault in the
   driver is followed to the kernel's entry.
2. Proofs: the edits of `FdtEdit` that `BootFdt` does not make, along the lemmas
   of `FdtProofs`.
