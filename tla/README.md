# Verification of WabbitStudio: Wabbitemu's core and WabbitCode's scanner

The repository is WabbitStudio for the Mac: *Wabbitemu*, an emulator of the Texas
Instruments calculators with a Z80 (C core, Objective-C front end), *WabbitCode*, an
editor and build tool for their assembly programs, the assembler *spasm*, and
vendored frameworks. This directory holds TLA+ models of the parts whose correctness
depends on the order of events or on arithmetic at a limit, the TLC runs that check them on
small instances, and TLAPS proofs of what holds for every value of the constants.

Paths are relative to `src/`; `core/` stands for `src/Shared/wabbitemu core/`, so
`core/hardware/link.c` is `src/Shared/wabbitemu core/hardware/link.c`.
`PROJECT.json` maps every definition to the lines it stands for.

## 1. Inventory

### The emulator

| Component | State | Operations | What is hard | What makes it correct |
|---|---|---|---|---|
| Link assist and cable (`core/hardware/83psehw.c`: ports 08, 09, 0A, 0D; `link.h`) | per calculator: flags, `in`, `out`, `working`, `bit`, its share of the two lines | poll of port 09 (from `handle_pio`, `core/core/core.c`), write 0D, read 0A, write 08 | two ends that poll at their own pace, no time-out, a byte waiting while the next arrives | every byte arrives once, in order and whole, unless a program disturbs it; a byte not read is not overwritten |
| PC virtual link, bytes (`core/hardware/link.c`: `link_init`, `link_wait`, `link_send`, `link_recv`) | `vlink` lines held by the PC, time left | send or receive a byte by running the calculator between looks at the lines | time-out against a late answer; what a failed byte leaves behind for the next file | a served transfer never times out; what is reported sent has arrived |
| PC virtual link, packets (`link_send_pkt`, `link_recv_pkt`, `link_send_var`, `link_send_app`) and the transfer sheet (`RSTransferFileWindowController.m`) | static jump buffers, `vlink_send` counter, results per file | send a variable, an application, a list of files | `longjmp` across calls and threads, refusals, a failure in the middle of a group | every file gets an answer, the counter ends at what was sent, errors come back to the call they belong to |
| Flash chip (`core/core/core.c`: `flashwrite`, `endflash`) | command step, fast-mode command, contents | a write by the program, an opcode fetch | multi-cycle commands that are interrupted | contents change only by complete commands; programming clears bits only; an erase is one block |
| Memory map and execution protection (`change_page`, `update_bootmap_pages`, `CPU_opcode_fetch`, ports 04-07, 0E, 14, 16, 20-28) | normal and boot banks, `hasChangedPage0`, limits, modes, remapped chunks | a bank switch, a limit, a fetch, a reset | two copies of one map; a fetch that changes the map it goes through | boot map fresh, no code executed that the limits forbid |
| Saved states (`core/utilities/savestate.c`) | a file or a backup in memory | save, load into a slot | what is not in the file | the map after loading is the map saved |
| CPU (`CPU_step`, `handle_pio`, `handle_interrupt`, `core/core/core.c`; `alu.c`, `control.c`, `indexcb.c`) | registers, `halt`, `iff1`, `ei_block`, `interrupt` | one instruction, then the polls, then an interrupt | interrupts after EI, a halt, requests raised in the same step | an interrupt has a cause the program can see; a halted processor wakes |
| Standard timers and ON (`core/hardware/83phw.c`, `83psehw.c`: ports 03, 04) | last check of two timers, mask, `on_latch`, `on_backup` | poll every `skip_factor`-th instruction, input, mask, rate | a key that is down between two polls, held by two hands; timers masked and late | a request stays until the program masks it |
| Crystal timers (`83psehw.c`: ports 30-38, `handlextal`) | count, max, clock, mode, flags | tick, poll, write of clock, mode, count | polled late, by more than a round | acknowledged in time they never drift; they expire |
| LCD (`core/hardware/lcd.c`) | display memory, cursor, mode, word length, contrast, queue of grey images | command, data read and write, image | words of 6 bits across bytes, wrap-around of the cursor | a word written stays; the cursor stays in the display |
| Keypad (`core/hardware/keys.c`) | groups, `on_pressed` bits | press, release, port 01 | set from two threads | - |
| Calculator slots, run loop, hub (`core/interface/calc.c`) | slots, `active`, `running`, memory, speed | create, load, free, run all, breakpoint | a load that fails half way; windows and threads that share slots | no slot lost; the frame timer keeps away from a transfer; no freed memory used |
| Other models' hardware (`81hw.c`, `82hw.c`, `83hw.c`, `83phw.c`, `86hw.c`) | the same | the same | - | - |
| File formats (`calc.c`, `state.c`, `var.c`, `gif.c`, `label.c`), disassembler | - | parse, write | - | - |
| Application (`src/WabbitEmu`, `src/Shared/RS*.m`) | a window and a calculator object per slot | frame timer, transfers, debugger | a transfer on a thread of its own | as for the slots |

How they interact: the frame timer calls `calc_run_all`, which runs every active slot
for a frame; each `CPU_step` fetches through the memory map, executes, polls the ports
whose turn it is and takes an interrupt. The CPU writes flash through `CPU_mem_write` and
banks through `device_output`. A cable is two CPUs whose `link` structures point at each
other's `host`. A transfer sheet takes its calculator out of `calc_run_all`
(`setActive:NO`) and runs it itself from a background thread, from inside `link_wait`.
`LoadSlot` replaces what the CPU, memory map and the rest hold between two instructions.

### WabbitCode and the others

| Component | State | Operations | What is hard | What makes it correct |
|---|---|---|---|---|
| Scanning (`WCSourceScanner.m`, `WCScan*Operation.m`, `WCSymbolNavigatorViewController.m`) | text, timer, three operations per scan, the scanner's properties | edit, timer, operation, notification | operations cancelled between two looks; one uses another's results | when all is quiet the results are of the text on the screen |
| Building (`WCBuildController.m`) | a process, its output, messages | build, read output | a background thread that looks up lines in the text being edited | - |
| Searching, navigators | lists | update | two updates at once | - |
| Documents, editors, project windows | views | user interface | - | - |

spasm is a sequential two-pass assembler and runs as a process of its own. The Quick Look
plug-ins are stateless. `PROJECT.json` lists every part with its status, and the
hazards of all of them, each at its line.

## 2. Modules

| Module | Models | Variables and the code they stand for |
|---|---|---|
| `LinkAssist` | one link assist as a record and functions from record to record; no variables | `LINKASSIST_t` plus `host`; `Tick` is the poll in `port9_83pse` |
| `LinkPair` | no variables: how two assists on one cable agree, that is the phases of a byte between them and which registers hold the bytes under way (`Safe`); shared by the two modules below and their proofs | the handshake of `port9_83pse`, seen from both ends |
| `LinkCable` | two assists on one cable | `port[c]`; `seen[c]`, what the program's last `IN` from 09 told it; histories: `sent[c]`, `got[c]`, what programs wrote to 0D and read from 0A, and `disturbed[c]` |
| `ByteChannel` | abstract: a bounded FIFO each way until an end disturbs it | `sent`, `got`, `disturbed` |
| `VirtualLink` | the PC end in `link.c` against one assist, an instruction at a time | `port`, `skip` (the skip count of the poll), `pc` (where `link_send`/`link_recv` is, and the instructions until it looks again), `vout` (lines held by the PC), `plan`, `sent`, `got`, `disturbed`; `idled` counts how long the program has not attended to the link |
| `LinkTransfer` | packets, the functions that send a file, the transfer sheet's loop, for any number of sheets | `step[s]` (position in the sequence of packets of the file), `sent[s]` (bytes of this packet), `refused[s]`, `vlink_send`, `exc_pkt` and `exc_byte` (whose `setjmp` the static buffers hold), `astray[s]` (a `longjmp` into another sheet's frame), `results[s]` |
| `FileTransfer` | abstract: parts are stored in order, each file gets one result | `stored`, `results` |
| `FlashChip` | `flashwrite` and `endflash` | `step`, `cmd`, `flash`; `log`, `ready`, `changes` are histories |
| `MemoryMap` | the map, the ports that change it, the fetch, the saved map | `normal`, `boot`, `bootMapped`, `changed0`, `locked`, `prot`, `remap`, `pc`, `op` (the fetches of the instruction under way), `saved` |
| `Interrupts` | `CPU_step`, the polls of ports 03 and 32, acceptance, halt | `std` (`STDINT_t`), `held` (`on_pressed`), `lcd`, `halt`, `iff`, `irq` (`cpu->interrupt`), `turn` (the skip count of port 03), `flags` |
| `CrystalFlags` | abstract: what the rest sees of a crystal timer | `flags` |
| `CrystalTimer` | one timer of ports 30-38, `handlextal` | `timer`; `phase`, `missed`, `counted` are histories |
| `CalcSlots` | `calc_slot_new`, `calc_slot_free`, `rom_load`, `calc_run_all`, the documents, sheets and debuggers that call them | `calcs` (`active`, `running`, memory), `own` (window to slot), `sheet`, `debugger`; `failed`, `shared`, `driven`, `crashed` are histories |
| `Lcd` | `LCD_command`, `LCD_data`, `LCD_advance_cursor` | `word_len`, `cursor_mode`, `x`, `y`, `display`, `last_read`; `drawn`, `odd`, `outside`, `steps` are histories and bounds |
| `SourceScanner` | edits, the scan timer, the three operations of a scan, the navigator | `text`, `timer`, `latest`, `copy`, `op`, `seen`, `results`, `pending`, `shown`; `overtaken`, `late` are histories |
| `LinkPairProofs` | lemmas: one poll of port 09 case by case, and that every poll and access keeps `Safe` | |
| `LinkCableProofs`, `VirtualLinkProofs`, `LinkTransferProofs`, `InterruptsProofs` (with `CrystalTimer`) | the theorems of the modules of those names | |
| `MemoryProofs` | the theorems of `FlashChip` and `MemoryMap` | |
| `AppProofs` | the theorems of `CalcSlots`, `SourceScanner` and `Lcd` | |
| `NaturalFacts` | lemmas on induction, division and finite sums | |
| `MC*` | instances for TLC | |

`LinkCable` and `VirtualLink` both use `LinkAssist`, and both refine `ByteChannel`;
`LinkTransfer` refines `FileTransfer`; `Interrupts` takes `CrystalFlags` for its crystal
timers, and `CrystalTimer` implements it.

### Link cable

A byte has `Width` bits (8 in the hardware; nothing depends on it, and the theorems hold
for every width). Per bit the sender holds one line, the receiver answers with the other,
the sender lets go, the receiver lets go. `Poll(c)` is the whole handler of port 09;
`ReadStatus`, `WriteByte`, `ReadByte`, `ReadBack`, `SwitchOff`, `SwitchOn` are what a
program does, one port access each.

* The status (`IN` 09) and the write (`OUT` 0D) are two instructions, with any number of
  polls between them, and `port0D_83pse` looks neither at `ready` nor at `receiving`: it
  sets `out`, `sending` and `bit = 0`. If the assist has heard a bit since the status was
  read, the other end's byte loses the bits heard so far, and a whole byte that waits in
  `working` is dropped. Such a write marks the end as `disturbed`. So does port 08 when it
  disables the assist (bit 7) at a moment when it is not quiet: the flags are cleared, but
  neither `bit` nor the line. The code prevents neither; they are obligations of
  the program, and what is promised of bytes is promised until one of them is broken
  (`Intact`). `NoOverrun` and the types hold
  on a disturbed cable as well. A program that writes without ever having read ready is
  not in this module; it is in `VirtualLink` (`StrayByte`).
* Short of that, two programs that both see ready and both write at the same moment both
  hold a line and wait for the other for ever: `error` is never set and the assist has no
  time-out. Nothing is lost in that, but nothing arrives: `EveryByteArrives` names
  that state (`Locked`) as the one other way in which a byte does not arrive. The protocol
  of the calculators, which is not in this repository, has them take turns.
* Not modelled: the interrupts that port 09 raises, the raw lines of port 00, the low bits
  of port 08. `link_connect` and the hub are in the core; the Mac applications do not
  call them.

### Virtual link

`link_wait` runs the calculator for `LINK_STEP` (10) T-states between two looks at the
lines, that is one to three instructions; `LINK_DELAY` (100 T-states) is at least a whole
round of the poll's skip count (3). `TimingAssumption` states what the model needs of
these. `Patience` stands for `LINK_TIMEOUT / LINK_STEP`, 1.2 million looks in the code;
the run uses 22, the `LongestWait` (in instructions) of section 4 for its `Slow` and
`SkipFactor`; lowering `Patience` shows that the longest wait the run really meets is
between 9 and 12 looks. A program is *attentive* if it lets at most `Slow`
instructions go by when it has something to do on the link. After a failure the PC keeps
its line until the next file's `link_init` (`NextFile`), which lets go of it and tells the
assist nothing. If the assist was left in the middle of a byte, it appends the bits of
the next file to it, acknowledges every one, and `link_send_pkt` returns with bytes out of
step. That is one of the three ways to disturb the link; the others are the
program's: to write when it is not its turn or on a stale status (`StrayByte`), and to
switch its assist off when it is not quiet. `SentMeansReceived` and the refinement of
`ByteChannel` end with the first of these; `AlwaysReturns` and the types go on. `disturbed` is on the safe side: a file
begun while a byte of the failed one never started to arrive also counts, since the
account of bytes (`sent`, `got`) would no longer be one.

### Transfers

A file is a record: its kind and the sizes of its parts. `Step(s, n)` is the n-th packet
of its conversation, said or heard; `Send(s)` is one step of the thread of sheet `s`,
`GiveUp(s)` the decision of the calculator (external) to say nothing more. `Throw` is
the `longjmp` of a failed byte, with the buffers as they are: if they were set by
another sheet, control is gone (`astray`). `Tries` names the steps that call `setjmp`.

`vlink_send` is a `size_t` from which the header's length is taken before it is sent;
`Wrap` stands for 2^64. It is below zero, that is huge, while a header is on the way, and
exact between two packets. The progress timer reads it at any moment. All failures
reach the caller as `LERR_SYSTEM` although `LERR_TIMEOUT` and `LERR_CHKSUM` exist.
`link_send_app` does not acknowledge a refusal, `link_send_var` does.
A byte that fails is a step that fails: what it leaves in the link assist for the next
file is in `VirtualLink`, and `FileTransfer` is promised for packets that arrive as sent.
Not modelled: `link_send_backup`, which nothing calls; `forceload_os` and
`forceload_app`, which write to flash directly; the keys pressed to wake the calculator,
which are in the model only as a file that may fail before its first packet.

### Flash chip

An address is a half page (the unit erased is a number of halves) and an offset, which
is 0AAA, 0555 or some other. A byte is the set of its bits, so that programming is an
intersection. `Command`, `Fourth`, ..., `FastProgram` are the cases of the `switch` in
`flashwrite`, in its order. Whether the program may write to flash at all (`flash_locked`,
the model's `model_bits`) is the condition under which `ProgramWrite` happens.

### Memory map

A place is a bank and a chunk of 64 bytes, the unit in which the ports 27 and 28 remap
RAM. Limits are in units of 1K and wrap as the 16-bit fields do. `Fetch` is
`CPU_opcode_fetch`: the page-0 switch, the privilege check, the reset on a forbidden
fetch with the bank looked up before. `SaveSlot`, `Open` and `Restore` are
`savestate.c`: `Open` loads into a slot that `rom_load` has just made, `Restore` into a
running one, which is `restore_backup` (`calc.c`, under `#ifdef WITH_BACKUPS`, which the
Mac project does not define). Not modelled: contents of pages, breakpoints, `model_bits`,
`break_on_exe_violation` (taken as FALSE); operands are not checked by the code either.

### Interrupts and crystal timers

A step of `Interrupts` is one `CPU_step`: an instruction or the halted processor's wait,
then `handle_pio`, then the interrupt if one is asked for and taken. The order is in
`Finish`, with which every action ends. Port 03 is polled every `Skip`-th step, 8 on a
TI-83 Plus and 1 on an SE; port 32 on every step. Keys go up and down between steps:
`held` is the set of hands on ON, as each of mouse, keyboard and virtual link has a bit
of `on_pressed`. Time is counted in quarters of the fastest period, and instead of the
time of the last check its age is kept, taken back by the longest period once it is beyond
two of them, which no comparison or remainder in the code can tell; this is why the
periods must divide the longest one (`LongestAssumption`; the four rates of port 04 are
approximated by two). A standard timer keeps asking until it is masked: the code has no
other acknowledgement.

`CrystalFlags` leaves open when a crystal timer expires. `CrystalTimer` says when: its
clock is the crystal, whose ticks are longer than any instruction, or the processor's,
divided by 1 to 64, which may tick several times in one. The count is a register of
`Size` values (256 in the hardware), and 0 written means the whole round. `Burst` is
larger than `Size` so that one late poll can count more than a round.

### Calculator slots

A window owns a slot from `calc_slot_new` to `calc_slot_free`. `Loaded` is
`loadRomOrSavestateAtURL` with `rom_load`: a file that cannot be read leaves the calculator
stopped, one that is not recognised frees the slot and leaves the window, and a bad saved
state leaves a slot that is active and has no memory. Memory is one flag: what
`calc_init` allocates, and whose use after it is freed is `crashed`. A sheet makes its
slot inactive for the time of the transfer, and inactive is what `calc_slot_new` takes
for free: another window may be given it (`shared`). Only one window can have a slot's
sheet, since a sheet is modal to its window; loading and closing wait for it.

Opening the debugger, closing it and stepping do not wait for the sheet: they are commands
of another window. `Breakpoint` is the frame timer's run that ends at one. `DebuggerStep`
is step, step over and step out, which call `CPU_step` on the main thread whatever `active`
and `running` say. So a user who steps during a transfer has two threads in one CPU, and
nothing in the code prevents it. `driven` records, per window, who on the main thread has
run its calculator since its sheet began to send, and `OneDriver` is about the timer: that
making the slot inactive keeps `calc_run_all` away, though the debugger's opening, closing and
breakpoints turn `running` off and on meanwhile. `failed` has the slots whose *last* load
failed; a later good load clears it.

### LCD

The display memory is the set of its bits that are on, 8192 in all, as in the code; a
word is the set of its bits. `Cursor`, `Indent`, `Place` are the shifts of `LCD_data`,
`Written` its mask. The code wraps the byte in the row but not the pair of bytes that a
6-bit word is in. Once an access is outside the array the behaviour of the program is
undefined, and the model stops (`outside`). Accesses that come too early are ignored by
the code and left out.

### Source scanner

A text is the number of edits it has seen. A scan is three operations with a copy of the
text: tokens, and, after them, symbols and folds, which use the tokens the *scanner* has,
not those of their own scan. At most two run at a time (`setMaxConcurrentOperationCount:`).
An operation looks at `isCancelled` between its passes; after the last look (`Check`) it
sets properties one at a time (`Publish`) and posts a notification (`Post`), whose
observers run later on the main thread. What `NSOperationQueue` does with dependencies
of cancelled operations is external and taken from its documentation.

## 3. Runs

| Run | Instance | Question |
|---|---|---|
| `cable_polled` | 2 calculators, 2 bits, 3 bytes one way and 1 the other; after a disturbance 1 byte each way | Do all interleavings of two programs and two polls lose or double nothing until a byte is disturbed, and does every byte arrive unless the two lock each other out? (`PortsAgree`, `NothingLost`, `ImplementsChannel`, `EveryByteArrives`) And what holds after a disturbance? (`NoOverrun`) |
| `virtual_served` | PC against an attentive program, packets of up to 2 bytes, 2 each way | `NoTimeOut`, `ImplementsChannel` |
| `virtual_unserved` | PC against a program that reads late, never or out of turn, and files after a failure, `Patience` 1; after a disturbance 2 bytes in all | `SentMeansReceived` until a disturbance; `AlwaysReturns` after it as well |
| `link_transfer` | 1 sheet, 4 files (a group of two variables, an application of two blocks, a file that is not sent, an empty variable), 4 models | `CounterExact`, `ErrorsReturn`, `RefusalsEnd`, `EveryFileReturns`, `ImplementsTransfer` |
| `transfer_pair` | 2 sheets, a variable each | `ErrorsReturn` is **violated** |
| `flash_chip` | 8 pages, writes of the cycles of every command to two places and some strays | `Progress`, `ChangesAreCommands`, `OnlyErasesSet` |
| `memory_map` | 8 flash and 4 RAM pages, 3 outputs | `TypeOK` (limits wrap in their range), `MapsAgree`, `NoForbiddenCode`, `SavedMapReturns`, `FlagFollowsPage0` |
| `interrupts` | periods of 4 and 8 units, 3 masks, `Skip` 2, ON held by two hands | `CauseShown`, `RequestsKept`, `OnlyStandardWakes`, `HaltEnds`, `OnWakes` |
| `crystal` | a register of 6 counts, up to 7 ticks in a step, 4 writes | `NoDrift`, `StopsPastMax`, `EveryTimerExpires`, `ImplementsFlags` |
| `calc_slots` | 2 slots, 3 windows | `NoSlotLost`, `OneDriver`, `CrashExplained` |
| `lcd` | the display in its real size, 7 commands or accesses | `WordsKept`, `Inside` |
| `source` | 2 edits, that is 3 scans of 3 operations | `UpToDate`, `TokensFit`, `NavigatorFollows`, `ScanSettles` |

Why the bounds are enough:

* Cable: 3 bytes fill `out`, `working` and `in`, so that the next has to wait, and 2 bits
  have a first and a last one; with more bits only the middle repeats.
  The constraint `SmallDisturbance` of `cable_polled` and `virtual_unserved` bounds what is
  explored after a disturbance: a byte from each end of the cable, two bytes on the virtual
  link (one that fails and one of the next file, or one written out of turn). Behaviours
  without a disturbance are explored whole, and no step under fairness makes one on the
  cable, which matters for `EveryByteArrives`. The theorems have no such bound; that the bit
  counter, which the code increments without a check, stays in its byte whatever has been
  disturbed is proved (`TypeCorrect`, `LinkTypeCorrect`) and not one of the runs' properties.
* Virtual link: one look of `link_wait` lasts up to as many instructions as there are
  between two polls, so that with `Patience` 1 every wait may succeed or time out.
* Flash: 8 pages are the least with an ordinary 64K block below the split one. The run
  allows one change of the contents, after which any sequence of writes follows.
* Memory map: the pages chosen lie below, between, above and on each limit, and three
  outputs suffice to lower a limit, select a page and switch to the boot map; the theorems
  remove this bound.
* Transfers: two blocks and two variables are the least for which one part has been stored
  when another fails; `transfer_pair` needs one file in each of two sheets.
* Interrupts: nothing counts, so the state is finite without a bound; `Skip` 2 has steps
  with and without a poll of port 03, and a step of the halted processor or an
  instruction takes a quarter of the shorter period, so that both timers are met early,
  on time and late.
* Crystal timer: 4 writes are enough to set clock, mode and count and to change one of
  them; `Burst` exceeds the register, so that a poll can expire a timer twice or leave it
  beyond its reload.
* Slots: one window more than there are slots, so that a window can be refused, given a
  slot that a failed load or a transfer has left inactive, and share it.
* LCD: a word shares bytes with one neighbour on either side, so that switching to 6 bits,
  moving and three writes are the longest chain in which one write can spoil another; the
  operands are the ends of the rows and of the display. The theorems remove the bound.
* Scanner: three scans are one that is done, one that is superseded while it works and
  the newest.

Deadlock is checked except in these runs: in the transfer runs the sheets come to an end;
in `calc_slots` a crash ends the program; in `lcd` and `source` the steps and the edits
are bounded.

### Fairness

* `LinkCable`: weak fairness of `Poll(c)` and `ReadByte(c)`. `handle_pio` polls port 09
  every third instruction as long as the calculator runs, and a program that sees the
  byte announced takes it. Nothing is assumed about writing.
* `VirtualLink`: weak fairness of `Next`: one thread runs both sides, and goes on.
* `LinkTransfer`: weak fairness of `Send(s)`: the thread goes on; each wait in it ends,
  which is `AlwaysReturns` of `VirtualLink`. None for `GiveUp`.
* `Interrupts`: weak fairness of `CPU_step`: `calc_run_all` runs a calculator that is
  on, halted or not, in every frame. None for the keys or for any one instruction.
* `CrystalTimer`: weak fairness of a step in which the clock ticks: time passes while the
  processor steps.
* `SourceScanner`: weak fairness of the timer, of each operation and of the notification's
  delivery: once the user pauses the timer fires, and the queue and the main thread keep
  working. None for edits.

### Findings

* `core/hardware/link.c:11` (run `transfer_pair`): the jump buffers are static. With
  transfers in two windows an error of one unwinds into the other's thread, against "On
  error: Returns an error code" (`link.c:495`).

### Observations

Met while modelling, in the models as the code has them, and contradicting nothing that
the repository says:

* `core/core/core.c:451`: programming the byte AA at an address that ends in AAA ends the
  command and then leaves `step` at 1, so that the first cycle of the next command is
  taken for its second. After an autoselect command (90) an AA, 55, 30 erases a sector,
  and `CPU_reset` leaves the step as it is.
* `core/utilities/savestate.c:762`: `hasChangedPage0` is not saved, so after a load it may
  say the wrong thing about bank 0; nothing else separates the two (`FlagFollowsPage0`).
  The modes and port 24 are not saved either.
* `core/core/core.c:250`: the mask made of the protection mode is 0 in the modes 1 to 3, so
  that the limits of ports 25 and 26 alone decide. Reading port 21 shifts the modes by
  the wrong amount; the check of port 14 uses `pc` after the fetch; reading ports 05-07 in
  the boot map gives the pages of the boot map; `CPU_reset` neither locks flash nor
  clears port 24 or the modes.
* `core/hardware/lcd.c:379`: counting down takes `x` from 0 to -1, and data accessed there
  is in front of the display memory. A 6-bit word of column 20 or 21 is read and written
  together with the byte after its row, in the last row the byte after the memory. Bits 6
  and 7 of a 6-bit word are not masked and change the word to the left.
* `core/hardware/83psehw.c:823`: a crystal timer that stops itself in the middle of a late
  poll counts the rest of that poll down from its reload.
* A crystal timer does not wake a halted processor.
* `WCScan*Operation.m`: an operation that is superseded after its last look at
  `isCancelled` may set its results after those of the newer scan; they stay until the
  next edit (`late`).
* `core/hardware/83psehw.c:445`: port 0D accepts a byte while the assist is receiving and
  drops what it has heard, even a whole byte that waits for `in`.
* `core/hardware/link.c:43`: `link_init` does not bring the assist back to the start of a
  byte, so that a file sent after one that failed in the middle of a byte may be
  acknowledged bit by bit and arrive out of step.
* `RSTransferFileWindowController.m:60`: during a transfer its slot looks free, and a window
  opened meanwhile is given it.
* `src/Shared/RSCalculator.m:172`: the debugger's step commands run the CPU on the main
  thread while the transfer's thread runs it.
* `core/interface/calc.c:266`: after a load that failed the window is left with a slot that
  is free, or active without memory; whatever runs it or sends to it then uses freed
  memory.

## 4. Proofs

All theorems are for every value of the constants that the named assumptions allow.

* **`LinkCableProofs`** (`WidthAssumption`, `PeerAssumption`, `MaxBytesAssumption`):
  `TypeCorrect`, `EndsAgree` (`PortsAgree`), `BytesAreNotLost` (`NothingLost`),
  `NeverOverrun`, `CableRefinesChannel`. `TypeCorrect` and `NeverOverrun` hold on a disturbed
  cable too, the others until a byte is disturbed. None of these is inductive alone: that a poll
  appends the right bit needs to know that both ends are at the same bit, that needs to
  know which of the four phases the lines are in, and that the flags exclude each other.
  `IInv` is the conjunction of the types and, while the cable is `Intact`, the flags of one
  end, the phases of the pair and the account of bytes; `SeenFits` says what is left
  of a status that was read earlier: the assist is on and has sent nothing since. That a
  write keeps the pair in a legal phase then needs only that it is not receiving. The proof has a step per action and, for the poll, per
  phase; the refinement maps a poll that completes a byte and every other poll to a
  stutter, a write to a send and a read to a receive.
* **`VirtualLinkProofs`** (`WidthAssumption`, `TimingAssumption`, `BoundsAssumption`):
  `LinkTypeCorrect` (`TypeOK`), `SentBytesAreReceived` (`SentMeansReceived`),
  `VirtualLinkRefinesChannel` (`ImplementsChannel`) and `ServedNeverTimesOut`
  (`NoTimeOut`), for every width of byte, skip count and length of the waits.
  The PC's code does on the cable what a link assist would do: `PcAs` is the assist that
  each of its loops stands for, and each of its steps is one or two polls or accesses of
  that assist. So the invariant is `Safe` of `LinkPair` for the calculator's port and
  `PcAs`, and the lemmas on polls are those of the cable. After a `longjmp` the cable is as
  the loop that failed left it, which the invariant says with an existential over loops. All this
  (`Sound`) is kept while the link is not disturbed; a step that disturbs it only has to
  keep the types and the bound on `bit` (`Fits`). `NextFile` without a disturbance finds
  everything sent received and the assist idle, which is `Sound` at a beginning.
  `ServedNeverTimesOut` assumes that the program is attentive and that `Patience` is at
  least `LongestWait`, `2 * (Slow + 1) + 2 * SkipFactor` for a byte that the program has
  yet to take and the polls around it, plus `(Slow + 1) * SkipFactor + 1` for the answer,
  since a program may read its port back each time it could write, and then waits for a
  poll. With a skip count of 3 the 1.2 million looks of the code suffice for `Slow` up to
  about 240000 instructions. `Rank` bounds, for each of the four loops and each state of the
  port, the instructions until what the loop waits for is there; the invariant `Served`
  says that it is there or that the count of looks plus `Rank` is within `Patience`, and
  every instruction lowers `Rank`. Two facts outside this count had to join it: the wait
  before a packet outlasts the poll that ends the assist's own sending, and the PC sees
  the idle cable that ends its packet before the answer can begin (`pc.steps < ToPoll`).
* **`LinkTransferProofs`** (`FilesAssumption`): `TransferKeepsPromise`: the code implements
  `FileTransfer`, for any files, models and number of sheets. The invariant says of every
  step of a file how many of its parts are stored; only while the answer to the data is
  awaited may that be one or the other, and then an acknowledgement that is already
  there decides it. The arithmetic of steps, parts and offsets is in `Geometry`,
  `PartOffset`, `LastStep` and `NextStep`. `OneTransferReturns`: with one sheet,
  `ErrorsReturn`. Here the invariant says that while a packet is on its way both buffers
  hold a frame of this file; the lemma behind it is that the first packet of every file
  comes after a `setjmp` (`FirstPacketTries`). The packets that call no `setjmp` of their
  own use that one, which is why the assumption of one sheet is needed: `transfer_pair`
  shows the failure with two. `CounterIsExact` (`CounterExact`): in the middle of a packet
  `vlink_send` differs from the bytes sent by what the packet's code has taken off or yet
  to add (`Ahead`), modulo `Wrap`; the sum over the parts sent is taken apart with
  `NaturalFacts`. `RefusalsAreEnded` (`RefusalsEnd`).
* **`MemoryProofs`**, flash (`PagesAssumption`: up to 128 pages, a multiple of 4;
  `ProgramAssumption`): `FlashTypeCorrect`, `DecoderFollows` (`Progress`: the step tells
  which cycles were the last), from it `OnlyCommandsChange` and `OnlyErasesSetBits`;
  `SectorIsBlock` and `BlocksDisjoint` say, for every size of chip, that the arithmetic
  of `flashwrite` selects one block of the chip's geometry and that blocks are disjoint.
* **`MemoryProofs`**, map (`MapAssumption`: 2 to 128 flash pages, 1 to 8 RAM pages):
  `MapTypeCorrect` (`TypeOK`), `BootMapFresh` (`MapsAgree`), `CodeIsAllowed`
  (`NoForbiddenCode`), `SavedMapIsSeen`, `FlagFollows` (`FlagFollowsPage0`). The invariant
  adds that a saved state is well typed and that the map the program saw when saving is
  the one its fields give: without it `Open` could bring in anything.
* **`InterruptsProofs`** (`InterruptsAssumption`, `LongestAssumption`):
  `InterruptsTypeCorrect`, `EveryCauseShown`, `RequestsAreKept`, `CrystalsDoNotWake`. As
  every step ends in `Finish`, the invariant is proved once for it, from what an
  instruction may leave behind; it adds that a crystal timer asks only with its underflow
  set. That a late timer stays late needs the remainders in `Settled` and `Fold`, the
  reason why periods divide the longest. Of `CrystalTimer` (`TimerAssumption`), for every
  size of the register, burst of ticks and number of writes: `CrystalKeepsTime`
  (`NoDrift`), `CrystalStopsPastMax` (`StopsPastMax`) and `CrystalRefinesFlags`
  (`ImplementsFlags`). The invariant (`Kept`) compares the count with the clock's phase
  modulo one round of the timer. A poll serves the ticks one at a time, so that its
  lemmas go by induction on the ticks left (`SetInduction` of `NaturalFacts`), and
  the phase needs remainders by a number that is not a literal, which the solver does
  not know (`QuotientRemainder`, `RemainderMoved`).
* **`AppProofs`**, slots (`SlotsAssumption`): `SlotsTypeCorrect`, `SlotsAreOwned`
  (`NoSlotLost`), `TimerLeavesTransfersAlone` (`OneDriver`), `CrashesExplained`. The invariant
  adds that only an open window has a sheet or a debugger, that two windows share a slot
  only if `shared` says so, that a window without memory is explained by a load that failed
  last or a shared slot, and that the slot of a sheet that sends is inactive unless it is
  shared (`WhileSending`).
* **`AppProofs`**, scanner (`EditsAssumption`): `ScannerTypeCorrect`, `ResultsUpToDate`,
  `TokensAlwaysFit`, `NavigatorIsTold`, for any number of edits. The invariant follows each
  operation of the newest scan (`Published`), knows who may still set anything
  (`Superseded`) and that symbols and folds of the newest scan start after its tokens
  (`Waits`).
* **`AppProofs`**, LCD (`LcdAssumption`): `WordsAreKept`, `StaysInside`, for any operands, words
  and number of steps. Behind both is `PlaceIsPacked`: word y of row x, if it lies in
  its row, is bits `128 * x + word_len * y` and on, wherever bytes begin, so that two words
  share no bit.

Induction: the library's theorems take an operator as a parameter and cannot be cited here.
Where a proof needs one, `SetInduction` takes the set of the numbers for which the fact
holds; `NaturalFacts` proves it from the least element of a set of naturals, and from it
that a sum over a finite domain does not depend on the order in which it is taken.

Only model-checked: liveness (`EveryByteArrives`, `AlwaysReturns`, `EveryFileReturns`,
`HaltEnds`, `OnWakes`, `EveryTimerExpires`, `ScanSettles`), since TLAPS as used here has no
rules for fairness. Every invariant and every safety property of the passing runs is a
theorem; `ServedNeverTimesOut` bounds what `AlwaysReturns` leaves to fairness when the
program serves its port.

## 5. Not modelled

Instructions and flags of the Z80, screenshots, labels, the disassembler, file formats
and spasm are sequential functions on data that tables test better. Views and the
document architecture are driven by one thread and by frameworks outside the
repository. Vendored code (BGHUDAppKit, PSMTabBarControl, Sparkle, gmp, openssl), which is
most of the repository's lines, has projects of its own.

Of the components that are modelled in part:

* CPU: registers, the address an interrupt goes to, `CPU_connected_step` with the hub of
  more than two calculators, which the Mac applications do not set up.
* LCD: busy delay, contrast, `z`, the queue of grey images. Keypad: the matrix and port 01;
  the update of `on_pressed` by two threads is one step here, a read and a write in
  the code.
* Ports of the MD5 unit (arithmetic), USB (constants), the clock of ports 40 to 48; the
  hardware of the TI-81, 82, 83, 85 and 86.
* Slots: speed, profiler, where breakpoints are set and whether a calculator resumed at one goes on; the
  reload of a calculator by a WabbitCode build during a transfer sheet
  (`WCDebugController.m:154-184`).
* Saved states: registers, LCD, timers, breakpoints, compression.
* WabbitCode: files that need no symbols (the other branch of `scanTokens`), searching,
  highlighting, the navigator's list of files, builds.

## 6. Plan

What would come next, in this order:

1. Composition of `FlashChip` and `MemoryMap`: flash does not change while it is locked.
2. The grey queue and the busy delay of the LCD.
3. `on_pressed` updated by read and write from two threads; breakpoints in the
   memory map.
4. Builds of WabbitCode: messages looked up in a text that is being edited.
5. Proofs for what 1 to 4 add.
