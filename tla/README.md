# A TLA+ verification of M-OS (murmulator-os)

M-OS is a small operating system for RP2040/RP2350 boards: FreeRTOS tasks on
core 0, a video/sound loop on core 1, FatFs on an SD card, a command line with
pipes, ELF programs loaded from the card, a virtual RAM paged to a swap file, a
PS/2 keyboard and a USB mass-storage mode.  This directory models the parts
whose correctness depends on order, failure or long sequences of calls,
model-checks them with TLC and proves the most important facts with TLAPS.

## Inventory

Paths are relative to the repository (its root is `src/` in PROJECT.json).  FreeRTOS (`Source/`, `Minimal/`), the
Pico SDK headers and the emulators under `apps/` are other projects' code and
are not modelled; where M-OS relies on them (queues, `vTaskSuspendAll`, the
heap, the FAT file system) their behaviour is taken from the way M-OS calls
them.

| Component | State it keeps | Operations | What is hard |
|---|---|---|---|
| Paged virtual RAM, `src/ram_page.c` | frames, page table with dirty bits, rolling victim index, one-entry lookup cache, swap file | `init_vram`, six reads and writes, flush and load | I/O failing between eviction and load; stale lookup cache; words across pages |
| Pipes, `drivers/fatfs/ff.c` | a queue of 512 characters, the two ends' `fptr`, `chained`, `sect`, `clust` | `f_open_pipe`, `f_read`, `f_getc`, `f_write`, `f_close` | blocked readers and writers, closing in either order, scheduler suspension |
| Command contexts, `src/cmd.c` | a doubly linked chain of contexts, each with argv, environment, stage, three streams and a task | `new_ctx`, `clone_ctx`, `prepare_ctx`, `cmd_enter_helper`, `cleanup_ctx`, `remove_ctx`, variables | who frees what, half-built pipelines, detached programs |
| Program execution, `src/app.c` | stage of the context, tasks | `exec`, `exec_sync`, `vAppDetachedTask`, `vCmdTask`, `kill` | ownership handed from one task to another |
| Program loading, `src/app.c` | section lists, flash allocator | `load_app`, `load_sec2mem`, `flash_block`, `free_app_flash`, `cleanup_bootb_ctx` | one step of several failing, flash wear, freeing what a list still names |
| Firmware boot, `src/main.cpp`, `src/app.c` | boot marker on the card, firmware in flash, the flash list, the reboot request | `process_input_on_boot`, `mount_os`, `check_firmware`, `load_firmware`, `read_flash_block`, `flash_block`, `link_firmware`, `reboot_me`, `render_core` | a reset between two steps; core 1 runs from the flash being written; two tasks in `flash_block` and its list without a lock |
| Sound, `src/sound.c`, `apps/wav/wav.c` | buffer, offset, size, call-back; the player's list of chunks | `pcm_setup`, `pcm_set_buffer`, `pcm_call`, `pcm_end_callback`, `try_cleanup_it`, `pcm_cleanup` | two cores without a lock |
| Keyboard, `drivers/ps2/ps2.c`, `src/keyboard.c` | bit frame, ring of codes, modifier flags, one-character mailbox | `KeyboardHandler`, `ps2getcode`, `ps2poll`, `handleScancode`, `getch_now`, `__getc` | interrupt against tasks, lost keys, framing |
| SD card, `drivers/sdcard/sdcard.c` | `Stat`, `CardType`; the card's own state | `disk_initialize`, `disk_read`, `disk_write`, `disk_ioctl` | lost answers, time-outs, multi-block transfers cut short, power failures |
| USB mass storage, `drivers/usb` | attached and ejected flags, the USB task | `usb_driver`, `usb_task`, media callbacks | ejecting while attached, the card shared with tasks |
| Clock, `src/overclock.c` | last accepted clock | `overclocking`, `overclocking_ex` | stale divisor settings |
| Lists and strings for programs, `api/` | linked nodes, growing buffers | `list_*`, `string_*`, `array_*` | links in both directions, capacity |
| Console, `drivers/graphics` | cursor, text buffer, colours | `gouta`, `clrScr`, `graphics_set_con_pos` | cursor at the edge, scrolling |

How they interact: programs call the system through a table of addresses, so
every operation above runs in the task of the program that asks.  A command line
makes contexts joined by pipes; `vCmdTask` loads all of them with the loader and
hands each to `exec`; each program's end closes its streams, and so its pipes.
The keyboard interrupt calls `app_signal`, which reaches the running program
through `bootb_sync_signal`.  The virtual RAM, the loader, the history and USB
share the SD card; the pipes and FatFs share `FIL`s.

What makes each part correct: the pager is a memory (what is read is what was
last written, unless a transfer failed); a pipe is a stream of bytes with one end;
a file and a block have one owner and are freed once; a loaded image is closed
under its references and nothing else takes its flash; a decoder of key codes is
in step with the device and knows which keys are held; a marked firmware is whole
and is started; the card driver is a block device; core 1 plays live chunks in order.

## The modules

| Module | Models | Extends |
|---|---|---|
| `VramCalls` | addresses, pages, words and requests of the virtual RAM | |
| `FlatMemory` | abstract: what the virtual RAM promises | `VramCalls` |
| `RamPage` | the demand pager | `VramCalls` |
| `ByteStream` | abstract: what a pipe promises | |
| `Pipe` | the two ends of a pipe and their tasks | |
| `Shell` | command lines, contexts, `vCmdTask`, `exec`, detached tasks, kill, Ctrl+C | |
| `AppLoader` | `load_app`, the flash allocator and clean-up | |
| `Keyboard` | the device, the interrupt handler, the modifier state, the mailbox | |
| `Firmware` | boot, loading a UF2 firmware, resets, core 1, and another task's loads and clean-ups step by step | |
| `BlockDevice` | abstract: what the card driver promises | |
| `Storage` | the SD card driver and the four kinds of card | |
| `Sound` | a player on core 0 and `pcm_call` with its call-back on core 1 | |
| `RamPage_proofs`, `Pipe_proofs`, `Shell_proofs`, `AppLoader_proofs`, `Keyboard_proofs`, `Firmware_proofs`, `Storage_proofs`, `Sound_proofs` | theorems about the module they are named after | that module |
| `MC_*` | instances for TLC | |

In each module an operator that precedes the one it resembles and has a name such
as `SyncAtOnce` next to `SyncSelect` is a plausible wrong version of it; no
action uses it.  PROJECT.json pairs each with the property that finds it out.

Each module has one type invariant.  Where there is an inductive invariant the type
invariant is its first conjunct and is checked with it (`PagerInv`, `PipeInv`,
`KeyboardInv`, `FirmwareInv`, `StorageInv`, `SoundInv`); `LoaderInv` is that of the
loader with the records of its flash, `ShellInv` that of the shell with the ownership of
files.

## Paged virtual RAM

`RamPage` has one action for each branch of `get_ram_page_for` (`FastHit`,
`ScanHit`, `Miss`), for each outcome of the transfers it makes (`FlushOk`,
`FlushFail`, `LoadOk`, `LoadFail`), for the access that follows and for
`init_vram` and its error paths.  The variables are the statics of `ram_page.c`;
`pc`, `call`, `pos`, `res` and `ram_page` are the locals of the running call.  A
failed transfer may leave any block behind.  Words that straddle two pages are
served byte by byte, each byte with a lookup of its own, as the code does.

`FlatMemory` is the promise: an array of bytes from one `init_vram` to the next, in
which a failed transfer loses the bytes being served and nothing else.

* `rampage_evict` (3 pages, 2 usable frames of one byte): replacement.  Two usable
  frames for three pages are the least where the rolling index, the lookup cache
  and the victim can name three different things.
* `rampage_straddle` (2 pages of 2 bytes, one usable frame, addresses up to 4):
  words across a page boundary, whose two halves evict each other, and requests
  that end past the swap.

`CallReturns` assumes that the running call goes on (`WF_vars(Step)`): it is one
task's straight-line code.  One call is in progress at a time: the code has no lock
and two tasks would break it, which no text of the repository excludes or allows.

*Proved for every geometry.*  `PagerInv` is inductive.  None of the safety
properties is so alone: that a clean frame equals its block (`CleanMatchesFile`)
survives a load only because a miss implies that no other frame holds the page
and because a dirty victim has been written (`CallInProgress`); that no page is in
two frames needs the same; that the lookup cache is right needs that it is
dropped before its frame is loaded over.  `RamPage_proofs` has a step for each
action; from the invariant follow `OneFramePerPage`, `CleanMatchesFile`,
`LastAgrees`, `RightFrame` and `NoDirtyPageDropped`.  Its last part shows that
every step is one of `FlatMemory` or a stutter, with the lemmas on addresses (the
split into page and offset is one to one, the bytes of one lookup are in one page)
before it.  `CallReturns` is model-checked only.

## Pipes

`Pipe` has the two `FIL`s as `f_open_pipe` links them: the queue, `fptr` of both
ends, the reader's `sect`, and what each program does.  Actions are `f_write` with
`SendByte` for each blocking send, `f_getc` with `ReceiveByte`, `f_read` (all of it
in one step, because it suspends the scheduler), and `f_close` followed by the
`vPortFree` of the end.  The queue is FreeRTOS's and modelled by what its calls do;
bytes are counted, since they pass through one queue.  `faults` records the rules of
FreeRTOS and of the heap that a step breaks.

* `pipe_stream` (queue of 2, 5 bytes, writes of up to 3, reads of up to 2): the
  writes exceed the queue, so the writer blocks in the middle of one; the reader
  reads to the end or stops at any point.
* `pipe_end`: after the writer has closed its end, the reader must see the end.  It
  does not when it is already waiting in `xQueueReceive`: closing only sets a flag.
* `pipe_exit`: `f_read` returns at the end of a pipe with the scheduler suspended; a
  task that then deletes itself runs into FreeRTOS's assertion.

A reader that stops early deletes the queue that its writer still uses:
`NoUseAfterDelete` says that this does not happen, TLC refutes it, and no text of the
repository promises it, so no run states it; of readers that read to the end it holds, which
is the conjunct `QueueOutlivesWriter` of `PipeInv`.

Fairness is `WF` of each of the two tasks: they have the same priority and time
slices, and each goes on whenever the queue lets it.  The writer's fairness also
has its program come to an end.

*Proved for every capacity, length and size of transfer:* `PipeInv`, whose heart is
`PipeEnd` (who has seen the end knows that the writer has finished and that the
queue is empty, so deleting the queue is harmless) and `PipeCount`; and that `Pipe`
implements `ByteStream`.  `WriteReturns` is model-checked only.

## Command contexts and programs

`Shell` has a record for each `cmd_ctx_t` with its streams, arguments, link, stage and
program, the state of each `FIL`, the program counter of `vCmdTask` and the state of
each detached task.  `cmd_enter_helper` is one action for a whole line of up to
`MaxCmds` commands, some of which cannot be prepared; `Load` and `LoadFails` are the
round of `vCmdTask`; `Detach`, `Start`, `Refuse`, `End`, `Finish` are `exec`;
`TaskStart` to `TaskDelete` are `vAppDetachedTask`, whose `remove_ctx` is split at the
point where it can be preempted; `kill` runs in the foreground against any task.
Contents of commands are left out: a command has words or not and a redirection
that opens, fails or is absent.

* `shell_lines` (one line of up to three commands, `kill` with and without -9): one
  line goes through every stage, and with three commands there is a middle of a
  pipeline that has both ends.  A second line enlarges the state without new
  interactions: the interpreter starts from a context that owns nothing, which
  `PromptClean` checks.  A `kill -9` that reaches a task in its own `remove_ctx`
  frees twice; the model does it and records a fault of its own, which
  `NoDoubleFree` does not count.
  `HandlerLoaded` says that the one Ctrl+C handler, which programs that overlap set and
  clear, is never that of a program already unloaded.

`PromptReturns` assumes `WF` of `vCmdTask` and of each detached task, i.e. that programs
end.  Three formulas that TLC refutes are in the module for the reader:
`PipesRemoved` (contexts of a pipeline are never freed when a command is not found),
`RedirectionHasWriter` (in `a > file | b` the pipe replaces the file) and
`SignalIsForeground` (a detached program takes over the handler of the foreground one
and clears it at its end, `app.c:891`, although `app.c:1061` speaks of the current
context only).

*Proved for every number of lines, commands and of their streams:* `ShellInv` (each `FIL` has
one owner), `NoDoubleFree`, `PromptClean`, `Joined` and `HandlerLoaded`, all conjuncts or
consequences of one invariant, `ContextInv`, because none is inductive without the others:

* identities are taken in order and suffice (`Fresh`, `Bounds`: a clone is made only for a
  context that waits to be run, so each context of a line is counted twice at most);
* a context says itself who works on it (`Own`, `Detached`): `vCmdTask` while it has no task and
  is live, its task from `xTaskCreate` on.  `Arguments` ties the arguments to the stage;
* `Links`: a link leads to a context that `vCmdTask` owns, no two links to the same one, and
  what follows a loaded context is loaded.  So the walk along a pipeline never meets a context
  handed to a task, and `Chain` and `FollowsNext` of the model are paths along such links;
* `Owned` and `Joined`: the sets of `FIL`s of two live contexts are disjoint, and a pipe's two
  ends belong to a context and to the next one;
* `Control` says what the context `vCmdTask` is at looks like at each point of its loop, and
  `Handler` that every context whose handler is set is loaded.

Each action is first reduced to what it changes (lemmas such as `LineContexts` for
`cmd_enter_helper`, which makes a whole line of contexts), and the conjuncts are then shown one by
one.  The only assumption is `ShellAssumption`.  `PromptReturns` is model-checked only.

## Program loading

`AppLoader` takes an ELF file as the sections that each section's relocations name,
the read-only ones, sizes, alignments and the sections of the three entry points.
`load_sec2mem`'s recursion is the variable `stack`, one frame a call, with the
relocations that remain; relocations come in any order.  `Place`, `Relocate`,
`Returned`, `Complete` and `Fail` are its parts, `StartFlash`, `Program`, `ProgramPart` and `GiveUp`
the programming loop with `flash_block`, `load_app`, `load_sec2mem_wrapper` and
`LoadEnds` the function around them, and `End` the clean-up of a program, which a
detached one does at any moment.  Flash is addressed in halves of a sector, so
alignment and the rounding to sectors both show.

* `loader_load` (three loads of two images of three sections, one of them cyclic,
  one failure, error of the card or overlap): the first two programs are resident together, the third
  load follows a clean-up and reuses what it freed.  The bound `FlashTop`, a guard of
  `Place` that the code lacks, is above all that these programs take, so it stops no call.
* `loader_free`: the block of a section that went to flash is freed again at the
  clean-up, against the heap's assertion.

Errors of the card on `flash_me` are outcomes of their own.  When it cannot be opened,
sought in or written (`app.c:586-600`) the code prints a line and goes on: `Unwritten` leaves
it as it was or with any shorter end, and the section still goes to `lst`.  When a read of
it fails after some bytes (`app.c:797`), `ProgramPart` flashes what was read with the rest of
the buffer from the sector before; with none, or when it cannot be opened or sought in,
`GiveUp` leaves the loop.  In each of these cases `load_app` returns as if all had gone well.

Most of the properties start with `Calm`: no load failed, no clean-up ran while another
program was being loaded, `flash_me` was written and read without an error, and no flashing
was given up.  Without it they do not hold, and the hazards say which lines are the reason.
`hazards` has an element for each (`failed`, `overlap`, `unwritten`, `unread`, `unflashed`), and the run
meets one of them in each behaviour; `NothingLeaks` and `LoadReturns` hold of all.  `FlashHolds` is stated for programs with one
section in flash, because `flash_me` is created anew for every section and keeps only
the last; `FlashHoldsAll` is the formula one would want, and TLC refutes it.  When a
clean-up lowers `flash_addr` under a running `load_sec2mem`, its unsigned difference
wraps; the model goes to `undefined` and stays there.  `LoadReturns` assumes that the
loading task goes on (`WF_vars(Loader)`).

*Proved for any images, any number of programs and of sections.*  Three invariants, one
on top of the other.

`ListInv` needs no hypothesis on what failed: a block that is allocated has an entry
in its program's list, a list names no section twice, and every call on the stack
has its section in the list, except the last one before `Place`.  It gives the types with
the depth of the recursion (no section is on the stack twice, so an injection
into `Sections` bounds it), `NothingLeaks`, and with `KeptInRam` also `RamFreedOnce`.

`ClosedInv` is about undisturbed loads.  `LoadComplete` is not inductive: while references
are followed a section is in the list long before its relocations are resolved, and with
a cycle the section that needs it returns first.  `Linked` says that each relocation is
either resolved against an entry of its target or still in the `todo` of some frame;
the stack is empty when the load ends.  `Tidy` ties each frame and the value
returned to the call that waits for it, and holds what `Complete` tells RAM from flash by.

`FlashInv`, also of undisturbed loads, is the layout of the flash.  Between loads
(`Settled`) any two programs lie one wholly before the other, each begins at the start of a sector,
its units are covered by records, and `flash_addr` is behind them all.  That each begins on a
sector is what makes a clean-up safe: it removes the records between its own first
and last section, and the record that holds the first unit of the next program cannot be
one of them (`HeldBetween`, `CleansFlash`).  During a load `LastLoaded` puts the
program behind all others, `Noted` says that `lst` and the frames on the stack account
for every section it has in flash and that `flash_me` holds the last one; in the
programming loop (`Progress`) nothing from `addr` on is recorded, what lies below it is, and a
single section is written up to there.  While the loop runs `flash_addr` is lower
than the program's end, because `flash_block` sets it: `LoaderInv` states it outside the
loop only.  `Complete` has `Calm` of the next state as a hypothesis here, which leaves the
outcome in which `flash_me` was written; without it nothing is said of the flash.  From the three follow `SectionsDisjoint`, `LoaderInv`, `FlashHolds` and
the action property `FlashKept`.

The proof also shows that in an undisturbed load the difference in `Complete` never wraps
(`NoWrap`), so the wrap that `Wrapped` models comes from clean-ups or failures alone.  The only
assumption is `LoaderAssumption`: sections are numbered from 1, sizes are positive and
alignments 1 or 2 units.  `LoadReturns` is model-checked only.

## Keyboard

`Keyboard` has the device (keys held, bytes to send), `ps2buffer`, the flags of
`kbd_state_t`, the Alt code, the mailbox `__c` and a task in `__getch`.  The mailbox
carries a number beside the character, so that a property can tell one key press from
the next.  `Receive` is the interrupt at the last edge of a frame with everything it
calls (`ps2poll`, `ps2getcode`, `handleScancode`); `Lose` and `Misread` are frames cut
short or changed; the reader's look, read and clear are three steps between which the
interrupt may come.

* `keyboard_keys` (Ctrl, Alt, Del, a digit, NumLock; six presses, repeats or releases;
  one frame lost, or read as a Ctrl code or a prefix): six events are enough for three
  digits of an Alt code with Alt pressed before and released after, and for the
  three-key reset.  A key moves only when at most one byte is unsent, which keeps the
  state small; bytes are still read long after the key moved.

The keys leave out Pause, whose code the decoder takes for a press of Ctrl: with it among
them TLC refutes `ResetNeedsKeys`, since Pause, Alt and Del then reset the machine.

*Proved, for every set of keys, any noise and any number of events:* `KeyboardInv`, that
is the types (what `__getch` gets is a character), `BufferFramed` (the buffer holds at
most the start of one code, so it never fills) and `NoStaleTricode` (an Alt code has at most
three digits and is under way only while Alt is held).  The argument: everything on the
wire is a byte, a code takes either the whole buffer or waits (`CodeTakesAll`,
`IncompleteIsFramed`), and `handleScancode` sees the release of Alt before anything else can
add a digit (`ActKeepsDecoded`).

*Proved as well:* `ReadOnce`, from `ReadInv`: the number in the mailbox is never below the one
last read, and above it while the character there is still to be read.  `NoStuckModifier` and
`ResetNeedsKeys` need more: what the decoder thinks of a modifier depends on bytes sent long ago.
`Follows` speaks of the whole stream, the bytes in `ps2buffer` and on the wire: it is a sequence of
codes; a modifier thought to be held has its key down or a code that ends it on its way; and a code that
starts it is for a key still down or has one that ends it behind it.  It survives a step because a key adds its whole code at the end and the
handler takes its whole code from the front.  Both theorems are about streams in which no frame was
lost or misread, as the properties are; `ResetsNeedKeys` assumes in addition that Pause is not
among the keys, because its code makes the property false.

## Firmware

`Firmware` is core 0 from power-on: `process_input_on_boot` with a disjunct for each key,
`mount_os`, `check_firmware`, and then M-OS, in which `load_firmware` may be called again
and again.  `read_flash_block` is one step with all of what `load_firmware_sram` does of its
result; `f_open` and `f_close` are the marker file.  `render_core` is core 1, which sees a
request for a reboot and arms the watchdog, and `reboot_me` may be called by any program.

Beside the loader of the firmware another task of core 0 loads programs into flash and
cleans up after them (`load_sec2mem`, `load_app`, `cleanup_bootb_ctx`, `list_erase_node`).
Both go through `flash_block` step by step, `FlashBlock(t)`: the search of the list, the new
`flash_addr`, the record with the comparison, the lock-out of core 1, the erasing, the
programming page by page, the release.  The scheduler changes tasks between any two of them
except while interrupts are off, from the erasing to the end of the programming
(`Scheduled`).  So both tasks may find one sector free, and one may write what the other
has just written.  `flash_list` has no lock: an operation on it is torn when the other task is
inside one that changes the same links (`Raced`), and a torn list, like the one that
`load_firmware` deletes without clearing the pointer, may be anything at each use or fault.
A second lock-out while core 1 is locked out panics in the SDK, which is `fault`.  A clean-up takes
every record between the program's first and last section, whoever made it.

Flash is addressed in pages of 256 bytes and a file is the sequence of the pages of its
blocks; a page holds M-OS's boot2, nothing, a program, or the page of a file.
`FirmwareAssumption` says how `elf2uf2` orders blocks: by address, each run at the start of
a sector, with the block at 0xFFFF00 that some tools add first or last.  (A block there in the
middle of a file would end the load with what came before it; `app.c:167` breaks off.)

Faults: the power fails at any step; a read of the file, the mount, or the creation of
the marker fails; `f_open` of a marker that is there fails at the boot and M-OS starts
over it (`main.cpp:103`); and the marker's directory entry may or may not be on the card if
the power fails before `f_close` has returned.

`troubles` records what the code does not notice, or only prints:

| Trouble | What happened |
|---|---|
| `unread` | a read of the file failed and ended the image like the end of the file |
| `rejected` | a block of the firmware was skipped, its sector being recorded |
| `stale` | `load_firmware` worked on the list it had deleted |
| `raced` | two operations on the list met, one of them changing it |
| `overlap` | a sector was recorded that the other task had recorded since the search |
| `unrecorded` | a clean-up took a record of the firmware |
| `unopened` | M-OS was started, or the firmware loaded, over a marker that could not be opened |

Each of the seven alone lets TLC find a marked firmware that is torn, and each is a way of the
code, not of the model.

* `firmware_load` (three sectors of two pages, six files, three loads, programs, `reboot_me`
  calls or power failures in all, programs of up to two sections of a sector each): the files are one
  of two full sectors, one with a sector cut short and one skipped, one without the first
  sector, one that starts and one that ends with the block that is not flashed, and one too
  large.  Three events let a program and a firmware load overlap and one reset or clean-up come between,
  or two loads follow each other; two sections make a range with another's sector in it.

`MarkedIsWhole`: a marker the loader wrote vouches for a whole firmware in flash, if none of the
troubles came.  `BootloaderKept`: boot2 is lost only by a reset between the erasing
and the programming of the first sector.  `UpMeansUnmarked`: M-OS is up over a marker only when
`f_open` failed on it at the boot.  `CoreOneStill`, in `FirmwareInv`: core 1 is locked out while
either task erases and programs, also when one is preempted between its lock-out and its
release and the other asks for its own.  `MarkedIsStarted`: a firmware that was marked is
started, unless a key is held or the card is gone or does not open the marker; this assumes that
core 0 goes through its boot (`WF_vars(Boot)`), the loading task is scheduled (`WF_vars(Load)`), so
is the other one in its `flash_block`, during part of which the loader cannot run
(`WF_vars(FlashBlock("app"))`), core 1 runs (`WF_vars(render_core)`) and an armed watchdog
fires.  Nobody need ask for a load.

*Proved for every flash, set of files, number of events and of sections:* the three safety
properties and `CoreOneStill`.  `FirmwareInv` has no hypothesis on the troubles; it and
`WholeInv` are shown inductive together, for a block is written where its offset was read.
`MarkedIsWhole` needs of `WholeInv`: what has been read so far is in flash and recorded
as the firmware's, or is in the buffer that is being written (`Stored`, `BlockKept`); what the
other task is about to write it has recorded itself, and no sector is recorded twice
(`ListTracked`), so that the two never write one sector; the offset of the next block is
where the last one ended, or the start of a new run (`InStep`), so that a sector about to be
erased holds no page read before.  `Firmware_proofs` has a lemma for each group of actions;
those of `read_flash_block`, of the two records and of the two programmings carry the argument.
`MarkedIsStarted` is model-checked only.

## SD card driver

`Storage` has the driver's statics, the call being served with the sectors it has left,
and the card.  Each exchange with the card is one action: a command with its answer
(`send_cmd`, with `CMD55` in front for an ACMD), a data block, a stop token.  The card is external: it is of
one of four kinds (MMC, SD1, SD2, and SDHC, which counts sectors), takes commands as its state
allows, and is deaf during a transfer to all but the end of it; `pend` is the sector being
programmed.  A command, an answer or a block may be lost (`MaxFaults`), which is then
what the driver reads as 0xFF; the card may be busy for longer than any time-out, be
exchanged for another, or lose power with the processor, when the sector being programmed
holds anything.  The model's channel loses but does not corrupt, because no CRC is sent or
looked at, and a call is made when the one before has returned, because the driver has no lock.

`BlockDevice` is the promise: a call works on the sectors asked for, one after another; it
may fail at any point, but `RES_OK` means that all was done, and after a `CTRL_SYNC` that
succeeds a power failure spoils nothing.

* `storage_calls` (three sectors, two values, transfers of up to two sectors, two faults,
  deadlock checked): with three sectors a transfer of two can start at a wrong place, and two
  faults lose both the answer that opens a transfer and the one that ends it.
  `ImplementsBlockDevice` is the refinement; `TransferClosed` says that a transfer is closed
  when the call returns, unless the very exchange that opens or ends it was lost: a `CMD18`
  whose answer is lost is never stopped by this code.  `CallReturns` assumes `WF` of the
  driver and of the clock, and nothing of the card.

*Proved for every number of sectors and faults:* `StorageInv`, whose point is
`AddressingAgrees`: the driver and the card count alike, whichever answers of the start-up were
lost or late.  The reason is `StartUp`: the type is decided from a card that CMD0 has just
reset, and one that counts sectors never comes up without HCS.  On it rests `CallInv`: at each
point of a call it says in which state the card is (unless a lost exchange left it in another one),
which sector it is at and how many are left, and which sectors have been done.  From it follow
`TransferClosed` and the refinement: every step of the driver is a step of
`BlockDevice` or a stutter (`DriverImplementsBlockDevice`), with one lemma for each exchange.
`CallReturns` is model-checked only.

`CTRL_TRIM` and `GET_BLOCK_SIZE` are not modelled: FatFs is compiled without the calls
(`CTRL_TRIM` would always return an error, since `MMC_GET_CSD` is not in the switch).

## Sound

`Sound` is the I2S build: `wav.c` (of which `ay`'s `MOSAudio.c` is a copy) fills chunks on core 0,
publishes the first with `pcm_set_buffer` and links the others; `pcm_call` on core 1 takes one frame
per tick and calls the player's `pcm_end_callback` at the end of a chunk.  The two share volatile
variables without a lock, so each action is one access of one core: the six assignments of
`pcm_set_buffer`, the four reads of a frame, the steps of the call-back, the three of
`try_cleanup_it`.  A file of 8-bit sound makes two chunks of each read.  A node that has been
freed is read as it was, as zero, or as a wild pointer.  Init is whatever a former
player left after its `pcm_cleanup`, and one session is modelled.

* `sound_play` (six chunks, of two frames, four in memory at once): the list runs dry and is
  started again, and memory is short while chunks are being played.  `SoundInv` includes
  `ReadsInBounds` (core 1 never reads past the end of a chunk or of the former player's
  buffer); `ReadsLive` that no chunk is freed that core 1 may read, until the file ends;
  `InOrder` that chunks are played in the order of the file and none twice; `CallBackReturns` that
  core 1, which also draws the screen, never waits in the call-back.  It assumes
  `WF_vars(Output)`, that core 1 runs, and nothing of the player.

*Proved for every number and length of chunks:* `SoundInv`.  Alone `ReadsInBounds` is not
inductive: it needs `OldGone` (core 1 stands still until there are channels, and by then the old
buffer and its size have gone, because `pcm_set_buffer` takes the size away first) and `Compared` (the
offset compared with the size is the one read at, unless it became 0).

`InOrder` follows from `OrderInv`: the chunk core 1 is at comes before the one being published, which
comes before those still to be linked, at every assignment of `pcm_set_buffer` and every
step of the call-back.  `ReadsLive` needs `KeptInv` besides: what has been freed was `PROCESSED`, and the chunk at
`m_buff` is not while core 1 may take a sample of it, since the call-back marks a chunk only when it
is at its end.

The model also does what the code does when no property is stated: a list that runs dry
while the player publishes the next chunk leaves `m_buff` NULL and the sound stops; at the
end of the file the player frees each chunk as soon as it is being played, and spins for
ever on a file of one chunk (the hazards name the lines).  The PWM build, whose `pcm_cleanup`
leaves the buffer and the call-back of the former player in place, is not modelled.

## Findings

| Run | The code does | The repository says |
|---|---|---|
| `pipe_end` | a waiting reader is not told that its writer closed, `ff.c:3961` | "notify chained", `ff.c:4253` |
| `pipe_exit` | `f_read` leaves the scheduler suspended at the end, `ff.c:3986` | `configASSERT( uxSchedulerSuspended == 0 )`, `tasks.c:2324` |
| `loader_free` | a section's block is freed twice, `app.c:607` | `configASSERT( heapBLOCK_IS_ALLOCATED( pxLink ) != 0 )`, `heap_4.c:401` |

## What is proved and what is only checked

The theorems hold for every value of the constants that satisfies the named
assumptions (`VramAssumption` and `FramesAssumption`, `PipeAssumption`,
`ShellAssumption`, `LoaderAssumption`, `KeyboardAssumption`, `FirmwareAssumption`, `StorageAssumption`, `SoundAssumption`); TLC
evaluates them in every run.  Every safety invariant and action property of a passing run, and
the three refinements, are stated by a theorem.  Model-checked only: liveness and
everything that needs fairness (`CallReturns` of the pager and of the card driver,
`WriteReturns`, `PromptReturns`, `LoadReturns`, `MarkedIsStarted`, `CallBackReturns`), which
the prover does not reach.

Recursion over data (the loader's stack, the chain of contexts) is written as
variables and as functions, so that the modules can be proved about; a statement
that needs induction over such data stays with TLC.

## Hazards without a property

PROJECT.json lists with a note the hazards that no property covers: those for which the
code has no bound or lock to state a property of (two tasks in the pager, in the card
driver or in a variable's value; a clean-up during a load; the growth of `flash_addr`).
What they have in common is that the code goes wrong there and that no text of the
repository says it should not; a property would only restate the defect.

## Not modelled

PROJECT.json lists every part with the reason.  In short: FreeRTOS, FatFs, TinyUSB,
the emulators and other programs are other projects' code, and they are most of the
repository's lines; video, the game pad, PSRAM and the SPI and PIO transfers are hardware
access; the system table and the hard-fault handler have no state; the line editor, the
clock, the lists and the console are sequential, and unit tests reach what can go wrong in
them; the USB call-backs are single calls of the card driver, whose session is TinyUSB's;
the environment variables have a race (noted as a hazard) and nothing else.

## Plan

Done: 1. the virtual RAM with its refinement and proofs; 2. pipes, likewise;
3. command contexts and programs, and 4. program loading, checked; 5. the
keyboard, checked and its invariant proved; 6. sound, 7. the card driver with its
refinement and 8. firmware loading and boot, checked and their invariants proved.

9. the safety properties of the shell, the loader, the sound, the keyboard and the card
driver with its refinement, proved.

Left: an abstract specification of the shell's ownership of files, and the loads that programs
themselves ask for while another is being loaded.

The virtual RAM keeps two runs: one geometry with both replacement and straddling
words (three pages of two bytes, two usable frames) has 5.4 million states and is
too slow once the refinement is checked on each.
