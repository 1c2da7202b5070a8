# Verification of the kernel in `src/myos`

This directory holds TLA+ models of a small i386 kernel, the TLC runs that
check them and the TLAPS proofs about them. Sources are named relative to
`src/myos/source` unless a header is meant. `PROJECT.json` lists the components,
runs, mutants, findings, hazards and theorems, and maps definitions to source lines.

## The system

The kernel runs on one processor without memory protection. `kernelMain`
(`kernel.cpp`) builds every object on its stack, in this order: descriptor table,
heap, task manager, interrupt manager, system call handler, keyboard and mouse
drivers, PCI enumeration, which creates network drivers on the heap; it then activates
the drivers, in graphics mode sets the video mode and adds two windows to the desktop,
enables interrupts, uses the disk and loops. There is no scheduler loop: everything
after that happens in interrupt handlers, which run with interrupts disabled and may
return to another task than the one they interrupted.

| Component | State | Operations | What is hard, and what makes it correct |
|---|---|---|---|
| Memory manager (`memory_management.cpp`) | a doubly linked list of chunks inside the heap | `malloc`, `free`, constructor | long call sequences, wrap-around of sums; the list tiles the heap, blocks are disjoint, free joins neighbours |
| Tasks (`multitasking.cpp`) | table of tasks, current index, each task's saved frame | `addTask`, `schedule` | a switch in the middle of anything; each task keeps its registers, everyone gets a turn |
| Interrupts (`InterruptManager.cpp`, `interruptstubs.s`) | table of handlers, the active manager, the two controllers' in-service lines | stubs, `handleInterrupt`, `activate`, `deactivate`, registration | acknowledgement on every path, to the right controllers; frames saved and taken back in the same layout |
| System calls (`system_calls.cpp`) | none | print | the call number is 0xA0 inside, 0x80 outside; arguments come from the caller's frame |
| Console (`print_to_console.cpp`, mouse handler of `kernel.cpp`) | position, video memory, cursor | `printf`, `onMouseMove` | printf is interrupted, between any two of its loads and stores, by handlers that print through the same static variables and exchange colours |
| Keyboard and mouse (`KeyboardDriver.cpp`, `MouseDriver.cpp`) | shift state; packet offset and buffer; the controller's configuration | `activate`, `handleInterrupt` | one data port for two devices and the controller's answers; no byte may be attributed to the wrong one |
| ATA disk (`AdvancedTechnologyAttachment.cpp`) | none; the drives have registers, a cache and a medium | `identify`, `read28`, `write28`, `flush` | polling a drive that is absent, slow or failing; whole sectors, whatever part of one the caller wants: two loops of words, with odd, negative and too large counts |
| Network card (`AMD_am79c973.cpp`) | two descriptor rings shared with the card | `activate`, `handleInterrupt`, `send_data`, `receive_data` | the card works on while the handler runs; rings at their limit; buffers closer to each other than a frame is long |
| PCI (`pci.cpp`) | none; the walk's three loop variables | `enumerateDrivers`, `getDeviceDescriptor`, `getBaseAddressRegister`, `getDriver` | devices without function 0, that answer for one function at all eight, or have no ports; every function is met once, every card gets its driver, which talks to its ports |
| Driver manager (`Driver.cpp`) | array of drivers | `addDriver`, `activateAll` | a full array; handlers that constructors enter into the table, where a later one takes the place of an earlier one |
| Descriptor table (`GlobalDescriptorTable.cpp`) | four descriptors | constructor, `getBasePointer` | limits with and without page granularity |
| Widgets (`gui/*`) | the desktop's cursor and buttons, the windows, which of them is dragged | mouse events | routing of an event to one of overlapping windows, dragging beyond the edge |
| VGA (`VideoGraphicsArray.cpp`) | the adapter's registers | `setMode`, drawing | order of port accesses: locked registers, one port for index and data |
| Ports, loader | none | single instructions | not modelled |

Components interact by calls in `kernelMain`; by the table of handlers, through
which `InterruptManager` calls drivers and the system call handler; by callbacks
from drivers to event handlers (console or `Desktop`); and by the static variables
of `printf`, which everybody shares.

## Modules

| Module | Models |
|---|---|
| `HeapContract` | what callers of `malloc` and `free` may rely on |
| `MemoryManager` | the chunk list; the search loop of `malloc` one iteration per step; implements `HeapContract` |
| `RoundRobin` | what the kernel promises the contexts it runs: registers of their own, turns, system calls, and from when on (`served`) |
| `TaskManager` | the task table, saved frames, `addTask`, `schedule` |
| `InterruptManager` | EXTENDS `TaskManager`: processor, 8259 controllers, stubs, dispatch, acknowledgement, system calls, activation; implements `RoundRobin` |
| `AdvancedTechnologyAttachment` | the disk driver, word by word in both of its transfer loops, with the two drives of a bus |
| `KeyboardAndMouse` | both drivers, the 8042 controller, the devices and the user |
| `Console` | `printf` access by access to memory, interrupted by printing and cursor motion |
| `AMD_am79c973` | descriptor rings, the memory of both sets of buffers, interrupt handler, `send_data`, the card |
| `GlobalDescriptorTable` | operators: a descriptor's eight bytes, and the base and limit a processor makes of them |
| `DriverManager` | the array of drivers and the table of handlers |
| `PeripheralComponentInterconnect` | EXTENDS `DriverManager`: a machine of buses, devices and functions, and the walk over it that creates drivers on the heap, one function per step |
| `VideoGraphicsArray` | the adapter, in any of the states `FirstAdapters` that the firmware may leave; `setMode`, one register per step; the register that every pixel drawn selects |
| `DragAndDrop` | what somebody with a mouse expects of a window that nothing covers |
| `Desktop` | cursor, windows, packets of the mouse; its window in front implements `DragAndDrop` |
| `Kernel` | EXTENDS the last four that have state and the descriptor table: `kernelMain` in graphics mode, with its five calls to the drives, its main loop, and mouse packets once interrupts are on |
| `...Proofs` | theorems and proofs about the module they are named after; `KernelProofs` EXTENDS `DesktopProofs` |
| `MC...` | instances for TLC |

Variables carry the names of the source's variables and members where there are
such; actions carry the names of its functions. A step is a piece of code that
nothing can interleave with: a whole handler where nobody looks in between (`Desktop`), a port
access where a device goes on by itself (`disk`, `network`, `input`), an instruction
where a handler may interrupt (`Console`, `InterruptManager`). The exception is what
handlers print in `Console`: a step prints one character, so that texts of every length
are made of steps. Operators whose comment says "Mutant" are deliberately wrong variants
of the definition that follows; each property is known to fail with one of them.

What is abstracted: addresses of stacks (a pointer is a context and a depth),
register contents (model values that are all different), characters and colours
(a cell is inverted or not), frames and sectors (a few tokens or bytes), drivers'
objects (their kind and card), wording of what is printed. Hardware is external and
modelled from how the drivers use it.

Layouts are kept where a mistake would be in the layout: the order of the eleven
words of a frame against the order of `push` and `pop`, the header in front of every
chunk, the distance of network buffers, the bits of the keyboard controller's
configuration, the address registers of the disk, the width of its loop variable, the bytes of a segment descriptor,
the bits of base address registers, the registers of a video mode.

`Console` keeps the order in which the build evaluates an expression, since the
Makefile asks for no optimisation: the statement that stores a character loads `y` and
`x` and reads a cell, then loads both again and writes a cell (`LoadRow`, `LoadColumn`,
`ReadCell`, `LoadRowAgain`, `LoadColumn`, `WriteCell`). The history variable `disturbed`
says whether a handler has come in between in a way that can matter.

`MouseDriver.cpp:58` tests bit 5 of the status only. In `KeyboardAndMouse` the status of
the controller is kept while the byte it describes is at the data port, and the byte's
being taken clears both bits; `MouseData` therefore asks for a byte to be there as well.

`Kernel` composes what `kernelMain` runs one after the other. The drivers' own
`activate` and handlers are in the drivers' modules, which start where `Kernel` has
their driver activated; in the same way what a call to a drive does is in
`AdvancedTechnologyAttachment`, while `Kernel` knows that it is waited for and may never
return (`CallReturns`); `Kernel` keeps of the heap only the size of its first chunk,
which is all that a series of allocations without a `free` can see of it.

## Runs

| Run | Bounds | Shows |
|---|---|---|
| `heap` | 70 bytes of heap, 16-byte headers, 8-bit words, requests 0, 1, 8 and 255 | up to three blocks and the holes between them; splits with and without room for a header; a request whose sum wraps |
| `interrupts` | two tasks, a table of two, timer, one master and one slave line, stacks one call deep | all interleavings of lines, handlers, calls and switches, from a `kernelMain` that makes one call before it enables interrupts |
| `reactivation` | the same, with `deactivate` | *violation*, see findings |
| `disk` | sectors of two words, byte counts 0, 1, 3, 4, 5, three sector numbers, one of two drives present, loop variables of 16 bits | calls in any order to a present and an absent drive, with failures; both loops move a sector together; the drive completes writes before the next port access |
| `busy_drive` | as `disk`, with slow writes | *violation* |
| `input` | two keys ahead, one packet ahead, five kinds of key event, two packets, two firmware configurations | activation and then any order of bytes of both devices; users wait until interrupts are on, devices answer at once |
| `early_input` | the same without waiting users | *violation* |
| `screen` | 2 by 2 cells, 4-bit `int8_t` | handlers print texts of any length and move the cursor between any two accesses to memory, twice over a full screen: the position stays on it, and no step but the store of a statement that a handler has come into spoils a colour |
| `ghost_cursor` | the same | *violation* |
| `network` | rings of three, one content of frames received and two of frames to send, two of these waiting at most | reception, transmission and loss around every step of the handler; both rings are gone through in order, and the last frame handed over is sent intact |
| `buffer_overlap` | the same with two contents of frames received | *violation* |
| `kernel` | one bus of two devices of two functions, four machines, an array of four drivers, heaps of 16 and 50 bytes (header 2, driver 5), ten segment limits, a desktop of four columns and one row with two overlapping windows of two columns, motions by -5 and 11, no button, the first or the second | boot on each machine, with the video adapter's CRTC registers locked or not and its attribute port waiting for either kind of access (all its registers hold what the mode does not want), then any packets of the mouse, from the first call to a drive on, and any drawing |

Why these bounds are enough to be interesting: the heap can hold every
arrangement of neighbours that `free` distinguishes (none, free or taken, on
each side); two tasks are the least that can be confused, and three lines cover
timer, master and slave paths of the acknowledgement; two words are the least for
which both loops of the disk driver matter, with odd and even counts in each word; the
data port holds one byte, so that one packet and two keys already collide; two
columns and rows let each of the tests of `printf` be reached from each side; a
ring of three leaves room for one frame and for two in the critical gap of the
network handler. The machines of `kernel` have a device without function 0, one that
answers at every function, a bridge, a card without I/O ports and cards with several
base registers, two cards on one line and a card on the mouse's line; with
more than two cards the array is full before the last card, with 16 bytes the heap is. Limits lie
on both sides of the change of granularity and of a page's end. A motion is one column to
the left or two to the right, so that the cursor reaches and passes both edges, the cell
that the windows share and those of one alone.

`busy_drive` and `early_input` differ from their passing counterparts in one named
assumption about hardware (`Prompt`, `QuietStart`), so that the passing runs say
what holds on hardware that is kind and the others what is at stake when it is not.
`AnswersAtOnce` is assumed in both.

### Fairness

- `heap`: `WF(MallocStep)`. A call runs on; nothing blocks in it.
- `interrupts`: `WF(Processor)`, because the processor executes something as long as
  it is powered; `WF(Raise(0))`, because the timer is periodic; and
  weak fairness of the two steps of `activate`, which `kernelMain` reaches.
- `disk`: weak fairness of the driver's steps, and of each drive, which is thereby assumed
  not to stay busy for ever; one that does holds the call, as `OnlyDevicesHoldTheBoot` allows. The first is
  justified as long as no task was added: a timer interrupt then returns to
  `kernelMain`. With tasks, `KernelMainIsAbandoned` shows that the call may never
  go on; the safety properties do not depend on fairness.
- `input`: `WF(Kernel)` and `WF(Controller)`; none for the user.
- `network`: `WF(Handler)`, and frames keep arriving.
- `kernel`: `WF(OwnSteps)`, the steps that wait for no device. Interrupts are off until the
  last of them, so that nothing takes the processor from `kernelMain`. No fairness is assumed
  of `ActivateAll` and `CallReturns`: a driver's `activate` and a call to a drive wait in loops without a limit,
  and `OnlyDevicesHoldTheBoot` says that they are all that can keep `kernelMain` from its main
  loop. None is assumed of the mouse.

Runs without a liveness property use `Spec`. Deadlock is checked in all of them.

## Findings

1. `deactivate` (`InterruptManager.cpp:148`) takes the manager away before it stops
   interrupts; one in between is never acknowledged and blocks its line (`reactivation`).
2. Commands are written without waiting for the drive: a flush right after a
   write is ignored (`busy_drive`). In the same way a read would return garbage.
3. A key typed during activation shifts all mouse packets by a byte (`early_input`).
4. Network buffers are 8 bytes apart instead of 2 KB, so that a frame overwrites those received
   before it (`buffer_overlap`) and, likewise, those waiting to be sent but itself
   (`SendsTheLastFrame`).
5. A handler that comes into `printf`'s read and write of a cell's colour leaves a copy of
   the mouse cursor on the screen, or takes the cursor away (`ghost_cursor`).

Some more faults need no run to be seen; the models have them, and passing runs
and theorems are about what holds in spite of them or name the assumption that excludes them:

- `sector && mask` (`AdvancedTechnologyAttachment.cpp:84`, `135`) where `sector & mask` is meant
  addresses nearly all sectors as sector 1 (`LbaLow`, `LbaMid`, `LbaHigh`). Properties of the
  disk are about the address that the driver makes of a sector.
- A negative count passes the tests of lines 78 and 129; for -1, say, no word is transferred, and the
  drive is left in the middle of a transfer (`RestStart`). Runs have `Counts` without such.
- `send_data` takes the next descriptor whether or not the card is done with it.
  `SendsAhead` bounds what its callers do; at present it has none but a line that is commented out.

Two more facts about the code that no doc or test of it contradicts show in the
definitions of passing runs. A window behind another keeps its drag when a button is
released over the one in front of it, which is why `DragAndDrop` is promised for
the window in front only. And a card found later silences an earlier one on its line,
which `HandlersAreActive` spells out.

## Proofs

TLAPS proves the following for all values of the constants that meet the named
assumptions.

- `MemoryManagerProofs`, from `HeapAssumption`: `TypeOK`, `HeapInvariant`,
  `FirstFit`, `NullOnlyWhenNothingFits`, `FreedHeapIsWhole`, and that `MemoryManager`
  implements `HeapContract`. The inductive invariant `IInv` is `TypeOK`,
  `HeapInvariant`, `FirstFit` and `ResultFits`. `HeapInvariant` alone is not
  inductive: that splitting the chunk found keeps the list a tiling needs that the
  chunk is free and larger than the request, which the search has established some
  steps before (`ResultFits`), and that the sums taken modulo the word size are the true
  sums, which follows from chunks lying inside the heap and the heap inside the address space.
  The lemmas about `Split` and `Merge` hold for any list that is tiled, and are used
  for `malloc` and for the two halves of `free`.
- `InterruptManagerProofs`, from `TaskAssumption` and `ProgramAssumption`: `TypeOK`,
  `AllAcknowledged`, `KernelMainIsAbandoned`, and that it implements `RoundRobin`. `IInv` adds to `TypeOK` which lines are
  in service in each phase of a handler (`InService`), that nothing is in
  service before the manager is active (`QuietUntilActive`) and that the
  steps of `activate` and the interrupt flag go together (`StartsActive`). A second
  invariant, `Turn`, says whose stack each saved frame lies on; it gives
  `KernelMainIsAbandoned`. The refinement maps a context to the registers it will
  continue with (`FileOf`: the processor's, or those a stub would take back from the frame
  it saved), and the ring of the table, read from the current index on, to a queue. Three lemmas carry it:
  what a stub takes back is what it saved (`RestoredSaved`); a step that writes only to
  the running context's stack changes nobody else's registers (`OwnFile`), which is where
  `Turn` is needed; and `schedule` rotates the queue (`ScheduleQueue`). Each action has
  a lemma that names the step of `RoundRobin` it makes, if any.
- `KernelProofs` and `DesktopProofs`, from `PciAssumption`, `MaxDriversAssumption`,
  `LimitsAssumption`, `DesktopAssumption`, `VgaAssumption` and `KernelAssumption`: `TypeOK`,
  `SegmentsReachTheirLimits`, `EachFunctionOnce`, `EachCardOneDriver`,
  `TalksToItsCard`, `HandlersAreActive`, `RunsInMode`, `FrontStaysInReach`, and that the window in front
  implements `DragAndDrop`. For the walk: it is at a function that its device may have
  (`Walks`), and one iteration passes exactly the place it was at (lemma `AfterNext`),
  so that what was found is what precedes the walk's place. For drivers: every network driver
  in array or table is that of a card the walk has passed (`Provenance`); nothing but
  `kernelMain`'s own drivers is there before the walk (`Early`), all of the array is active
  after `activateAll` (`Late`), a handler without a place in the array came when there was
  none (`Reached`), and what a managed driver has lost in the table it lost to a card found
  later (`AllHeard`), which is what needs the order of the walk.
  For the video mode: at any point of `setMode` all registers written so far hold their
  value, and from the first CRTC register on the lock is open (`Programmed`), for adapters that
  start in any state at all. That no later access undoes an earlier one rests on the layout of
  the table of values (lemma `OneRegisterEach`) and on what one access changes (`Stores`, `Selects`,
  `Writing`); the two accesses that open the lock change CRTC registers only (`Unlocks`).
  For the desktop: packets come when there are windows (`Shown`), some cell of the window
  in front is on the desktop (`FrontSeen`), and when it is dragged the cursor is over
  it with button 1 pressed (`FrontHeld`). `DesktopProofs` holds the lemmas about
  one packet: what routing, motion and button events make of a list of windows.
- `AMD_am79c973Proofs`, from `RingAssumption` and callers that never have more frames waiting
  than the ring holds (`Room`): `TypeOK` and `RingsInOrder` for rings of every size.
  `IInv` states the order of each ring by the distance from the driver's (or the
  card's) index, without remainders (`Ahead`), and says where the other side's index
  is; a step moves one index by one, and every distance with it. What the buffers hold is not
  part of `RingsInOrder`: buffers overlap. `SendsTheLastFrame` says what is left for frames to send, and
  follows from where the last one was copied to (`Copied`), whatever is sent and handed over in between.
- `ConsoleProofs`, from `ScreenAssumption`: `TypeOK`, `RestsOnScreen` and `ColoursAreKept`
  for screens of every size. `RestsOnScreen` is not inductive: `Place` says for each instruction of
  `printf` which of the two coordinates may be off the screen there, and `Loads` that
  what `++`, or an address, has loaded, and uses after any number of handlers, was a value from the
  screen. `Undisturbed` says that, unless a handler came into the statement, the cell addressed
  is that of the position and the colour read is still that of the cell.
- `KeyboardAndMouseProofs`, from `InputAssumption`: `TypeOK`; and, on hardware that
  answers at once and with users who wait (`KindHardware`), `BothConnected`, `PacketsAligned`,
  `ReportsEveryMotion` and `ReportsWhatWasTyped`. `Conversation` follows the dialogue of the two `activate` functions
  with the controller, byte for byte, up to the interrupts that are left over from it;
  `Flow` says that what the handler has of a packet, the byte at the data port and what is
  queued in the mouse are the packets sent and not yet reported, in order. `Keys` is its
  counterpart for the keyboard. What a scan code reports depends on the shift codes before it, so that
  the characters typed and not reported cannot be computed from the codes on their way without
  recursion; `Explains` says instead that the two match by giving the case, and the number of characters
  reported, after each code, and its lemmas add a code at the end and take one from the front.
- `AdvancedTechnologyAttachmentProofs`, from `DriveAssumption`: `TypeOK` with drives of any pace
  and counts of either sign (`Sane` says what it rests on: words left to transfer are even in number, and a drive
  that asks has some left); and, for drives that keep up with writes (`Prompt`) and counts that are
  not negative, odd or even (with a negative one `NoTransferLeftOpen` does not hold), `NoTransferLeftOpen`,
  `StoresOneWrite`, `ReadsTheSector` and `FlushIsDurable`, for sectors of every size. That the second
  loop starts where the first has stopped is lemma `RestStartsBehind`; `Bounds` says
  where the loops are. `Resting`
  says that no drive but the one called has anything to do, and that between calls
  there is nothing left but the storing of the last sector; `Polling`, `Reading`, `Writing`
  and `Storing` say that drive and driver work on the same command, at the same word,
  of the same data.

Only model-checked: liveness (`MallocReturns`, `EveryTaskRuns`, `CallsReturn`,
`NoByteIsStuck`, `NoFrameIsStuck`, `OnlyDevicesHoldTheBoot`), since TLAPS does not do ENABLED
and fairness here. Of two of them the part that is safety is proved: every iteration of
`malloc`'s loop goes up the heap (`SearchEnds`), and every step of `kernelMain` before its main loop
leaves a phase for the next or brings a bounded loop forward (`BootMovesOn`; a call to a drive
is one step of it, so that nothing is said of the loop inside), so that what the runs
add is only that these steps are taken. Everything else that a passing run checks is a theorem, under the hypotheses named above: every invariant, every action property, and
the refinements of `HeapContract`, `RoundRobin` and `DragAndDrop`.

## Not modelled

- Ports and the loader have no state of their own that a property could be about.
- Exceptions: their gates lead to a bare `iret`. What a faulting instruction does then is
  up to the processor and the code's stack; nothing in the kernel is meant to survive it. This also leaves out
  what happens behind the 64 MB that the segments reach.
- The destructors of `MemoryManager` and `InterruptHandler`, operators `new` and `delete`
  (which only test `active_memory_manager`), `pci.cpp`'s `write`, `getLimitSize` and the network
  card's `reset`: nobody calls them.
- Drawing: `putPixel`, `fillRectangle` and the widgets' `draw` only put pixels.
  `CompositeWidget::modelToScreen` is empty, so that windows are drawn at
  the desktop's corner whatever their position; the model keeps positions, which is
  what events are routed by.
- Widgets inside windows, focus and keys: `kernelMain` adds no child to a window and
  connects the keyboard to no widget.
- Formatting (`printfHex`, texts, colours) and the sign extension of characters above 7 bits.

## Plan

Done: heap, tasks and interrupts with proofs; the drivers whose devices run by
themselves, with proofs; boot, PCI, handlers, descriptor table, video mode and desktop
with proofs; every safety property and refinement of the passing runs as a theorem. Left, in order:

1. Addresses: the heap that `kernelMain` sizes by what the loader reports, against the machine's memory and
   the 64 MB of the segments.
2. Exceptions with and without error codes in `InterruptManager`, once the kernel handles any.
