# A TLA+ model of rigoros

rigoros is a small x86_64 kernel in Rust for one processor. This directory
models the parts of it whose correctness depends on the order of events or on
long sequences of calls, checks the models with TLC on small instances, and proves
most of what the runs check with TLAPS for every value of the constants.

## 1. The system

| Part | Source | State it owns | Modelled by |
|---|---|---|---|
| ring buffer | `kernel/src/ring_buffer.rs` | cells, `first`, `last`, `empty` | `RingBuffer`, `RingBufferSpec`, `BoundedList` |
| interrupt-safe mutex | `kernel/src/irq_mutex.rs` | inner lock, saved interrupt flag | `IrqMutex` |
| interrupt queue | `kernel/src/interrupt_queue.rs` | `QUEUE` | `Kernel` |
| main loop | `kernel/src/lib.rs` | the flow of `kmain` | `Boot` until `set_mask`, `Kernel` from there |
| 8259, timer, keyboard | `kernel/src/{pic,pit,keyboard}.rs` | masks, tick counter, decoder | `Kernel`, `Boot` |
| exceptions, panic | `kernel/src/idt.rs`, `terminal.rs` | IDT | `Boot`, `Kernel`, `IrqMutex` |
| segments | `kernel/src/gdt.rs` | GDT, TSS | `Boot` |
| terminal | `kernel/src/terminal.rs` | scroll-back, cursor, input line, history, screen | `Terminal`, `LineEditor` |
| shell | `kernel/src/shell.rs` | none | `Shell`; prompt and reply also in `Kernel`, `Terminal` |
| buddy allocator | `buddyblock/src/lib.rs` | bitmaps, counters | `Shift`, `BuddyInfo`, `BuddyChunk`, `BuddyBlock`, `BlockAllocator` |
| slab allocator | `slab_alloc/src/lib.rs` | page list, free lists | `Slab`, `SlabObject`, `SlabLayout` |
| memory map, paging | `kernel/src/memory.rs` | maps, page tables | `MemoryMap`, `Paging` |
| tasks, contexts | `kernel/src/{task,context}.rs`, `context.S` | `CTX_PTR`, a coroutine | `Shell` |
| start-up code | `kernel/src/{startup,entry}.S` | static page tables | initial states of `Paging` and `Boot` |
| boot sector, serial, fixed writer, `tools/edimg` | | | not modelled, see section 7 |

How the parts meet: the timer and keyboard handlers push messages on `QUEUE`, a
ring buffer inside an `IrqMutex`; `kmain` pops them with interrupts off, handles
them with interrupts on, and halts when there are none. Key presses go to the
terminal's line editor, finished lines to the shell, whose output goes through
the same terminal. Any context may panic, and the panic handler writes on the
terminal whoever holds it. Before all this, `kmain` loads the descriptor tables,
turns the firmware's memory map into pages of dynamic memory, builds page tables
for them inside that memory, and gives the rest to the buddy allocator, which the
shell's commands and the test task use. The slab allocator stands on its own.

## 2. Modules

**`RingBuffer`** has one operator per method, on a record with the fields of the
struct. The loops of `insert_force` are given in closed form; `MCRingBuffer`
transcribes the loops and checks that the two agree. `RingBufferSpec` makes each
call an action (`RingSpec`), and `BoundedList` is what the buffer promises.

**`IrqMutex`** models contexts that nest on one processor: `kmain` is context 1,
an interrupt or exception starts the next. `lock()` is split where another
context can come in: `CallLock` reads the flag, `Disable` clears it, `Acquire`
takes the inner lock; a guard is dropped by `Release` and then `Restore`. A
`try_lock()` that fails goes through `Refuse`. `Begin` is `CallLock` under the
discipline clients follow (a context does not lock what it already holds, and a
panic only tries). Guards end in the reverse of the order they were taken in,
as scopes end; the type would allow other orders, the kernel has none.

**`Kernel`** runs `kmain` from `set_mask` on, both handlers, the 8259 and the
8042. Every lock and unlock is a step of `IrqMutex`, with no discipline assumed:
that the kernel keeps it is the refinement `ImplementsIrqMutex`. The spin lock
`PIC`, the spin lock `KEYBOARD` and the `Once` of the `lazy_static` `QUEUE` have
their own variables. `TERM` and `COM1` are built during boot, with interrupts
off, so their `Once` is complete. Work under a lock belongs to the step that
drops it.

**`Shift`** is `1 << n`. **`BuddyInfo`** computes the layout of a chunk: `LevelsOf`
and `BitmapBytes` are the loop of `from_chunk` as recursive functions, from the level
it has reached on. **`BuddyChunk`** builds a chunk
in the steps of `BuddyBlock::new`, and **`BuddyBlock`** has `alloc` and `dealloc`
on the bitmaps. A bitmap is the set of its 1 bits beside its counter. A client may
return a block by an address inside its first unit and a length that ends inside its
last; `Slack` is how far inside. The merge
loop is in closed form, checked against the loop in `MCBuddyBlock`, which also
composes the two: chunks of many lengths are built, and the one of `TOTAL_LEN`
bytes is then used. `BlockAllocator` is what the allocator promises.

**`Slab`** keeps the intrusive page list (`head`, `tail`, `next`, `prev`), the
free list of each page by byte offsets, `alloc_count` and the magic numbers. The
page allocator is external. `Use` is a client writing to an object it owns. What
redzones contain is left out: only a client that writes outside its object
changes them. The constant `Type` is the type of the objects, and their size and
places follow from it by **`SlabObject`**, the layout arithmetic for a type of any
size and alignment. **`SlabLayout`** cuts a page into objects one by one, for every
type `SIZE_ASSERT` admits. `MCSlab` composes it with `Slab`: pages are cut for
many types, and those cut for `Type` are then used.

**`Terminal`** has the scroll-back as a sequence of rows, the cursor, the first
row on screen, the input line and the history, and the whole of `process_input`.
A panicking index or insert is an outcome of its own that stops the model.
`video`, the hardware cursor and the status line are the copies the code keeps
outside the scroll-back, written where the code writes them. `LineEditor` is the
editor a user expects. Colours are left out.

**`Boot`** runs the initialisations of `kmain` one by one while devices raise
lines and any instruction may fault. An interrupt or exception looks up its
vector in the IDT, the gate's selector in the GDT and, for a double fault, its
stack in the TSS; `went` records where it led. The lines that firmware left
unmasked are an input.

**`MemoryMap`** is `create_dynmem_map`: the copy of the e820 map, its unstable
sort (any order of equal bases), the loop that cuts entries to whole new pages,
and `slice_remove` in place.

**`Paging`** extends it to the whole of `init_memory`: the map is made, and
`init_dyn_page` and `init_dyn_alloc` work on what was made. `Maps` bounds the maps
for which tables are built; the other maps end after `create_dynmem_map`. Tables
are memory: a store goes through a virtual address that the tables built so far
must translate, and fails the model otherwise. Frames that nobody has cleared
hold a residue, chosen when the tables are begun since nothing reads it earlier.
`create_tmp_page`, every `next_set` with its carries, the switch of the root, and
the start of the allocator are steps; `virt_to_phys`, `phys_to_virt` and the walk
of `printpage` are operators. Addresses are page numbers, and a table has
`ENTRIES` entries in place of 512 with the layout scaled to it.

**`Shell`** extends `BuddyBlock`: its allocator is the heap. It has the commands
that change state (`testtask` with and without `--quit`, `testdynseq` with its
loops, `testdynran`, which is a `todo!()`), the coroutine of `task.rs`, and
`switch_context` in halves: the part that saves through `rsp`, and the part that
loads. Registers other than `rsp` and the interrupt flag are not kept.

The names of operators are the names of the functions they translate.
Definitions whose comment calls them a fault are seeded mistakes that show the
properties can fail; nothing else uses them.

## 3. Runs

| Run | Configuration | Shows |
|---|---|---|
| `ring_buffer` | capacity 3, two values | implements `BoundedList` wherever the indices have wrapped to; the shift loops lose nothing |
| `irq_mutex` | three mutexes, nesting 3 | no `lock()` spins, a holder runs masked, the flag is given back |
| `kernel` | queue of 2, two ticks, two scancodes, nesting 3 | nothing spins, no wakeup is missed, keys and ticks are lost only to a full queue or a merged request, every finished line is answered |
| `kernel_panic` | queue of 1, one tick, one scancode, panics and exceptions | the locks are used as `IrqMutex` expects; the panic report is shown |
| `boot` | lines 0, 1, 6 and 14, three firmware masks | an interrupt finds the handler of its own line, an exception its own report, at every step from `init_idt` on |
| `memory` | e820 maps of up to three entries that overlap, nest or tie; tables of 5 entries for 8 to 30 and 115 to 130 pages and four maps with gaps; two residues | the map is exactly the whole usable pages from `DYNMEM_START_PHYS` on; no store misses, the tables translate every page as the map does, the tables are kept from the allocator, `printpage` shows what is mapped |
| `shell` | 30 units of 32 bytes (odd numbers of blocks on three of five levels), a context of 80 bytes | interrupts find a stack, the task's memory is its own, `testdynseq` balances, commands return |
| `buddy_block` | units of 32 bytes: chunks of every length up to 100 units, then 9 usable units | metadata fits and matches its layout; blocks disjoint, aligned, none lost, all merged; None only when nothing fits |
| `slab` | pages of 4096 bytes: types of many sizes and alignments, then three pages of three objects | payloads aligned, disjoint, inside the page, with redzones; lists exact, freed pages not touched |
| `terminal` | 2 x 2 screen, 3 rows of scroll-back, 3 characters of input | the line the shell gets is the one edited; echo and cursor agree with it; the screen shows the echo; hardware cursor and status line follow |

Why the bounds are enough. The ring buffer's indices wrap several times and
insertions fall before, at and after the wrap at capacity 3. Nesting 3 is
`kmain`, a handler and an exception in the handler; a second handler cannot nest,
since `NothingSpins` holds with the flag as the handlers leave it. A queue of 2
overflows with two ticks and two keys. Nine units give a level with an odd number
of blocks at the bottom and at the top. Three objects give a page that is neither
empty nor full in the middle, and three pages an inner list element. A line of
the terminal wraps, fills the screen and pushes rows out of the scroll-back. Three
entries are enough for one to overlap, contain or precede each of two others.
With tables of 5 entries a map of 130 pages carries at the last level, at two
levels and at three at once.

The invariants `EmptyIsTight`, `OneGuardPerMutex` and `PanicStaysMasked` are
proved (section 5) and in no run.

Deadlock is checked in `ring_buffer` and `irq_mutex`. Elsewhere the system may
stop: in `kernel` and `kernel_panic` the bounded devices run dry while the kernel
halts; in `boot`, `memory`, `buddy_block` and `slab` a construction ends; in
`shell` and `terminal` a panic ends it.

**Fairness** is in `Kernel` and `Shell`. In `Shell` it is weak fairness of `Run`,
the processor executing the command; nobody has to enter one. In `Kernel` it is
weak fairness of `Program`: the processor executes instructions whenever it is
not halted, and spins are not steps. Weak
fairness of `Deliver` for each line: the 8259 raises a pending unmasked request
when the flag allows it. Weak fairness of `Scancode`: the 8042 offers the next
byte once the last was read. Neither the timer nor the person at the keyboard is
fair. The other modules have none.

## 4. Where the code and its own statements differ

Two runs are expected to find a violation.

* `buddy_pages`: `BuddyBlockInfo::new` asserts that the metadata is strictly
  shorter than the space rounded up for it. For some numbers of pages it fills
  that space exactly, which would be fine, and the assert stops the kernel.
* `terminal_rows`: when editing in the middle fills a row exactly, no row is
  added behind it. The cursor can then move to a row that does not exist, and
  the next output panics with "Out of bound access".

Other disagreements have no run of their own. The models behave as the code
does, and the properties are stated with them in mind.

* For a chunk that is not a whole number of units, `alloc` hands out a last unit
  that reaches past the chunk, and `dealloc` asserts against it. The kernel
  passes whole pages, and `DeallocAccepts` is checked on whole units.
* `put_char` reserves a place for the newline by comparing the cursor, not the
  length of the line, so typing in the middle of a full line uses the place up.
  Enter then adds no newline. `ImplementsEditor` is about the line without it.
* `create_tmp_page` puts the first three tables at `DYNMEM_START_PHYS` whatever
  the memory map says. If usable memory does not begin there with three pages,
  the tables are outside of dynamic memory. `Maps` has only maps that begin so, as
  on the machines the kernel is run on.
* The first three tables are not cleared, so old contents of memory may map
  addresses that `misc/memory_map.txt` calls unused. `WalkAgrees` is about dynamic
  memory, `PrintPageExact` about memory that was clear.
* The unit test of the page tables (`memory.rs:527`) divides once too often when
  it counts directories; it agrees with the code only below about 1 GiB.
* `testtask` followed by `testdynseq` fails the assertion at `shell.rs:108` that
  nothing is allocated. `SeqConsistent` allows that panic only while the task is
  there.

`ImplementsEditor`, `CursorTracksInput` and `EchoMatchesInput` describe the
terminal up to such a panic.

## 5. Proofs

Eight modules hold theorems; every one of them is proved for all values of the
constants that satisfy the named assumptions, and TLC evaluates those assumptions
on each run.

| Module | Theorems about | Property a run also checks |
|---|---|---|
| `SharedProofs` | `RingBufferSpec` | `ImplementsList` |
| | `IrqMutex` | `LockNeverSpins`, `HolderRunsMasked`, `FlagRestored` |
| `KernelFlow`, `KernelProofs` | `Kernel` | `ImplementsIrqMutex`, `NothingSpins`, `NoLostWakeup`, `KeysDelivered`, `TicksCounted` |
| `BootProofs` | `Boot` | `InterruptsFindHandlers`, `ExceptionsReported` |
| | `MemoryMap`, `Paging` | `MapExact` |
| `BuddyProofs` | `BuddyChunk`, `BuddyBlock` | `LayoutMatches`, `Conservation`, `DeallocAccepts` |
| `HeapProofs` | `BuddyBlock`, `Shell` | `Coalesced`, `ImplementsAllocator`, `InterruptsFindStack`, `TaskIntact`, `SeqConsistent` |
| `SlabProofs` | `SlabLayout`, `Slab` | `PayloadsSound`, `NotPoisoned`, `FreeListExact`, `PartialListExact`, `FreedUntouched` |
| `Arithmetic` | minima, quotients and remainders, induction on sets of numbers | |

**Ring buffer.** Capacity above zero, any element type. The inductive invariant is
`RingTypeOK /\ EmptyIsTight`. Each operation has a lemma giving the contents after
it as a list; the refinement cites them action by action.

**IrqMutex.** Any set of mutexes, any nesting bound above zero. That no call spins
needs to know that an interrupted context holds no guard, which needs to know that
interrupts are on only outside of critical sections, which needs to know what every
live guard has saved. `IInv` says all of this at once: contexts above the running
one are fresh; those below were interrupted with nothing held; only the outermost
critical section of `kmain` has saved TRUE; after a panic everything saved is FALSE;
a guard and the owner of its mutex name each other.

**Kernel.** Any queue length above zero, any nesting bound, any number of ticks,
keys and panics. The discipline that `IrqMutex` assumes of its clients (`Begin`) is
proved here: `KernelInv` says which guards every context has at every label, which
labels run with interrupts off, who may hold the `Once` and the two spin locks
there, and that `kmain` only goes to sleep on an empty queue. With the invariant of
`IrqMutex`, instantiated, it is inductive; `ImplementsLock`, `SpinFree` and
`WakeupKept` follow. `FlowInv`, on top of it, is about messages. A message passes
five places: the port of the 8042, a handler, the queue, `kmain`, and the keys
handled. `Flow` says that those five, one behind the other, hold the scancodes
shown so far in order and each once, except those in `dropped`, and that the timer
messages among them are the ticks requested and not yet counted. `Side` is what
makes that inductive: only a running handler holds a message, a pending keyboard
request means that the port holds a byte, the queue is empty until it is built, and
the terminal reads with no line in it wherever `kmain` may fetch a key. Each step
either moves no message (`Still`, `Calm`) or moves one from one place to the next.
The facts about the queue are those proved of the ring buffer. `KeysArrive` and
`TicksKept` follow.

**Boot.** Any set of lines but the cascade, any firmware masks. The invariant says
what each table holds after each initialisation, and that the flag is on only after
the last.

**Memory map.** Any page size, any firmware maps. `AlignInv` is the loop invariant
of `create_dynmem_map`: a page is wanted iff an entry already cut covers it or an
entry still to come does, and any page before `prev_end` that a later entry covers
is covered already. `RemoveInv` is that of `slice_remove`. `MapStaysExact` carries
the result through the rest of `init_memory`.

**Buddy allocator, layout.** Any unit size, any chunk lengths. `LevelsOf` and
`BitmapBytes` satisfy their recursions by a lemma on functions defined from smaller
numbers (`Recursion`); that they grow with their argument, so that the
metadata of the rest fits where that of the whole does, is an induction over sets of
numbers. `ChunkInv` relates the turns of the loop of `BuddyBlock::new` to what is
left of the recursion.

**Buddy allocator, blocks.** Any unit size, any aligned chunk that gets past the
asserts of `from_chunk`, any lengths asked for. `BInv` is the inductive invariant:
set bits are blocks of their level, no two of them buddies; the counters count them;
every allocation is the beginning of a block of the level that fits its length;
`used` is the bytes of the units handed out; and every unit is covered exactly once,
by one level's free block or by one allocation, never both. The last conjunct
carries the proof. Conservation alone is not inductive: that `dealloc` finds its bit
at 0, and that merging upwards takes out bits that are there, both follow from
counting the covers of one unit. The proof of a step follows one unit: `alloc`
splits one block and changes the cover of its units alone (`AllocTakes`), `dealloc`
merges up to the level where the buddy is missing (`MergeCloses`, `FreeStep`).
`DeallocSucceeds` assumes that the chunk is a whole number of units, as the kernel's
pages are; section 4 says what happens otherwise. For `Coalesced`, a block none of
whose units is held is set or part of one that is set (`Contained`, by induction on
the level), so with nothing handed out the bits are those of a new allocator. For
`ImplementsAllocator` the same lemma shows that None means that no block of the
level is free.

**Shell.** The same chunks, any context length. `ShellInv` adds to `BInv` where
`rsp` is at every label, what exactly is handed out at every label of `testdynseq`,
and which panics are left. That `testdynseq` never runs out is a count of units:
fewer than all blocks of a level are handed out, so `used` is smaller than the
data, so a unit is free, so a block is. `SequenceSucceeds` assumes a chunk of whole
units, without which a `dealloc` may refuse, and a block as large as a context,
without which `testtask` panics on `None`.

**Slab allocator.** Any finite set of pages, any page size, any type `SIZE_ASSERT`
admits. `Sound` says that a path of links leads through the free objects of each
owned page, that the page list is one doubly linked path through the pages that are
neither full nor given back, and that the counters agree. For `Payloads` the
alignment of a type divides the page size, which `repr(align)` below a page gives.

Only model-checked, and why:

* all liveness (`KeysHandled`, `LinesAnswered`, `PanicShown`, `CommandsReturn`):
  TLAPS proves neither liveness under fairness nor facts about ENABLED;
* the terminal (`ImplementsEditor`, `CursorTracksInput`, `EchoMatchesInput`,
  `EchoShown`, `DisplayFollows`): its operators fold over rows and characters, and
  what a fold computes for every input takes an induction with an operator as its
  parameter, which the provers cannot instantiate;
* the page tables (`NeverFails`, `WalkAgrees`, `TablesReserved`, `PrintPageExact`):
  the invariant would have to describe a partly built radix tree that is stored in
  the memory it maps, and no proof was attempted;
* that closed forms agree with loops (`ShiftLoopsKeepElements`, `MergeLoopAgrees`):
  they compare with operators declared RECURSIVE, which the provers do not accept.

## 6. Plan

1. Composition: the slab allocator over the buddy allocator as its page source.
2. Theorems: the page tables, first `NeverFails`, from an invariant that relates
   the tables built so far to the position of the walker.
3. Theorems: `CursorTracksInput`, with the rows of the terminal as functions in
   place of folds.

## 7. Not modelled

* `boot.S`, and of `startup.S` A20, the e820 calls and the mode switches: they
  talk to firmware whose behaviour is not in the repository. `MemoryMap` takes
  any map the calls may leave.
* The saving of registers in `context.S` beyond `rsp` and the interrupt flag:
  straight-line copies. TLB flushes: the model has no TLB, every walk is fresh.
* `init_pit` programs the chip. `serial.rs` drives an external UART crate; its
  lock `COM1` is in `Kernel`. `fixed_writer.rs` forwards characters.
* Colours, the printing of exception frames, commands that only print (one step
  each), and `_print_at` and `_print_status`, which nothing calls.
* Spurious interrupts of the 8259, on which `unknown_int_handler` panics, and
  reserved entries of the firmware's map inside usable ones: nothing in the
  repository says what should hold.
* The moments at which `new_line_at` shifts rows without a redraw: `EchoShown`
  leaves out a screen that shows the first row of a full scroll-back.
* `tools/edimg` is a vendored program of the build.
