# Verification of OSComplex

OSComplex is a 32-bit x86 kernel: one CPU, an interactive shell that runs in the
boot context, kernel threads and user programs scheduled by a timer interrupt, a
paged memory system, a VFS with three file systems and a few drivers. This
directory holds TLA+ models of it, the TLC configurations that check them, and
TLAPS proofs. `PROJECT.json` lists the runs, the mutants that show each property
can fail, the source lines of every definition, the hazards and the theorems.

## Parts

| Part | Source | Modules | What is hard |
|---|---|---|---|
| Tasks, scheduler, timer | `kernel/task.c`, `scheduler.c`, `switch.s`, `drivers/timer.c`, `interrupts/isr.c` | `Tasking`, `TaskingProofs` | ticks between any two stores; the switch before the EOI; counter wrap |
| exec, fork, wait, ELF loader, address spaces | `kernel/syscall.c`, `elf.c`, `task.c`, `mm/vmm.c`, `interrupts/pagefault.c` | `Programs` | temporary windows and a page allocator shared by preempting execs; silent mapping failures; freed tasks in lists |
| Physical memory | `mm/pmm.c` | `Pmm`, `PageAllocator`, `MemoryProofs` | test and set with interrupts on |
| Heap | `mm/heap.c` | `Heap`, `MemoryProofs` | contiguity of large blocks, merging by list order |
| VFS, RAMFS | `fs/vfs.c`, `fs/ramfs.c` | `Vfs`, `Ramfs`, `NameSpace`, `VfsProofs` | detach before the check, descriptors, sizes kept twice |
| FAT16 | `fs/fat.c` | `Fat` | power failure between the writes, refused sectors, entries past the first sector |
| ATA | `drivers/ata.c` | `Ata` | time-outs and late answers, a second caller between the registers, the ignored flush result |
| Keyboard | `drivers/keyboard.c`, input loop of `shell/shell.c` | `Keyboard`, `BoundedQueue`, `DriverProofs` | interrupt between check and use, full buffer |
| Terminal | `drivers/terminal.c` | `Terminal`, `DriverProofs` | page keys during the drawing, full buffer |
| TarFS, predictor, strings, setup, tools | | none | see the last section |

How they meet: the shell is preempted by the timer (`Tasking`) and is a client of the
page allocator beside the system calls of user programs (`Pmm`, `Heap`, `Programs`); a
user program reaches the file system, the disk and the loader through `exec` while the
shell may be inside any of them (`Vfs`, `Ata`, `Programs`); the keyboard interrupt feeds the shell's buffer
(`Keyboard`) and draws on the shell's screen (`Terminal`); `Fat` issues its sectors one
by one and takes from `Ata` that each may be refused. Each module states which steps of
the other parts can fall between its own.

## Tasking

`Tasking.tla` models the scheduler together with the interrupt that drives it.
`state`, `time_slice`, `wake_time`, `next` and `ctx` are fields of the TCBs, the
queue variables are the globals of `scheduler.c`, and `phase`/`pc` say where the
CPU is. A step is a stretch of code that no interrupt splits observably; a timer
tick is possible at every other point, so the windows inside
`scheduler_schedule`, `task_sleep` and `scheduler_add_task` are explicit.

| Action | Code |
|---|---|
| `Create`, `Link` | `task_create`, `task_create_user`, `scheduler_add_task` (before and after the store that closes the ring) |
| `Yield`, `Sleep`/`SleepMark`, `Exit` | the calls of a task, directly or through `int 0x80` (interrupts off) |
| `ExecYield` | the `task_yield` at the end of `cmd_exec` |
| `Pick`, `Switch` | `scheduler_schedule` before and after `scheduler_pick_next` |
| `Tick` | `irq_handler_c`, `timer_handler`, `scheduler_tick` and the switch it may do |
| `SendEoi` | what a task switched out inside the handler does when it is resumed |

Abstractions and assumptions:

- Stores happen in source order. `ctx` tells a context saved by a call from one
  saved in the interrupt, from the one the creator built, and from one already used.
- `switch.s` stores `esp + 8` where the caller's is `esp + 4`, and a new thread's
  context holds null segment selectors: whether a task resumed from its context is
  where it was depends on the compiled caller and on the processor. Both outcomes
  are in the model: `task_switch_asm` puts the task at its resume point or makes it
  `wild`. The code of a wild task is not followed; ticks still interrupt it.
- The two EOIs and the `iret` are one step.
- `total_time`, `context_switches`, `timer_ticks` and the other statistics are
  left out: they are only reported.
- The shell creates tasks and never sleeps or exits. No task is BLOCKED:
  `task_block` is only called by `sys_wait`, which belongs to `Programs`.
- `next` is one field used by the task list and by the ready ring, as in the code.

### Runs

Bounds of `tasks`: two threads and a user program (the shortest ring that can be walked
for ever needs two queued tasks and the one being added), a slice of 2 ticks (it expires
and survives), a counter of 4 values (wraps within a sleep), sleeps of 1 tick. It uses
the symmetry of the threads, which no property breaks; it has no liveness property.
`sleep` has three threads, so that the ring can open under a tick, sleeps of 1 and 2
ticks, so that a sleeper outlasts a tick, and a slice of 1. Deadlock is not checked: the
modelled system can really stop, in the endless walk described below.

| Run | Expect | Shows |
|---|---|---|
| `tasks` | pass | consistency of scheduler state with the shell and user programs preempted everywhere; the pick stays valid; the ring is open only in `scheduler_add_task`; as long as there are only kernel threads, the EOI is always owed by a READY task and the shell never runs with IRQ 0 in service |
| `sleep` | pass | sleepers wake as long as the kernel stays `Sound` |
| `exec` | violation | the first switch to a user task saves nothing |

`ThreadsOnly` (no user task was created yet, and no task is wild) is the condition of
`EoiIsOwed` and `InterruptsReachShell`: entering a user task loses a context, as `exec`
shows, and with the context the EOI that its owner would have sent.

Two properties are stated around windows of `scheduler_add_task` in which the code is not
safe. It links the old tail to the new task before `task->next` closes the ring, so a
tick in between walks the queue for ever (`TickHangs`): `RingOpenOnlyInAdd` says that
this is the only such window. And it stores `TASK_READY` after the task became reachable,
which revives a task that ran and exited in between: `DeadStaysDead` says that nothing
else revives one.

A consequence of the EOI order: with kernel threads only, a thread is always entered from
a tick that preempted the shell, or from another thread so entered, so it runs with IRQ 0
in service and only the shell is ever preempted. A tick inside `scheduler_schedule` needs
a task that runs with the timer acknowledged, which `exec` provides (its `task_yield` is
a call, not a tick): the user program in `tasks` makes `ScheduleNotReentered` and
`PickStillValid` meet those ticks.

Fairness, in `sleep` only: `WF(KernelStep)`, because the CPU executes the kernel code it
is in, `WF(Tick)`, because the PIT keeps firing, and `SF(SleepCall \/ ExitCall)`: the
kernel threads of `shell/test_tasks.c` are finite and end in an exit, so a thread that is
in its own code again and again eventually sleeps or exits.

Limits of the scheduler show in what is not claimed. `SleeperWakes` is about behaviours
that stay `Sound`: no task wild, no tick caught in the open ring, no exited task revived.
It asks for a non-zero wake time: `scheduler_tick` takes 0 for "no wake-up", and the wrap of
`total_ticks` can produce it. And there is no property that a ready task eventually
runs: every pick scans from the head of the queue, so tasks near the head that keep
yielding starve the others.

### Proofs

`TaskingProofs.tla` proves, for any finite set of tasks, any positive slice and
any counter width (`TaskAssumption`, `TimeAssumption`):

- `TypeCorrect`, `OneRunningAlways`, `PickStaysValid`: invariants;
- `NotReentered`, `DeadStaysDeadAlways`: action properties;
- `ThreadEoiIsOwed` and `ShellHearsInterrupts`, both conditional on `ThreadsOnly`, which a
  step can only make false;
- `RingStaysClosed`: the queue is one ring except inside `scheduler_add_task`.

The inductive invariant `IInv` adds to `TypeOK` and `OneRunning`: a task inside
`scheduler_schedule` is not RUNNING (so a tick there does not schedule), the
chosen task is runnable and another one, a task not yet created is UNUSED and the
kernel task never a ZOMBIE, and the task being linked exists. `OneRunning` alone
is not inductive: a tick during the pick could otherwise switch a second time.

`RingInv` gives the ring as a function: the tasks that were created, in the order of
their creation, each leading to the next. It says what every walk visits without an
induction over the walk, and with it `ShellInv` shows that `get_next_ready_task` comes
back to the shell only when nobody owes an EOI. Liveness is only model-checked.

## Pmm

`Pmm.tla` models `mm/pmm.c` and the two calls of `kernel_main` that lay out the
memory. `pmm_bitmap` is the set of blocks whose bit is set, `used_blocks` keeps its
width (`Wrap`). `boot` orders the calls of `kernel_main`; `step`, `i`, `seen` and
`count` are the shell's place and locals inside an allocation or a release.

The shell calls the allocator with interrupts on, so every access to the bitmap and
to the counter is a step of its own (`AllocStart`, `AllocTest`, `AllocSet`,
`AllocCount`, `FreeTest`, `FreeUnset`, `FreeCount`). System calls and page faults run
behind interrupt gates, with interrupts off: for the clients in `Others` the whole
`pmm_alloc_block` and `pmm_free_block` are one step. Neither the bitmap nor the
counter is volatile, and `gcc -O2` does store back the bitmap word and the counter it
loaded for the tests; `AllocSet`, `FreeUnset` and `AllocCount` therefore choose
between the value tested and the current one. Regions are in pages, because
`kernel_main` passes page-aligned ones. A client frees only what it was given.

| Run | Expect | Shows |
|---|---|---|
| `pmm` | pass | until the shell is preempted inside the allocator, the bitmap implements `PageAllocator`, the counter matches and an admitted scan finds a page; reserved memory survives every interleaving, stale stores included |

`preempted` records that another client came in between two accesses of one call of the
shell. Calls that only alternate do not set it, so the other client is there all the time.
Once it is set, pages are given out twice (`Pmm_race.cfg`), bits are lost and the counter
drifts; of the four properties only `ReservedKept` is about what comes after.

Bounds: 5 pages over two bitmap words, with one page below the usable memory and a
one-page kernel image between usable pages; memory runs out and is freed again. Deadlock
is not checked: with lost words all memory can be in use with no owner, while the counter
refuses every allocation.

`MemoryProofs.tla` proves, for any memory, image, word size and set of clients
(`PmmAssumption`), `ReservedAlways`: a block between its test and its update was seen free
or was owned, so it is not reserved, and the word that may be stored back holds the
reserved bits. Under `~preempted` it proves the types (`AloneTypes`), that no page has two
owners (`AloneNotShared`), `AloneCounts`, `AloneFinds` and the refinement
(`AloneImplements`). Counter, scan and bitmap need each other in `AloneInv`: the scan finds
a clear bit because the counter, which equals the number of set bits, is below the limit;
the counter stays right because the bit found was clear. The mapping (`Held`) gives a
block to the shell from the store of its bit until the bit is cleared.

## Keyboard

`Keyboard.tla` models `drivers/keyboard.c` and the shell's input loop. The keyboard
itself is the environment: `Press` (a repeat included) and `Release` put scancodes on
`wire`, with the prefix 0xE0 for extended keys. `keyboard_handler` is one step, since
IRQ 1 runs with interrupts off; it can fall between any two of the shell's steps
`Check`, `PopLoad`, `PopAdvance`, `Process`, and ends a `hlt`, as does `Tick`. The
positions are volatile; the load of the character itself is not, but stays before the
store of the read position in the compiled `keyboard_buffer_pop`.

Characters are a key and the table that translated it. A few keys stand for their
classes: a letter, the letter whose control code is that of Enter, a key with a
shifted symbol, an unmapped key, and the editing keys. (Ctrl+H and Ctrl+I act as
Backspace and Tab in the same way.) Of the command line only its length is kept.
`PopLoad` has no empty case: nobody but the shell takes characters out.

| Run | Expect | Shows |
|---|---|---|
| `kbd` | pass | the ring implements `BoundedQueue`; the line fits its buffer; no modifier stays set without its key; a buffered character is read |

Shift is the exception: the two shift keys share one flag, so releasing one clears it
while the other is down, and `ModifiersFollowKeys` only claims that it is never set
without a key.

Bounds: a ring of 3 slots (full with 2 characters), a line of 2, two pending scancodes (an
extended key needs 2), and four keys: the letter whose control code is Enter, Backspace,
and the two control keys, one of them extended. Shift, Alt, Caps Lock and Tab are left to
the proofs, which are about all keys. Fairness: the CPU runs the shell, and the timer
ticks. That is the system with the shell as its only task; what other tasks do to the
shell's share of the CPU is `Tasking`'s subject. The tick is needed: a key interrupt between `Check` and `hlt`
leaves the character waiting for the next interrupt.

`DriverProofs.tla` proves, for every size of ring and line, every set of keys and
every backlog: `KeyboardTypes`, `RingIsQueue` (the refinement) and
`ModifiersAlwaysFollow`. For the queue, `RingInv` adds that between the test and the
advance the ring is not empty and the slot that was loaded is not overwritten;
`PushAppends` and `PopTakesHead` are the arithmetic of the wrap. For the modifiers,
`ModInv` says what the unhandled scancodes mean: the last one of a key tells whether
it is down, and an extended code always follows its prefix. `CharactersAreRead` is
only model-checked.

## Vfs and Ramfs

`Ramfs.tla` has the nodes of `fs/ramfs.c` (`type`, `name`, `parent`, `children`, `size`,
`open_count`, and `file` for `ramfs_file_t`) and what each of its operations does to
them. `Vfs.tla` composes it with `fs/vfs.c` and with the clients: the file commands of
the shell. `NameSpace.tla` is what a file system promises about names.

A shell command runs with interrupts on, so its steps are separate actions; `pc` says
where it is.

| Action | Code |
|---|---|
| `Begin`, `Walk` | the call, and the loop of `vfs_resolve_path`, for the path or its parent |
| `Chdir`, `Resolved`, `Fail` | `vfs_chdir`; `vfs_open` after the walk; the early returns |
| `Create`, `Attach` | `ramfs_create` and `ramfs_mkdir`, before and after the last store of `ramfs_attach_child` |
| `Detach`, `PutBack`, `Free` | `ramfs_unlink` and `ramfs_rmdir`, which detach the node before looking at it |
| `Open`, `Read`, `Close` | `vfs_open` from `fd_alloc` on, `vfs_read`, `vfs_close` |
| `WriteGrow`, `WriteStore`, `WriteSizes` | `ramfs_write` up to the `kfree` of the old buffer, its stores, the sizes it and `vfs_write` record |

User programs reach the file system through `exec` only, and system calls run with
interrupts off. Such an exec opens, reads and closes a file in one piece and leaves the
state as it was, so it is no action: `ExecOutcome` says what it would get, and
`ExecReadsLive` (`Vfs_exec.cfg`) asks this in every state.

Abstractions and assumptions:

- A path is a record of its leading slash, its directories and what follows the last
  slash, which may be empty (`mkdir /a/` creates a node with the empty name). The limits
  of 255 characters and 32 components are not modelled.
- Children lists are sets: their order only matters to listings, since `TreeSound`
  includes that sibling names differ.
- A freed node loses its fields: `ramfs_alloc_node` sets every one when the memory is
  used for a node again. A byte of a new buffer that nobody wrote is `Garbage`.
- The file system is RAMFS, as it is when no disk is found, and nothing is mounted:
  `vfs_mount`, `vfs_seek` and `O_APPEND` have no caller.
- `cd /a` and `rmdir /a` leave `vfs_cwd` pointing to freed memory. From there on the
  model takes absolute paths only; what a relative path then does is not claimed.
- `open_count` is raised by `ramfs_open` and again by `vfs_open`, and lowered twice.

| Run | Expect | Shows |
|---|---|---|
| `vfs` | pass | tree, descriptors and contents stay sound at every preemption point; the name space changes as `NameSpace` says |

Between the `kfree` of the old buffer and the store of the new pointer in `ramfs_write`, an
exec does read freed memory: `Vfs_exec.cfg` has the trace. A file is invisible to an exec while a failing `rm` or `rmdir` holds it;
for `NameSpace` it still exists then (`Held`), and a node that will be freed is gone from
the moment it is detached (`Doomed`).

Bounds: three nodes besides the root, one of them made at boot, so that nodes run out
and are used again; seven paths with one and two levels, a trailing slash, `..` inside
and at the ends, absolute and relative; texts of 0, 1 and 3 bytes with a capacity unit
of 2, so that a write fits, grows and grows past a rounded capacity; two descriptors,
the shell's and the exec's. Nodes other than the root are symmetric. Deadlock is checked.
There is no fairness: nothing here is about progress.

`VfsProofs.tla` proves, for every set of nodes, names, paths and texts, every capacity
unit and any table of at least two descriptors (`RamfsAssumption`, `VfsAssumption`):
`TypesAlways`, `TreeAlwaysSound`, `NothingEverLost`, `DescriptorsAlwaysMatch`,
`DataAlwaysInitialised` and `NameSpaceRefined`. The inductive invariant is in two parts.
`TreeInv` adds to the checked invariants what a command's locals refer to (`LocalsOk`): a
detached node is in no list and its name is still free in the directory it will return
to, which is why putting it back keeps sibling names different; and that no directory
is its own child (`TreeRoot`). `WriteOk` describes the buffer between the three steps of
a write: it starts at position 0, holds the old contents up to the old size, and has
room for the text. `ReadCount` and `RoundUp` get lemmas of their own. The refinement
uses the same invariant; only `Create` and the `Detach` of a removable node are visible
steps.

## Terminal

`Terminal.tla` models `drivers/terminal.c`: the scrollback as the sequence of its lines,
the cursor's row and column in it, the viewport and its lock, the screen and the hardware
cursor. A character is stored in one step and drawn in several (`TestLock`,
`FollowTop`/`FollowUnlock`, `RenderStart`/`RenderRow`/`RenderCursor`, or the fast path
`UpdateRow`/`PlaceCursor`), and so is `terminal_clear`; Page Up and Page Down run whole in
the keyboard interrupt, between any two of them. One writer prints at a time: output of
two tasks that preempt each other inside `terminal_putchar` is not modelled. Colours are
left out, a tab stop is a parameter (4 in the code).

Run `terminal`: a screen of 2 by 2 and five lines, so that there are two pages of history,
a partly filled last page and a full buffer; tabs that fit and that do not; `Overshoot`
is how far past a full buffer the model follows the row. Deadlock is not checked, because
the model stops where a store leaves the array.

What the properties except is what the code does: a wrap drawn by the fast path draws
only the new row; a page key while a row or the cursor is being drawn mixes two views;
a page key between the two stores of `terminal_resume_follow` leaves a scrolled view that
is not locked. `damaged` and the condition of `ScreenMatches` name these, and each ends
with the next full render.

Run `terminal_locked`, on the same instance, is a violation. The viewport counts from the
newest line, and `terminal_putchar` draws it again also when it is locked, so a character
that wraps and appends a line moves the view of a user who has scrolled up. The comments
there say "user will see old content until they resume follow" and "do not change visible
VGA contents". `ScreenMatches` is about what the code draws: the view the viewport names
at that moment.

`DriverProofs.tla` proves `ViewportAlwaysSound`, `RowAlwaysStored` and
`ScreenAlwaysMatches` (and the types) for every size of screen, every longer buffer and
any characters (`TerminalAssumption`). `RowStored` is not inductive: between the move of
the row and the append the row may be the line after the last (`RowKnown`), and a clear
passes through an empty buffer. `ScreenKnown` says what is on the screen at each step of
the drawing: the rows already copied during a render, every row but the cursor's between
a store and the fast path.

## Heap

`Heap.tla` models `kmalloc` and `kfree` in words of four bytes, with the free list in list
order: first fit, `split_block`, `heap_grow`, `merge_blocks`, and the large allocations
that take whole pages one `pmm_alloc_block` at a time (`LargeBegin`, `LargePage`,
`LargeFail`, `LargeEnd`). Other clients of the page allocator take and free pages between
these. Two calls of the heap do not overlap in the model; in the kernel a system call can
preempt the shell inside one, and then a block can be given out twice.

Run `heap`: pages of 16 words, five of them, two in the heap at first and adjoining, so
that blocks merge across a page boundary; sizes that fill a block, leave too little to
split, split, and need two pages; up to five allocations. Deadlock is not checked: memory
can run out with everything kept.

The code takes consecutive pages for contiguous ("must be contiguous for this simple
allocator") but does not look: with a hole in the bitmap it returns a block with foreign
pages inside. `fragmented` records that and the model ends there; `PagesAccounted` is
about everything before.

`MemoryProofs.tla` proves `HeapStaysTiled`, `KfreeTellsKinds` and `PagesStayAccounted` for
every page size that is a multiple of four words, every set of pages, limit and set of
sizes (`HeapAssumption`). None of the invariants is inductive. `HeapInv` adds that
addresses and sizes are even, which is why a header never ends a page and kfree's test
tells the kinds apart; that every block is inside the pages; and that each page has one
owner, so that the page `heap_grow` adds overlaps nothing. Lists are handled as sequences:
what splitting and merging do is stated for each position, and the one induction, over the
turns of the merge loop, goes through a least counterexample (`LeastNumber`, `Induct`).

## Fat

`Fat.tla` models `fs/fat.c` on a disk of two FAT copies, a root directory and clusters,
which may refuse any sector. Every sector written is a step (`DirInit`, `WriteEntry`,
`WriteCluster`, `Update`, `Sync`, `SyncCopy`, `MarkDeleted`), and so is every change of
`fat_table` in memory; the power may fail between any two (`Remount`, which does what
`fat_mount` does: it loads the first copy). Reads are refused too: a sector of the root
that cannot be read is passed over, a directory cluster that cannot be read ends the
search (`Search`). The shell's commands call one operation at a time on a path just looked
up; `echo` creates the file when it is missing, opens it with `O_TRUNC`, which sets the
node's size to 0, and writes from offset 0, so that the entry gets the length of the new
text (`PutSize`). Names are already in 8.3 form. No program is executed during an
operation: what that does to a sector is `Ata`'s subject, and the static buffers of
`fat.c` would be shared.

A directory cluster has several sectors, and `fat_find_free_entry` always names the first
one. An entry of a later sector is put past the buffer of `fat_write_dir_entry` and never
reaches the disk (`Reaches`), although the call succeeds; `orphans` holds the clusters of
such files, and `Fat_subdir.cfg` shows that they cannot be found.

Run `fat`: three clusters of two cells, a root of two slots, directories with one slot in
the first sector and one after it, two interchangeable names, a text shorter than a
cluster and one that needs two, three operations (an `echo` to a new file is one), on a
disk with an empty file without a cluster and perhaps an empty directory. Files grow and
shrink, the disk and the directories fill, freed clusters are used again. Deadlock is not
checked: the operations are bounded.

Each property names the windows in which the code gives it up, and the history variables
record whether one was met: `lost` (power failed between an allocation and the end of the
sync after it, so an entry leads to a cluster the disk's FAT calls free; or a file whose
entry could not be read was created a second time, and the write then found the first),
`unclean` (the second copy differs), `ioerror`, `leaky` (power failed inside an operation,
or a directory was removed with its entries: `fat_node_rmdir` does not check), `orphans`.
Outside them chains are disjoint and end, files read back the last text, and no space is
lost. Only model-checked.

## Ata

`Ata.tla` models the polling driver and the two drives of the primary bus. The drives are
external: `Status`, `Occupied`, `Address`, `Command`, `Answer` and `Commit` say what the
registers show and hold and when a drive answers, refuses or has written a sector, as far
as the driver can tell. A drive may be absent (an empty bus reads as zeros or as ones), an
ATAPI device, slow, or silent for ever. Both drives are identified by `ata_init`; the
callers use the primary master.

The shell's call has a step for every register it writes (`WriteRegister`), the command
(`Issue`), every poll (`WaitReady`, `WaitData`, `FlushWait`) and every word (`ReadWord`,
`WriteWord`), because it takes no lock and leaves interrupts on: between any two of them a
program's `sys_exec` may read sectors, one after the other, and then the shell's call goes
on (`parked`). The program's calls run with interrupts off.

Run `ata`: four sectors addressed by two one-bit registers; two sector numbers that differ
in the high digit, one of them with a digit that no register takes; two words to a sector,
so that a read is cut in the middle; two polls per wait, so that a call gives up and the
answer comes late. Fairness: the CPU runs the driver's loop (`WF(Driver)`), and the shell
gets its turns between the programs (`SF(Driver /\ parked = Nothing)`): the scheduler
comes back to it when no other task is ready, and the programs of `user/` sleep or end. A
program that never did would keep the shell off the CPU, in a call or not. The drives have
no fairness, and `CallsReturn` still holds, because the wait loops are bounded. Deadlock is not
checked: with no drive present no call passes its first test.

Two things defeat a call, and `ReadExact` and `WriteOutcome` are about the calls that met
neither (`Undisturbed`). A drive that answers after its call gave up still holds data when
the next command comes and ignores it; the next call then reads or writes the old sector
(`stale`). And a program's read between the first register and the last word of the
shell's call redirects its command or takes its words (`crossed`). Outside that window, in
the wait before the registers, after the last word, and in the flush, such a read does no
harm. `WriteOutcome` is about the hand-over: a drive is given a sector by the last word of
a write and by nothing else, and it is the sector asked for. What becomes of it is not
known to the driver, which ignores the wait after the flush and the error bit:
`Ata_flush.cfg` shows a write that returns 0 without its sector on the medium. Only
model-checked.

## Programs

`Programs.tla` composes what happens between the command `exec` and a running program:
`sys_exec`, `task_create_user`, `elf_load`, the address spaces of `mm/vmm.c`, and fork,
wait and exit with the children lists. Pages are numbers, their contents cells of program
files; address spaces are records with the pages, the page table and the stack of a task,
and the window tables they were created with.

| Action | Code |
|---|---|
| `Exec`, `CreateSpace`, `KernelStack`, `UserStack`, `MapStack` | `task_create_user` up to the call of `elf_load`, called by the shell |
| `FindBlock`, `SetBlock` | `pmm_alloc_block`, wherever the others call it: the first free bit, and its setting |
| `UserExec` | `sys_exec` of a user task, which replaces its own image |
| `Validate`, `AllocPage`, `LookupTable`, `AllocTable`, `OpenTableWindow`, `WriteEntry`, `OpenDataWindow`, `CopyPage` | `elf_load`, page by page, with `map_user_page_accessible` split at its allocations and its uses of the windows |
| `Started` | the end of `task_create_user`, or of a user task's `sys_exec` |
| `Fork`, `Wait`, `Exit` | the system calls |
| `OtherGives` | another client of the page allocator |

The shell's steps can be interrupted by user tasks, between the test and the setting of a
bit in the page allocator too; a system call runs with interrupts off and is not
interrupted (`Runs`). `sys_exec` reads at most the 64 KB of its buffer (`BytesRead`). The history variables and `halted` name where the system
is past repair, and the properties say what holds until then:

- A window used while it is not mapped is a page fault that halts the machine (`panic`).
  Two things lead there: a user task's exec that preempts the shell's closes the window the
  shell is about to use; and a user task sees only the window tables that existed when it
  was created, so its own exec may fault.
- `vmm_destroy_as` ("Free user mappings (first 768 entries)") frees everything the first
  768 directory entries map, and these include the identity map: any failure of
  `task_create_user` after the address space exists frees all of memory (`destroyed`).
- `clone_page_directory` copies the identity map as well, 128 MB of it on a machine that
  has less free, so fork always fails; it keeps the pages it took (`leaked`), and the child
  it frees stays linked in the parent's list. A `task_t` built later in the same block is
  then in two lists: `wait` may reap another task's child (`stolen`), or walk a list that
  has become a ring, with interrupts off (`spins`).
- A user task's exec that allocates between the test and the setting of a bit by the
  shell takes the page that the shell has found: both have it (`shared`).
- An exec of a user task that fails has already replaced pages (`mixed`).
- A segment that does not start on a page boundary is not copied to its first page, and
  two segments in one page lose data, and what lies beyond the buffer is not read:
  `Loadable` excludes these. The programs in `user/` are
  linked at page boundaries.

`ImageExact` then says that a task that starts has exactly the image of its file and a
mapped stack, although mapping a stack or a window can fail without notice;
`FramesExclusive` that no page has two owners and none is unaccounted for, in every state,
those between an allocation and its recording included; and
`ShellChildren` that the list of the shell's children is right although failed forks leave
freed blocks in other lists.

Run `programs`: 22 pages, of which another client may hold 6 or 17, so that memory runs out
at different points of an exec; three data windows that alias; two tasks, three heap
blocks, one exec of a user task; three program files, one with two segments and zeroed
memory, one unaligned that ends beyond the buffer, one invalid. It starts with or without the window tables that
earlier programs leave behind. Deadlock is not checked: every program may have ended.
Not modelled: `cmd_usertest`, and `task_destroy`, which has no caller.
Only model-checked.

## Known disagreements

Where the code does not do what a comment or a caller expects. `exec` and
`terminal_locked` are runs; the others have a configuration that shows the trace (`tlc -config X.cfg M`).

| Configuration | Property | Shows |
|---|---|---|
| `Tasking_exec.cfg`, `MCTasking` | `ContextSaved` | the first switch to a user task does not save the context of the task it leaves |
| `Tasking_preempt.cfg`, `MCTasking` | `TimerReturns` | a task dispatched from a tick may run with the timer blocked for ever |
| `Pmm_race.cfg`, `MCPmm` | `PagesNotShared` | a page is given to two clients when the shell is preempted between test and set |
| `Vfs_exec.cfg`, `MCVfs` | `ExecReadsLive` | an exec that preempts `ramfs_write` after its `kfree` reads freed memory |
| `Vfs_trunc.cfg`, `MCVfs` | `EchoReplaces` | `echo` of a shorter text leaves the tail of the old one, although `vfs_open` was told to truncate |
| `Fat_subdir.cfg`, `MCFat` | `CreatedFound` | a file created in a directory whose first sector is full cannot be found |
| `Ata_flush.cfg`, `MCAta` | `WriteStored` | a write returns 0 although its sector is not on the medium |
| `Terminal_locked.cfg`, `MCTerminal` | `LockedViewKept` | output moves the view of a user who has scrolled up |
| `Terminal_full.cfg`, `MCTerminal` | `RowInStream` | once the scrollback is full the row is not moved with the lines, and the next character is stored past the array |

## Proofs and their limits

`TaskingProofs`, `MemoryProofs` (`Heap` and `Pmm`), `VfsProofs` (`Vfs` and `Ramfs`) and
`DriverProofs` (`Keyboard` and `Terminal`) hold the proofs. All theorems hold for every
value of the constants that the named assumptions allow. What stays with TLC: liveness
under fairness (`SleeperWakes`, `CharactersAreRead`, `CallsReturn`), and the properties of
`Fat`, `Ata` and `Programs`.

## Not modelled

- TarFS (`fs/tarfs.c`): read only once at boot, when no FAT16 volume mounts, into a tree
  that nothing changes afterwards; there is no state to go wrong later.
- The command predictor (`ai/ai.c`): a table of counters that only the shell, in one piece,
  updates and prints.
- The string library (`lib/string.c`): sequential loops over bytes; the models of its
  callers work on whole names and texts.
- Boot and CPU setup (`boot/`, `gdt.c`, `tss.c`, `idt.c`, `fpu.c`): straight-line code
  before there is any concurrency.
- User programs and host tools (`user/`, `tools/`): clients of the kernel.
- Within modelled parts: functions without a caller (`scheduler_remove_task`,
  `kmalloc_aligned`, `vfs_mount`, `fat_unmount`, the multi-sector functions of
  the ATA driver, the region functions of the VMM), and recovery from page faults in the
  kernel heap range, an address range that nothing uses.
