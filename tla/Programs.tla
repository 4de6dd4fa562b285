------------------------------ MODULE Programs ------------------------------
(***************************************************************************)
(* User programs: exec, fork, wait and exit (kernel/syscall.c), the ELF    *)
(* loader (kernel/elf.c), task_create_user and the children lists          *)
(* (kernel/task.c), and the address spaces under them (mm/vmm.c).          *)
(*                                                                         *)
(* The shell calls sys_exec with interrupts on and can be preempted by a   *)
(* user task between any two of its steps; a system call of a user task    *)
(* runs through, because the gate of int 0x80 clears the interrupt flag.   *)
(* Both use the kernel's page directory to open windows on the pages they  *)
(* fill: one for a page table, and one per data page.  A page is allocated *)
(* in three steps: pmm_alloc_block finds a free bit, sets it, and returns. *)
(*                                                                         *)
(* A user address space has two page tables, one for the program and one   *)
(* for the stack, beside the shared tables of the identity map and the     *)
(* kernel's tables for the windows.  Frame 0 stands for "not present".     *)
(* The kernel heap is one of the other clients of the page allocator.      *)
(***************************************************************************)
EXTENDS Integers, Sequences, FiniteSetsExt

CONSTANTS
    FrameCount,      \* pages the allocator has at first
    KernelPages,     \* identity-mapped pages that it never has
    TABLE,           \* entries of a page table, 1024
    WINDOW,          \* data windows, 4096
    PAGE_SIZE,       \* cells of a page
    ADDRESSES,       \* modulus of address arithmetic, 2^32
    BUFFER,          \* cells of the buffer that sys_exec reads a file into, 64 KB
    Programs,        \* the program files, a sequence of [valid, size, segs]
    Tasks,           \* user tasks
    Blocks,          \* heap blocks of the size of a task_t
    OtherPages,      \* how many pages another client may have
    MaxExecs         \* calls of exec by user tasks

Frames == 1..FrameCount

DataDirs == 0..((WINDOW - 1) \div TABLE)
PtDir == ((WINDOW - 1) \div TABLE) + 1     \* the directory entry of 0xF0000000
WinDirs == DataDirs \union {PtDir}

DataWindow(f) == f % WINDOW
DirOf(f) == DataWindow(f) \div TABLE

Zero == <<0, 0>>
Junk == <<0, 1>>     \* what the buffer held before
File(p, offset) == <<p, offset>>

\* A program header whose addresses do not wrap around.
Segment ==
    {seg \in [load : BOOLEAN, vaddr : Nat, offset : Nat, filesz : Nat, memsz : Nat] :
        seg.vaddr + seg.memsz + PAGE_SIZE - 1 < ADDRESSES}

ASSUME ProgramsAssumption ==
    /\ FrameCount \in Nat /\ KernelPages \in Nat \ {0}
    /\ TABLE \in Nat \ {0} /\ WINDOW \in Nat \ {0} /\ PAGE_SIZE \in Nat \ {0}
    /\ ADDRESSES \in Nat \ {0} /\ BUFFER \in Nat \ {0}
    /\ IsFiniteSet(Tasks) /\ IsFiniteSet(Blocks)
    /\ 0 \notin Blocks /\ "shell" \notin Tasks
    /\ Programs \in Seq([valid : BOOLEAN, size : Nat, segs : Seq(Segment)])
    /\ OtherPages \subseteq 0..FrameCount /\ MaxExecs \in Nat

VARIABLES
    free,            \* pages the allocator has
    others,          \* pages of other clients
    leaked,          \* history: pages that nobody has and nobody freed
    mem,             \* what the pages hold
    kdir,            \* the kernel directory's tables for the windows
    ptwin,           \* the table in the window at 0xF0000000
    datawin,         \* the pages in the data windows
    as,              \* address spaces of the tasks
    status,          \* "none", "creating", "started", "blocked", "exited"
    ctx,             \* the sys_exec of the shell and of a user task
    execs,           \* calls of exec by user tasks so far
    halted,          \* "no", or why the machine is past repair
    \* The children lists, in heap blocks that outlive their tasks.
    block,           \* the task_t of a task
    live,            \* blocks that are allocated
    dead,            \* blocks whose task_t is a ZOMBIE nobody waited for
    next_sibling,
    first_child,
    \* History.
    created,         \* tasks in the order of task_add_child, newest first
    stolen,          \* a wait reaped another task's child
    prog,            \* what each task should run
    mixed            \* an exec of the task failed after it replaced a page

SHELL == "shell"
USER == "user"
Actors == {SHELL, USER}

pages == <<free, others, leaked>>
windows == <<kdir, ptwin, datawin>>
lists == <<block, live, dead, next_sibling, first_child, created, stolen>>
vars == <<pages, mem, windows, as, status, ctx, execs, halted, lists, prog, mixed>>

VPages == 0..(ADDRESSES \div PAGE_SIZE - 1)
NoSpace == [pd |-> 0, kdirs |-> {}, table |-> 0, stacktable |-> 0,
            pages |-> [v \in VPages |-> 0], stack |-> 0, ustack |-> 0]
Idle == [pc |-> "idle", alloc |-> "no", found |-> 0, task |-> 0, prog |-> 0, at |-> 0,
         phys |-> 0, table |-> 0]

\* The machine has booted, or has run programs before: their pages are not among
\* Frames, they have left the window tables behind, and the shell's list of
\* children ends in their blocks.
Init ==
    /\ \E n \in OtherPages : others = (FrameCount - n + 1)..FrameCount
    /\ free = Frames \ others
    /\ leaked = {}
    /\ mem = [f \in Frames |-> [i \in 0..(PAGE_SIZE - 1) |-> Zero]]
    /\ \E before \in BOOLEAN :
           kdir = [w \in WinDirs |-> IF before THEN FrameCount + 1 + w ELSE 0]
    /\ ptwin = 0
    /\ datawin = [w \in 0..(WINDOW - 1) |-> 0]
    /\ as = [t \in Tasks |-> NoSpace]
    /\ status = [t \in Tasks |-> "none"]
    /\ ctx = [a \in Actors |-> Idle]
    /\ execs = 0
    /\ halted = "no"
    /\ block = [t \in Tasks |-> 0]
    /\ live = {} /\ dead = {}
    /\ next_sibling = [b \in Blocks |-> 0]
    /\ first_child = [t \in Tasks \union {SHELL} |-> 0]
    /\ created = <<>> /\ stolen = FALSE
    /\ prog = [t \in Tasks |-> 0]
    /\ mixed = [t \in Tasks |-> FALSE]

-----------------------------------------------------------------------------
(***************************************************************************)
(* elf_load: the pages it maps, in order, and what it puts in each.        *)
(***************************************************************************)
\* The pages of one segment; none of one that is not PT_LOAD.
SegmentPages(seg) ==
    LET first == seg.vaddr \div PAGE_SIZE
        end == (seg.vaddr + seg.memsz + PAGE_SIZE - 1) \div PAGE_SIZE
    IN IF seg.load THEN [i \in 1..(end - first) |-> [seg |-> seg, page |-> first + i - 1]]
       ELSE <<>>

\* The loop over the program headers.
Work(p) ==
    LET segs == Programs[p].segs
        upto[i \in 0..Len(segs)] ==
            IF i = 0 THEN <<>> ELSE upto[i - 1] \o SegmentPages(segs[i])
    IN upto[Len(segs)]

\* What sys_exec has in its buffer: the file, as far as it fits.
BytesRead(p) == Min({Programs[p].size, BUFFER})
ElfData(p, offset) == IF offset < BytesRead(p) THEN File(p, offset) ELSE Junk

\* MUTANT: the copy is not cut off at the end of the file data.
PageCellsUncut(p, w) ==
    LET offset == (w.page * PAGE_SIZE - w.seg.vaddr) % ADDRESSES
        start == IF offset > 0 THEN 0 ELSE w.seg.vaddr % PAGE_SIZE
    IN [i \in 0..(PAGE_SIZE - 1) |->
            IF offset < w.seg.filesz /\ i >= start
            THEN ElfData(p, w.seg.offset + offset + i - start) ELSE Zero]

\* A page is zeroed, and filled as far as the file data goes.  Its offset in the
\* segment is an unsigned difference: a huge number for the first page of a
\* segment that does not start on a page boundary.
PageCells(p, w) ==
    LET offset == (w.page * PAGE_SIZE - w.seg.vaddr) % ADDRESSES
        start == IF offset > 0 THEN 0 ELSE w.seg.vaddr % PAGE_SIZE
        size == Min({PAGE_SIZE - start, w.seg.filesz - offset})
    IN [i \in 0..(PAGE_SIZE - 1) |->
            IF offset < w.seg.filesz /\ i >= start /\ i < start + size
            THEN ElfData(p, w.seg.offset + offset + i - start) ELSE Zero]

-----------------------------------------------------------------------------
(***************************************************************************)
(* The steps of sys_exec.                                                  *)
(***************************************************************************)
\* Who may take a step: nobody while a user task is inside its system call.
Runs(a) == halted = "no" /\ (a = USER \/ ctx[USER].pc = "idle")

\* The call of a is at pc, and not inside pmm_alloc_block.
At(a, pc) == Runs(a) /\ ctx[a].pc = pc /\ ctx[a].alloc = "no"
Goto(a, pc) == ctx' = [ctx EXCEPT ![a].pc = pc]

\* It goes on at pc with a call of pmm_alloc_block, and takes the result there.
AllocAt(a, pc) == ctx' = [ctx EXCEPT ![a].pc = pc, ![a].alloc = "find"]
Got(a, pc) == Runs(a) /\ ctx[a].pc = pc /\ ctx[a].alloc = "got"

\* An access to a window that is not mapped: page_fault_handler halts the machine.
Panic ==
    /\ halted' = "panic"
    /\ UNCHANGED <<pages, mem, windows, as, status, ctx, lists, prog, mixed>>

\* vmm_destroy_as frees what the first 768 directory entries map, and those hold
\* the tables of the identity map: every page there is.
vmm_destroy_as ==
    /\ free' = Frames
    /\ halted' = "destroyed"
    /\ UNCHANGED <<others, leaked, mem, windows, as, status, ctx, lists, prog, mixed>>

\* pmm_alloc_block: the first free bit, and then its setting, which is one step in a
\* system call.  When a user task takes the page between the two steps of the shell,
\* both have it, and nothing is known any more.
FindBlock(a) ==
    /\ Runs(a) /\ ctx[a].alloc = "find"
    /\ \/ /\ free = {}
          /\ ctx' = [ctx EXCEPT ![a].alloc = "got", ![a].found = 0]
          /\ UNCHANGED free
       \/ /\ free # {} /\ a = SHELL
          /\ ctx' = [ctx EXCEPT ![a].alloc = "set", ![a].found = Min(free)]
          /\ UNCHANGED free
       \/ /\ free # {} /\ a = USER
          /\ ctx' = [ctx EXCEPT ![a].alloc = "got", ![a].found = Min(free)]
          /\ free' = free \ {Min(free)}
    /\ UNCHANGED <<others, leaked, mem, windows, as, status, halted, lists, prog, mixed>>

SetBlock ==
    LET found == ctx[SHELL].found
    IN /\ Runs(SHELL) /\ ctx[SHELL].alloc = "set"
       /\ \/ /\ found \in free
             /\ free' = free \ {found}
             /\ ctx' = [ctx EXCEPT ![SHELL].alloc = "got"]
             /\ UNCHANGED halted
          \/ /\ found \notin free
             /\ halted' = "shared"
             /\ UNCHANGED <<free, ctx>>
       /\ UNCHANGED <<others, leaked, mem, windows, as, status, lists, prog, mixed>>

\* The call with what it has got put away.
Put(a) == [ctx[a] EXCEPT !.alloc = "no", !.found = 0]

\* elf_load returned 0: task_create_user gives up the address space, the exec of
\* a user task returns -1 to the program it has been replacing.
LoadFails(a, given) ==
    \/ a = SHELL /\ vmm_destroy_as
    \/ /\ a = USER
       /\ ctx' = [ctx EXCEPT ![USER] = Idle]
       /\ free' = free \union given
       /\ UNCHANGED <<others, leaked, mem, windows, as, status, halted, lists, prog, mixed>>

\* The window is mapped in the directory that the processor uses.  A user task
\* has the window tables that existed when it was created.
Sees(a, w) == kdir[w] # 0 /\ (a = SHELL \/ w \in as[ctx[a].task].kdirs)

\* The shell: a file that is not empty, and the task_t.
Exec(t, p) ==
    /\ At(SHELL, "idle")
    /\ status[t] = "none"
    /\ Programs[p].size > 0
    /\ \E b \in Blocks \ live :
          /\ block' = [block EXCEPT ![t] = b]
          /\ live' = live \union {b}
          /\ dead' = dead \ {b}
          /\ next_sibling' = [next_sibling EXCEPT ![b] = 0]
    /\ status' = [status EXCEPT ![t] = "creating"]
    /\ ctx' = [ctx EXCEPT ![SHELL] = [Idle EXCEPT !.pc = "pd", !.alloc = "find", !.task = t,
                                                  !.prog = p, !.at = 1]]
    /\ UNCHANGED <<pages, mem, windows, as, halted, first_child, created, stolen, prog, mixed>>

\* vmm_create_as.
CreateSpace ==
    LET t == ctx[SHELL].task
        found == ctx[SHELL].found
    IN /\ Got(SHELL, "pd")
       /\ \/ /\ found = 0
             /\ ctx' = [ctx EXCEPT ![SHELL] = Idle]
             /\ status' = [status EXCEPT ![t] = "none"]
             /\ live' = live \ {block[t]}
             /\ block' = [block EXCEPT ![t] = 0]
             /\ UNCHANGED as
          \/ /\ found # 0
             /\ ctx' = [ctx EXCEPT ![SHELL] = [Put(SHELL) EXCEPT !.pc = "kstack"]]
             /\ as' = [as EXCEPT ![t].pd = found, ![t].kdirs = {w \in WinDirs : kdir[w] # 0}]
             /\ UNCHANGED <<status, block, live>>
       /\ UNCHANGED <<pages, mem, windows, halted, dead, next_sibling, first_child, created,
                      stolen, prog, mixed>>

\* The kernel stack, for which there may be no memory.
KernelStack ==
    /\ At(SHELL, "kstack")
    /\ \/ vmm_destroy_as
       \/ /\ AllocAt(SHELL, "ustack")
          /\ UNCHANGED <<pages, mem, windows, as, status, halted, lists, prog, mixed>>

\* The user stack.
UserStack ==
    LET c == ctx[SHELL]
    IN /\ Got(SHELL, "ustack")
       /\ \/ c.found = 0 /\ vmm_destroy_as
          \/ /\ c.found # 0
             /\ as' = [as EXCEPT ![c.task].ustack = c.found]
             /\ ctx' = [ctx EXCEPT ![SHELL] = [Put(SHELL) EXCEPT !.pc = "stacktable",
                                                                 !.alloc = "find"]]
             /\ UNCHANGED <<pages, mem, windows, status, halted, lists, prog, mixed>>

\* vmm_map_page_in_as: its page table, and its mapping, which fails without notice.
MapStack ==
    LET c == ctx[SHELL]
    IN /\ Got(SHELL, "stacktable")
       /\ as' = [as EXCEPT ![c.task].stacktable = c.found,
                           ![c.task].stack = IF c.found = 0 THEN 0 ELSE as[c.task].ustack]
       /\ ctx' = [ctx EXCEPT ![SHELL] = [Put(SHELL) EXCEPT !.pc = "load"]]
       /\ UNCHANGED <<pages, mem, windows, status, halted, lists, prog, mixed>>

\* A task that runs can make a system call; without a page in memory it faults at its
\* first instruction.
Calls(t) ==
    /\ halted = "no" /\ ctx[USER].pc = "idle"
    /\ status[t] = "started"
    /\ \E v \in VPages : as[t].pages[v] # 0

\* A user task: the file is read, nothing is replaced yet.
UserExec(t, p) ==
    /\ Calls(t)
    /\ Programs[p].size > 0
    /\ execs < MaxExecs
    /\ execs' = execs + 1
    /\ ctx' = [ctx EXCEPT ![USER] =
                  [Idle EXCEPT !.pc = "load", !.task = t, !.prog = p, !.at = 1]]
    /\ UNCHANGED <<pages, mem, windows, as, status, halted, lists, prog, mixed>>

\* elf_validate.
Validate(a) ==
    /\ At(a, "load")
    /\ \/ ~Programs[ctx[a].prog].valid /\ LoadFails(a, {})
       \/ /\ Programs[ctx[a].prog].valid
          /\ Goto(a, "page")
          /\ UNCHANGED <<pages, mem, windows, as, status, halted, lists, prog, mixed>>

\* map_user_page_accessible: the page.
AllocPage(a) ==
    /\ At(a, "page") /\ ctx[a].at <= Len(Work(ctx[a].prog))
    /\ AllocAt(a, "phys")
    /\ UNCHANGED <<pages, mem, windows, as, status, halted, lists, prog, mixed>>

\* MUTANT: the page table is not looked for, a new one is used for every page.
LookupTableNever(a) ==
    /\ Got(a, "phys") /\ ctx[a].found # 0
    /\ ctx' = [ctx EXCEPT ![a] = [Put(a) EXCEPT !.phys = ctx[a].found, !.pc = "table",
                                                !.alloc = "find"]]
    /\ UNCHANGED <<pages, mem, windows, as, status, halted, lists, prog, mixed>>

\* The page table that it goes in, or a new one.
LookupTable(a) ==
    LET c == ctx[a]
        table == as[c.task].table
        next == [Put(a) EXCEPT !.phys = c.found]
    IN /\ Got(a, "phys")
       /\ \/ c.found = 0 /\ LoadFails(a, {})
          \/ /\ c.found # 0
             /\ ctx' = [ctx EXCEPT ![a] =
                    IF table # 0 THEN [next EXCEPT !.pc = "window", !.table = table]
                    ELSE [next EXCEPT !.pc = "table", !.alloc = "find"]]
             /\ UNCHANGED <<pages, mem, windows, as, status, halted, lists, prog, mixed>>

\* Without a page for the table, the page is given back.
AllocTable(a) ==
    LET c == ctx[a]
    IN /\ Got(a, "table")
       /\ \/ c.found = 0 /\ LoadFails(a, {c.phys})
          \/ /\ c.found # 0
             /\ ctx' = [ctx EXCEPT ![a] = [Put(a) EXCEPT !.pc = "window", !.table = c.found]]
             /\ UNCHANGED <<pages, mem, windows, as, status, halted, lists, prog, mixed>>

\* vmm_map_page of a window in the directory entry w, with OnMapped when it has a
\* table: get_page_table finds one, or allocates one - and puts it in the directory
\* although a user task may have put one there meanwhile.  Without a page for it
\* the window stays as it was, which vmm_map_page does not report.
MapWindow(a, pc, w, next, OnMapped, OnFailed) ==
    \/ /\ At(a, pc) /\ kdir[w] = 0
       /\ AllocAt(a, pc)
       /\ UNCHANGED <<pages, windows>>
    \/ /\ At(a, pc) /\ kdir[w] # 0
       /\ OnMapped
       /\ Goto(a, next)
       /\ UNCHANGED <<pages, kdir>>
    \/ /\ Got(a, pc) /\ ctx[a].found # 0
       /\ OnMapped
       /\ kdir' = [kdir EXCEPT ![w] = ctx[a].found]
       /\ leaked' = leaked \union ({kdir[w]} \ {0})
       /\ ctx' = [ctx EXCEPT ![a] = [Put(a) EXCEPT !.pc = next]]
       /\ UNCHANGED <<free, others>>
    \/ /\ Got(a, pc) /\ ctx[a].found = 0
       /\ OnFailed
       /\ ctx' = [ctx EXCEPT ![a] = [Put(a) EXCEPT !.pc = next]]
       /\ UNCHANGED <<pages, kdir>>

\* The window on the page table.
OpenTableWindow(a) ==
    /\ MapWindow(a, "window", PtDir, "entry",
           ptwin' = ctx[a].table /\ UNCHANGED datawin,
           UNCHANGED <<ptwin, datawin>>)
    /\ UNCHANGED <<mem, as, status, halted, lists, prog, mixed>>

\* The entry is written through the window, and the window closed without freeing
\* the table.
WriteEntry(a) ==
    LET c == ctx[a]
        v == Work(c.prog)[c.at].page
    IN /\ At(a, "entry")
       /\ \/ ~(Sees(a, PtDir) /\ ptwin # 0) /\ Panic
          \/ /\ Sees(a, PtDir) /\ ptwin # 0
             /\ as' = [as EXCEPT ![c.task].table = c.table, ![c.task].pages[v] = c.phys]
             /\ leaked' = leaked \union ({as[c.task].pages[v]} \ {0})
             /\ ptwin' = 0
             /\ mixed' = [mixed EXCEPT ![c.task] = a = USER]
             /\ Goto(a, "datawindow")
             /\ UNCHANGED <<free, others, mem, kdir, datawin, status, halted, lists, prog>>

\* The window on the page.
OpenDataWindow(a) ==
    /\ MapWindow(a, "datawindow", DirOf(ctx[a].phys), "copy",
           datawin' = [datawin EXCEPT ![DataWindow(ctx[a].phys)] = ctx[a].phys] /\ UNCHANGED ptwin,
           UNCHANGED <<ptwin, datawin>>)
    /\ UNCHANGED <<mem, as, status, halted, lists, prog, mixed>>

CopyPage(a) ==
    LET c == ctx[a]
        w == DataWindow(c.phys)
    IN /\ At(a, "copy")
       /\ \/ ~(Sees(a, DirOf(c.phys)) /\ datawin[w] # 0) /\ Panic
          \/ /\ Sees(a, DirOf(c.phys)) /\ datawin[w] # 0
             /\ mem' = [mem EXCEPT ![datawin[w]] = PageCells(c.prog, Work(c.prog)[c.at])]
             /\ datawin' = [datawin EXCEPT ![w] = 0]
             /\ ctx' = [ctx EXCEPT ![a].pc = "page", ![a].at = c.at + 1,
                                   ![a].phys = 0, ![a].table = 0]
             /\ UNCHANGED <<pages, kdir, ptwin, as, status, halted, lists, prog, mixed>>

\* MUTANT: the parent's list starts with the child before the child is linked.
AddChildSwapped(parent, b) ==
    /\ first_child' = [first_child EXCEPT ![parent] = b]
    /\ next_sibling' = [next_sibling EXCEPT ![b] = b]

task_add_child(parent, b) ==
    /\ next_sibling' = [next_sibling EXCEPT ![b] = first_child[parent]]
    /\ first_child' = [first_child EXCEPT ![parent] = b]

\* The program is loaded: the shell hands the task to the scheduler.
Started(a) ==
    LET c == ctx[a]
    IN /\ At(a, "page") /\ c.at > Len(Work(c.prog))
       /\ ctx' = [ctx EXCEPT ![a] = Idle]
       /\ prog' = [prog EXCEPT ![c.task] = c.prog]
       /\ \/ /\ a = SHELL
             /\ status' = [status EXCEPT ![c.task] = "started"]
             /\ task_add_child(SHELL, block[c.task])
             /\ created' = <<c.task>> \o created
             /\ UNCHANGED mixed
          \/ /\ a = USER
             /\ mixed' = [mixed EXCEPT ![c.task] = FALSE]
             /\ UNCHANGED <<status, next_sibling, first_child, created>>
       /\ UNCHANGED <<pages, mem, windows, as, halted, block, live, dead, stolen>>

-----------------------------------------------------------------------------
(***************************************************************************)
(* fork, wait and exit.                                                    *)
(***************************************************************************)
\* The pages clone_page_directory asks for: it copies the identity map too, which
\* is more than there can be.
clone_page_directory(t) ==
    1 + FrameCount + KernelPages
      + Cardinality({v \in VPages : as[t].pages[v] # 0})

\* The clone takes what there is and gives up without giving it back; the child,
\* linked before, is freed and stays in the list.
Fork(t) ==
    /\ Calls(t)
    /\ clone_page_directory(t) > Cardinality(free)
    /\ leaked' = leaked \union free
    /\ free' = {}
    /\ \E b \in Blocks \ live :
          /\ task_add_child(t, b)
          /\ dead' = dead \ {b}
    /\ UNCHANGED <<others, mem, windows, as, status, ctx, halted, block, live, created,
                   stolen, prog, mixed>>

\* The n-th block of the list of the parent; 0 past its end.
Child(parent, n) ==
    LET at[k \in 0..n] ==
            IF k = 0 THEN first_child[parent]
            ELSE IF at[k - 1] = 0 THEN 0 ELSE next_sibling[at[k - 1]]
    IN at[n]

Reach == 0..Cardinality(Blocks)
Zombies(t) == {n \in Reach : Child(t, n) \in dead}

\* task_remove_child of the n-th block.
task_remove_child(parent, n) ==
    LET b == Child(parent, n)
    IN IF n = 0
       THEN /\ first_child' = [first_child EXCEPT ![parent] = next_sibling[b]]
            /\ next_sibling' = [next_sibling EXCEPT ![b] = 0]
       ELSE /\ next_sibling' = [next_sibling EXCEPT ![Child(parent, n - 1)] = next_sibling[b],
                                                    ![b] = 0]
            /\ UNCHANGED first_child

\* The first zombie of the list is reaped; without one the task blocks, or walks
\* a list that has no end.
Wait(t) ==
    /\ Calls(t)
    /\ first_child[t] # 0
    /\ \/ /\ Zombies(t) # {}
          /\ task_remove_child(t, Min(Zombies(t)))
          /\ dead' = dead \ {Child(t, Min(Zombies(t)))}
          /\ stolen' = TRUE
          /\ UNCHANGED <<status, halted>>
       \/ /\ Zombies(t) = {} /\ Child(t, Cardinality(Blocks)) = 0
          /\ status' = [status EXCEPT ![t] = "blocked"]
          /\ UNCHANGED <<halted, next_sibling, first_child, dead, stolen>>
       \/ /\ Zombies(t) = {} /\ Child(t, Cardinality(Blocks)) # 0
          /\ halted' = "spins"
          /\ UNCHANGED <<status, next_sibling, first_child, dead, stolen>>
    /\ UNCHANGED <<pages, mem, windows, as, ctx, block, live, created, prog, mixed>>

\* task_exit; the parent, the shell, never blocks.
Exit(t) ==
    /\ Calls(t)
    /\ status' = [status EXCEPT ![t] = "exited"]
    /\ dead' = dead \union {block[t]}
    /\ UNCHANGED <<pages, mem, windows, as, ctx, halted, block, live, next_sibling,
                   first_child, created, stolen, prog, mixed>>

-----------------------------------------------------------------------------
\* Another client of the page allocator, such as a large kmalloc, gives its pages
\* back between two commands of the shell.
OtherGives ==
    /\ At(SHELL, "idle")
    /\ others # {}
    /\ free' = free \union others
    /\ others' = {}
    /\ UNCHANGED <<leaked, mem, windows, as, status, ctx, halted, lists, prog, mixed>>

Step ==
    \/ \E t \in Tasks, p \in DOMAIN Programs : Exec(t, p)
    \/ CreateSpace
    \/ KernelStack
    \/ UserStack
    \/ MapStack
    \/ \E a \in Actors : FindBlock(a)
    \/ SetBlock
    \/ \E a \in Actors : Validate(a)
    \/ \E a \in Actors : AllocPage(a)
    \/ \E a \in Actors : LookupTable(a)
    \/ \E a \in Actors : AllocTable(a)
    \/ \E a \in Actors : OpenTableWindow(a)
    \/ \E a \in Actors : WriteEntry(a)
    \/ \E a \in Actors : OpenDataWindow(a)
    \/ \E a \in Actors : CopyPage(a)
    \/ \E a \in Actors : Started(a)
    \/ \E t \in Tasks : Fork(t)
    \/ \E t \in Tasks : Wait(t)
    \/ \E t \in Tasks : Exit(t)
    \/ OtherGives

Next ==
    \/ Step /\ UNCHANGED execs
    \/ \E t \in Tasks, p \in DOMAIN Programs : UserExec(t, p)

Spec == Init /\ [][Next]_vars

-----------------------------------------------------------------------------
(***************************************************************************)
(* Properties.                                                             *)
(***************************************************************************)
Segments(p) == {seg \in Range(Programs[p].segs) : seg.load}
PagesOf(seg) == {w.page : w \in Range(SegmentPages(seg))}

\* What the loader handles: segments that start on a page boundary, none sharing
\* a page, at least one page to load, and all of the file's data in the buffer.
Loadable(p) ==
    /\ Work(p) # <<>>
    /\ \A seg \in Segments(p) : seg.offset + seg.filesz <= BytesRead(p)
    /\ \A seg \in Segments(p) : seg.vaddr % PAGE_SIZE = 0
    /\ \A s1, s2 \in Segments(p) : s1 # s2 => PagesOf(s1) \intersect PagesOf(s2) = {}

\* A task that sys_exec started has its stack mapped and its segments in memory:
\* the file's bytes, and zeros up to memsz.  The mapping of the stack and of the
\* windows may fail without notice, and a user task's exec may close the windows
\* that the shell is using: then the machine stops, or the exec fails, but no task
\* starts with another image.  Two things are excepted: an exec of a user task that
\* fails has replaced pages of the program that goes on running (mixed); and when
\* one comes between the test and the setting of a bit in the shell's
\* pmm_alloc_block, both have the page (halted is "shared").
ImageExact ==
    \A t \in Tasks :
        (halted = "no" /\ prog[t] # 0 /\ ~mixed[t] /\ Loadable(prog[t])) =>
            /\ as[t].stack # 0
            /\ \A seg \in Segments(prog[t]) : \A i \in 0..(seg.memsz - 1) :
                   LET frame == as[t].pages[(seg.vaddr + i) \div PAGE_SIZE]
                   IN /\ frame # 0
                      /\ mem[frame][(seg.vaddr + i) % PAGE_SIZE] =
                             IF i < seg.filesz THEN File(prog[t], seg.offset + i) ELSE Zero

\* Where a page can be held, and the page there: in an address space, by a call that
\* is mapping it, in the window tables.
Mapping(pcs) == {a \in Actors : ctx[a].pc \in pcs}
Holdings ==
    {<<"pd", t, as[t].pd>> : t \in Tasks}
        \union {<<"table", t, as[t].table>> : t \in Tasks}
        \union {<<"stacktable", t, as[t].stacktable>> : t \in Tasks}
        \union {<<"ustack", t, as[t].ustack>> : t \in Tasks}
        \union {<<"page", tv, as[tv[1]].pages[tv[2]]>> : tv \in Tasks \X VPages}
        \union {<<"found", a, ctx[a].found>> : a \in {x \in Actors : ctx[x].alloc = "got"}}
        \union {<<"phys", a, ctx[a].phys>> : a \in Mapping({"table", "window", "entry"})}
        \union {<<"newtable", a, ctx[a].table>> :
                   a \in {x \in Mapping({"window", "entry"}) :
                             ctx[x].table # as[ctx[x].task].table}}
        \union {<<"window", w, kdir[w]>> : w \in WinDirs}

\* Every page is in one place: free, with another client, leaked, or held for one
\* purpose by one address space or one call in progress - although a call can be
\* preempted between taking a page and recording it, find a table where there was
\* none, and fail after any of its allocations.  Two things end it: the destruction
\* of an address space, and a user task's exec between the test and the setting of
\* a bit in the shell's pmm_alloc_block (PagesNotShared of Pmm_race.cfg has that).
FramesExclusive ==
    halted \notin {"destroyed", "shared"} =>
        LET slots == {x \in Holdings : x[3] \in Frames}
            held == {x[3] : x \in slots}
        IN /\ \A x, y \in slots : x[3] = y[3] => x = y
           /\ free \intersect others = {} /\ free \intersect leaked = {}
           /\ others \intersect leaked = {}
           /\ (free \union others \union leaked) \intersect held = {}
           /\ free \union others \union leaked \union held = Frames

\* The shell's list of children is the tasks it created, newest first, although
\* the lists of tasks whose fork failed lead through freed blocks that later
\* tasks are built in - until one of these waits and reaps such a task.
ShellChildren ==
    ~stolen =>
        /\ \A i \in DOMAIN created : Child(SHELL, i - 1) = block[created[i]]
        /\ Child(SHELL, Len(created)) = 0
=============================================================================
