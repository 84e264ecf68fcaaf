# ZephyrRS: TLA+ models and proofs

ZephyrRS is a small preemptive x86_64 kernel in Rust: one CPU, kernel and user
threads, one user process with its own page table, rendezvous sockets for
message passing, and an interactive user program. This directory models its
concurrent core, its memory management from frames to the kernel heap, and its
console, checks them with TLC and proves the main invariants with TLAPS.

    tlc -config KernelSafety.cfg Kernel         # any run of the table below
    tlapm KernelProofs.tla                      # any *Proofs module

## The system

| part | source (under `src/zephyrRS`) | state | operations |
|---|---|---|---|
| sockets | `kernel/src/sync.rs` | a cell: empty, or one blocked thread and/or message | `send_message`, `receive`, `send_receive` |
| threads, scheduler | `kernel/src/proc/process.rs` | `RUNNING_THREAD`, `WAIT_QUEUE`, `COUNTER`, saved contexts, `page_table_phys` | `schedule`, `schedule_thread`, fork, exit, spawn, drop |
| system calls | `kernel/src/syscall.rs` | none of its own | receive, send, send-receive, yield, fork, exit, write |
| interrupts | `kernel/src/boot/interrupts.rs`, `gdt.rs` | TSS interrupt stack, PIC | timer, keyboard, page fault |
| boot | `kernel/src/main.rs`, `dev/vga_buffer.rs` | | spawn the listener and the user process, send its id |
| frame allocator | `kernel/src/mem/memory.rs` 263-373 | `next`, `frame_usage` | `allocate_frame`, `deallocate_frame` |
| user stacks | `kernel/src/mem/memory.rs` 534-615 | one level 1 page table | `allocate_user_stack`, `free_user_stack` |
| page tables | `kernel/src/mem/memory.rs` | CR3, the tables | create, switch, free recursively |
| user program | `bin/src/main.rs`, `api/src` | each thread's program counter | the shell's commands, the spawned threads |
| ELF loader | `kernel/src/proc/process.rs` 521-571 | | map and fill the segments |
| kernel heap | `kernel/src/mem/allocator*` | free lists | `alloc`, `dealloc` |
| memory logger | `kernel/src/mem/memory/memory_logger.rs` | counters | log an allocation, a deallocation |
| VGA writer, scancode stream, serial | `kernel/src/dev` | cursor and cells; a queue and a waker | write, scroll; add, poll |

How they interact. A system call takes the running thread out of
`RUNNING_THREAD` and gives it to a socket operation, which keeps it or hands it
back, perhaps with a second thread. The caller of the operation puts what it
got back into `RUNNING_THREAD` or at the front of `WAIT_QUEUE`, and calls
`schedule` if it has nothing to return to. The timer moves the running thread to
the back of the queue. The keyboard interrupt sends on a socket like a system
call, with no sending thread. System calls run with interrupts masked and
interrupt gates mask them too, so on the single CPU each handler is atomic with
respect to the others; kernel threads, and the code of thread 1 during boot, are
not. Fork and exit reach into the memory manager: stacks, page tables, frames.

What is hard here, and hard to test: every thread is owned in exactly one place
through every path of a rendezvous; the interrupt stack and the page table have
to follow the running thread; the last exit frees what all threads share; boot
runs concurrently with what it starts; two queue disciplines meet in one queue;
overlapping stack slots; an index that is a position in one place and a frame
number in another. `PROJECT.json` lists each of these as a hazard, with its line
and the properties about it.

## Modules

**Socket** has the three socket operations as functions from a cell and the
saved contexts to a new cell, new contexts and the two returned threads, as the
Rust functions do. A message is one word; a thread is its id.

**Kernel** (extends Socket) is the core. Its variables are the statics of the
kernel: `queue`, `running`, `threads`, `counter`, the five cells `sock`, the
saved `rax` and message registers `ctx`, `page_table_phys` as `pt`, `cr3`, the
`tables` not yet freed, the thread `ist` whose kernel stack is the interrupt
stack, and `cpu`, which is no longer `"on"` after the null context has been
launched. One action per system call and per interrupt handler, each with all it
calls. User threads are arbitrary programs: any of them makes any call with any
handle and message at any time. `Init` is the state in which `kernel_thread_main`
reaches its idle loop undisturbed. Printing, the monitors and `sys_write` touch
none of this state and are left out.

**Boot** (extends Kernel) starts one step earlier: thread 1 executes
`kernel_thread_main` step by step, with interrupts enabled, while what it
started already runs. It adds thread 1's program counter and the lock of
`ID_SOCKET`, which thread 1 takes with interrupts enabled. (The kernel heap's lock
is another such lock, see Not modelled.) Spawning is assumed to succeed.

**Shell** (extends Kernel) replaces the arbitrary user program by the real one:
`main` and its spawned threads, from system call to system call. A step looks at
the result of the last call and runs up to the next. The ten yields of a worker
are one, as a timer tick can do the same at any point.

**Faults** (extends Kernel) adds page faults of user threads and the read guard
the handler holds on `RUNNING_THREAD`.

**FrameAllocator** models `PageFrameAllocator` for any sequence of usable frames,
any size of the usage map and any set of owners. **MCFrameAllocator** gives it a
memory map with a hole and one frame above the usage map.

**UserStacks** models the one level 1 page table in which the user stacks of a
process live, with slots eight entries apart and stacks of ten pages.

**AddressSpace** (extends FrameAllocator and UserStacks) composes the two with what
lies between them: the life of the process, frame by frame. `memory::init` takes
the frames of the kernel heap and sets the logger's total; `spawn_user_thread`
copies the kernel's page tables, maps the user heap, loads the program and builds
the first stack; threads fork and exit; the last exit drops the Process and
`free_pages_rec` walks its tables. The rest of the call in progress is a sequence
of steps (`todo`), each of which takes or returns at most one frame, so that
frames can run out at any point. The four levels of page tables are abstracted to
how many tables a mapping has to add. Every frame taken or returned is logged by
`MEMORYLOGGER`, whose counters wrap. **MCAddressSpace** gives it a memory map.

**Heap** is the contract of a global allocator: memory inside the heap, aligned,
held by nobody else. **Allocation** is what the three allocators share,
**BumpAllocator**, **LinkedListAllocator** and **FixedSizeBlockAllocator** are the
three, and **KernelHeap** is a heap with any one of them as `ALLOCATOR`. Addresses
count in units of 8 bytes. The fallback heap of the fixed size blocks is an
external crate, modelled as the set of its free units. It takes the first hole
that fits, gives no block less than the 16 bytes of a hole record (`align_layout`,
so a block of the 8 byte class takes 16), and leaves no hole smaller than that in
front of or behind a block (`splits`). **MCKernelHeap** has the sizes.

**VgaBuffer** is the `Writer` as a record with a function per method, and a
reference definition of what a screen shows of a text. **Keyboard** (extends
VgaBuffer) is `dev/keyboard.rs`: the interrupt side `add_scancode`, the stream with
its waker, and the task `output_keypress`, statement by statement, while other
code prints. `print!` masks interrupts and is one step; a statement of the task
that locks `WRITER` itself is two, with everything else in between. The kernel
does not start this task at present, and the executor is an external crate.
**MCKeyboard** has the messages.

The `*Proofs` modules hold the theorems. In the specifications an operator whose
comment begins with "Mutant" is a faulty variant of the definition below it; it
is not part of the model, and each property is violated once one of them replaces
the original (`mutants` in `PROJECT.json`).

## Runs

| run | module, configuration | checks | shows |
|---|---|---|---|
| kernel_safety | Kernel, KernelSafety | TypeOK, EveryThreadHeldOnce, LaunchNeverNull, OwnInterruptStack, OwnAddressSpace, ResultIffReleased, AcceptedMessageDelivered, ReplyOnlyFromPeer, WokenThreadRunsNext | no thread or accepted message is lost or duplicated; stack, page table and result follow the thread; a woken thread is the next to run |
| kernel_tables | Kernel, KernelTables | ActiveTableLive | violated: a freed page table is loaded |
| boot | Boot, Boot | SafeWhileBooting, BootTableRestored, HandOver, StopsOnlyInHandOver, NoStarvation | boot, preempted anywhere, keeps threads, stacks and page tables in order and ends in a state of Kernel's inductive invariant, or stops while it hands the id over; a thread in the queue runs in the end, in spite of the threads woken to its front |
| boot_drop | Boot, BootDrop | ReleasedThreadLives | violated: the released thread is dropped |
| shell | Shell, Shell | ShellTypeOK, OwnId, OnlyCompletionsPanic, RunsOnKernel, PromptReturns | ids reach their threads; only a refused completion makes a thread panic; the prompt comes back after a one-thread command; the program is one of Kernel's |
| shell_wait | Shell, ShellWait | AwaitedThreadsLive | violated: `main` waits for a thread that has panicked |
| faults | Faults, Faults | FaultingThreadLeaves | violated: the handler waits for its own guard |
| frames_full | MCFrameAllocator, FramesFull | FailsOnlyWhenFull | violated: allocation fails with frames free |
| stacks_full | UserStacks, StacksFull | FullOnlyIfOccupied | violated: slots of dead threads are not reused |
| memory | MCAddressSpace, Memory | TypeOK, NoDoubleAllocation, UsedIffHeld, LiveStacksMapped, StacksDisjoint, PanicsOnlyAfterNoFrame, HeldReachable, EverythingReturned, TablesNotMapped, LoggerConsistent, FramesImplemented, StacksImplemented | the process takes and returns its frames exactly, whatever fails on the way; it is a client of FrameAllocator and behaves as UserStacks |
| heap | MCKernelHeap, Heap | NodesOutsideLive, NothingLost, FulfilsContract | each allocator implements Heap and keeps its free lists out of held memory |
| console | MCKeyboard, Console | KeyboardTypeOK, NoLostWakeup, ScancodesHandled, ScreenShowsText, SpinsOnlyBehindTask, OnlyVerticalPanics | no wakeup or accepted scancode is lost; the screen shows what was printed; where the task can stop the CPU |

The six runs marked "violated" each show the code doing something else than a
comment beside it says. `findings` in `PROJECT.json` quotes the comment and names
the line.

Four properties are refinements. RunsOnKernel: the shell is one of the programs
Kernel allows. FramesImplemented: with `held` as it is, AddressSpace is a
behaviour of FramesSpec, so what MemoryProofs shows of the allocator holds of
it; the frame of the user heap is returned once per page, and the mapping shows
that only the first return has an effect. StacksImplemented: a stack built entry
by entry appears in UserStacks when its thread does, and one taken down
disappears when its thread exits; this is the INSTANCE `Stacks`.
FulfilsContract: `Grants` maps the held blocks to what Heap grants.

### Bounds

`MaxId` bounds the ids of `unique_id()`. A fork takes two ids, so 8 allows three
user threads at once besides the listener and the idle thread, and 6 allows two.
Three is what a request, its peer and an intruder on one socket need, and what
one exit among several threads followed by a last one needs. A fork that fails
takes one id, so odd and even ids both occur.

`Msgs` has one message in the Kernel runs. The cells copy messages and never
compare them, and the theorems about messages hold for any set of them.
`UserHandles` is `{0, 1}`, the socket an interrupt and the socket a kernel
thread use. Two sockets are enough for a thread to be blocked on one while
another is used, and the code treats all sockets alike. Boot uses `{0, 2, 5}`: a
plain socket, `ID_SOCKET` (2) for its lock, and a handle past the end of the table,
which reaches the invalid handle path. NoStarvation is checked there, as the
behaviours of Boot continue as those of Kernel.

Shell has the four keys that stand for the kinds of command: `1` (49) spawns a
thread and waits for it, `2` (50) does so with two, `e` (101) spawns one and does
not wait, `x` (120) exits. With `MaxId` 9 the second spawn may also fail. Two key
presses let a second command meet what the first has left behind. Its `Msgs` also hold the
ids, which are sent as messages.

FramesFull has six usable frames in two regions, with a hole before the second, and
one frame above the usage map. StacksFull has eight slots instead of 64, so that
the search wraps around within a few forks; a stack reaches into the next slot only,
so more slots repeat the same picture. Both modules are proved for all sizes.

Memory has 52 usable frames, with a hole and one frame above the usage map, and ten
slots. The process needs ten frames besides its stacks of ten. The kernel heap
takes from 2 to 51 frames, the numbers chosen so that the allocation that fails is
once each kind of step: a kernel page, a copied table, the heap's frame, a table
and a page of the program, and each part of a first, second or third stack; with
the smallest heap the slots run out before the frames. One program loads, one maps
a page twice, and one has a segment outside the range. `W` stands for 2^64 bytes
and is large enough to tell a wrapped counter from any other.

Heap has twelve units, three owners and the block sizes 1, 2 and 4. Its six
layouts fill a class, need a class for their alignment only, or exceed all of
them. Blocks of size 1 are rounded up, blocks are placed behind a hole for their
alignment, and holes are passed over because too little would remain. Owners are
symmetric. Console has two rows of three columns, so that three key presses with a
message or two wrap and scroll; a queue of one scancode, so that the second finds
it full; three interrupts and one text of somebody else.

Boot, Faults, Memory, Heap, Console and the two runs on frames and stacks may stop
(a spin lock, a panic, a process that has exited, a bound), so their configurations
do not check for deadlock. Kernel and Shell do: the timer is enabled until the CPU
is lost.

### Fairness

- Boot and Shell: weak fairness of the timer interrupt. The PIT fires for ever
  and interrupts are enabled between two actions.
- Shell: strong fairness, per thread, of its next step. A thread loses the CPU at
  each tick, so its step is not continuously enabled. It does make progress each
  time it has the CPU, so a thread that runs again and again reaches its next
  system call. Nothing is assumed of the key presses.
- Faults: weak fairness of the interrupt and of the handler's own continuation,
  which keeps running with interrupts masked.
- Console: weak fairness of the task. Its thread is scheduled round robin and the
  executor polls a woken task. Nothing is assumed of interrupts or other output.

NoStarvation needs no fairness of any user thread: the arbitrary programs may call
or not call as they like.

## Proofs

The theorems hold for every value of the constants that satisfies the
assumptions of the modules. Every safety invariant, action property and
refinement that a passing run checks is a theorem; the runs check them on an
instance, together with liveness. An inductive invariant was first checked by
TLC on that instance. Each proof module has `USE Zenon`, which makes Zenon the
prover of every step that names no other; steps about numbers, sequences and
records cite `SMT`. tlapm translates for SMT in its own process, more slowly the
longer the module, and with both tried in turn the long modules time out.

| module | extends | proves |
|---|---|---|
| KernelProofs | Kernel | the nine properties of kernel_safety |
| BootProofs | Boot, KernelProofs | SafeWhileBooting, BootTableRestored, StopsOnlyInHandOver, HandOver |
| ShellProofs | Shell, KernelProofs | RunsOnKernel, ShellTypeOK, OwnId, OnlyCompletionsPanic |
| MemoryProofs | AddressSpace | NoDoubleAllocation, UsedIffHeld, of FrameAllocator; lemmas about AddressSpace |
| ProcessProofs | MemoryProofs | lemmas: the steps of fork, exit and teardown |
| UserStacksProofs | UserStacks | LiveStacksMapped, StacksDisjoint, PanicsOnlyAfterNoFrame, of UserStacks |
| AddressSpaceProofs | ProcessProofs | all properties of memory, of AddressSpace |
| ComponentProofs | KernelHeap, Keyboard | FulfilsContract, NodesOutsideLive, NothingLost; the safety properties of console |

**KernelProofs**, from `Msgs` and `UserHandles` being sets of numbers and `MaxId
>= 4`. `CoreInv` is the conjunction of the state invariants of Kernel and of
`ThreadsOK`: the idle thread exists and is never in a socket, ids do not exceed
the counter, every user thread has the user page table. `IInv` adds that the
listener exists. None of the invariants is inductive alone. That no null context
is launched needs the idle thread in the queue whenever it does not run, which
needs every thread to be held exactly once. A thread is taken out of a cell into
the queue without becoming held twice because the cell's variant tells whether
it holds one (`CellOK`, in `TypeOK`). A result is missing exactly in blocked
threads because each socket operation releases a thread and writes its `rax`
together.

The proof has one lemma per layer. `SendMessageContract`, `ReceiveContract` and
`SendReceiveContract` say what a socket operation gives back; all three satisfy
one `Contract`: the caller and the thread in the cell are split between the new
cell and the two results. `RendezvousInv` and `IpcInv` carry the contract to the
whole system for the three IPC system calls; `SwitchInv` (timer, yield),
`KeyboardInv`, `ForkInv` and `ExitInv` cover the other actions. The action
properties `ReplyOnlyFromPeer` and `AcceptedMessageDelivered` follow from `IInv`
and a case split on the operation that changed the cell: an operation on another
cell, or one that refused, leaves it alone. `WokenThreadRunsNext` follows from
where the two returned threads are put.

**BootProofs**, from the same assumptions. `BootInv` is `CoreInv`, what exists
at each step of thread 1, that the listener does not wait for an id, and the
page table thread 1 continues on. The last is loaded while thread 1 runs and
saved with it otherwise; the window between the switch of
`switch_pagetable_and_execute` and its return is covered because a preemption in
it saves the table that was loaded. While thread 1 is preempted a step is one of
Kernel, so `CoreStep` is used again. `AfterBoot` adds that once boot is over
every step is a step of Kernel.

**ShellProofs**, from `Keys` and ids being messages (`KeysAssumption`) and the
four handles the program uses being among `UserHandles`
(`UsedHandlesAssumption`). The invariant `SInv` rests on `IInv` and says where
each thread can be, what its last call returned there, and what each cell can
hold. Its core is `IdPhase`. An id goes through one socket that all new threads
read, and nothing in a message says for whom it is; that it reaches the right
thread needs that at most one thread at a time has still to take one. `Boots`:
the id of main is in the cell. `Quiet`: the cell is empty and no thread needs an
id. `Spawned`: main has spawned a thread and not yet sent the id, and the thread
may be waiting. `Offered`: main waits with the id. `main` leaves `Spawned` only
by sending, and from `Offered` it does not run until the thread has taken the
id, since a thread in a cell does not run. `ReceiveEffect`, `SendEffect` and
`KeyEffect` say what the kernel's operations do to a program; then there is one
lemma per step of the program. That the shell is one of Kernel's programs
(`ShellOnKernel`) needs `SInv`, as the words the shell sends have to be
messages.

**MemoryProofs**, **ProcessProofs** and **AddressSpaceProofs**, from an
injective sequence of usable frames (none of them frame 0), a natural `Limit`,
numbers of tables and programs of the right shape (`TablesAssumption`), and
fewer usable frames than a counter can count (`WidthAssumption`). `FInv` is
FramesTypeOK, NoDoubleAllocation and UsedIffHeld together: the search tests the
usage map, so that no frame gets a second owner needs the map to mark all that
is held. `InBounds` adds that every frame marked has an entry in the map. `AInv`
adds `ProcessInv`: the properties of the process, and `Progress`, what can be
left to do in each phase; `InHand`, that a frame taken and not yet mapped is
held and mapped nowhere, but for the one the heap pages share; and `FreedTwice`,
that in the teardown a frame mapped and no longer held is free and not before
`next`, so that returning it again changes nothing. Sizes of sets of frames
occur in LoggerConsistent only; `FramesCounted` has the three facts about them
that the steps need, and follows from the assumptions (`FramesCount`).
`FramesRefined`: each step is a step of FrameAllocator or leaves it alone, which
with `FreedTwice` covers the repeated returns. `StacksRefined`: a stack under
construction is not shown in UserStacks until its thread exists, so its entries
are taken back in the mapping. `FramesApart` and `StacksKept` bring what is
proved of the two abstract specifications back to AddressSpace: an entry shown
as mapped is mapped, and the live threads are those shown, once there are any.

**UserStacksProofs**, from an even number of slots above 5 (the code has 64):
`SInv` is StacksTypeOK, LiveStacksMapped and StacksDisjoint together. A new
stack takes entries that are unused, and those of live stacks are mapped, so
they are disjoint. Live stacks are therefore at least two slots apart
(`Neighbours`), and the eleventh entry that `free_user_stack` clears, the first
of its slot, can belong only to the stack one slot below. `EverySecondSlot`
gives PanicsOnlyAfterNoFrame: a search starts and goes on in steps that keep to
the slots not next to a used one, so that while no allocation has run out of
frames, every second slot is used and the last one, whose stack would not fit,
is never tried.

**ComponentProofs** has two components that stand alone. The kernel heap, from a
heap with room for a list node, layouts of positive size and alignment, finitely
many owners, ascending block sizes, and every block size at least an alignment
being a multiple of it (both are powers of two in the code). `HInv` has one part
per allocator. For the bump allocator, all held blocks end below `next_free`,
and the count is the number of holders, so that a reset finds nobody holding.
For the linked list, every held block has the padded room of its layout, and
that room is apart from the others and from every region in the list: the
padding is needed, as the node written when a block is returned may be larger
than the block. The list has at most one region, as `add_free_block` replaces
it. For the fixed size blocks, behind what an owner holds is all that the
fallback heap gave for a block of its class (`Room`), aligned to its class, and
held blocks, listed blocks and free units are pairwise apart. That what is handed out is disjoint from what is held
needs all of this: a list that contained a block twice, or a held one, would
hand it out again. There is a lemma per operation (`BumpAlloc`, `LinkedDealloc`,
`AllocListed`, ...), each of which gives both the invariant and the step of
Heap; `GiveStep` and `ReturnStep` turn a change of `held` into that step.
`KeepsAll`, over `HInv`, is the invariant behind NothingLost: every unit is
free, behind a listed block or behind a held one, and each operation moves whole
blocks between the three. The 8 bytes by which a block of the 8 byte class is
rounded up move with it; nobody can use them, and they are not lost.

The keyboard, from texts and keys being strings (`TextsAssumption`,
`KeysAssumption`). `KInv` adds to NoLostWakeup where the waker can be between
`register` and the second look at the queue: there, too, an empty registration
means that the task has been woken. It also adds that the lock is held only at
the statements that take it, from which SpinsOnlyBehindTask follows. `TaskInv`
has what the locals of the task satisfy at each statement: a position read in
one statement is used in another, and that it is still on the screen needs what
the branch in between has tested. `ScreenInv` says that, until a key first moves
the cursor, the screen shows the lines the text is broken into. A print is a
recursion over its bytes; the step is `ByteShows`, one byte on the screen
against one byte in the reference, and the induction over the length of the text
goes through `NatSet`, which the well-foundedness of the natural numbers gives.

Only model-checked: liveness (NoStarvation, PromptReturns, ScancodesHandled),
which is outside the prover; and Faults, whose one run shows a violation.
HandOver connects Boot to the theorems about Kernel: the state boot leaves
satisfies `IInv`, which every later step keeps.

## Not modelled

- The index arithmetic of the four page table levels and the bytes the ELF loader
  copies; parsing is an external crate.
- The lock of the kernel heap. Its shape is that of the `ID_SOCKET` lock in Boot:
  thread 1 allocates with interrupts enabled, and a handler that allocates meanwhile
  would wait for ever. KernelHeap has each operation as one step.
- The rest of the memory logger (peak, counts, last regions): printed only.
- `write_byte` for the bytes 0x08 and 0x7f: `write_string` replaces both before
  they get there. Colours.
- `pos.0 -= 1` after the left arrow (keyboard.rs:165): nothing reads what it
  writes. In a debug build it could panic at 0; the documented build is `--release`.
- The serial port, the user program's output and its heap: pure output, and an
  external allocator that is given one range. That all pages of this range map one
  frame is in AddressSpace; what programs see of it is not.
- `send_receive`, `open` and the retry loop of the user runtime, `add_handle`,
  `take_socket`, `give_socket` and `deallocate_page`: nothing calls them, and
  Kernel's arbitrary threads make the same system calls.
- The shell's commands that fault on purpose; Faults has their faults.
- The kernel stack on which the CPU halts after an exit, which is freed memory.
- The test runner, the panic output, the descriptor tables: straight-line code.
