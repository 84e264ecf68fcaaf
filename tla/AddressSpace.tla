---------------------------- MODULE AddressSpace ----------------------------
(***************************************************************************)
(* The life of the one process the kernel starts, as its frames see it:    *)
(* memory::init takes the kernel heap's frames, spawn_user_thread builds   *)
(* page tables, user heap, program and first stack, threads fork and exit, *)
(* and the last exit drops the Process and frees its page tables.          *)
(*                                                                         *)
(* A call of the code is the sequence `todo` of what it still has to do;   *)
(* every allocate_frame and deallocate_frame is a step of its own and may  *)
(* be the one that fails.  Nothing else touches frames meanwhile: spawning *)
(* ends before the new thread is queued, and system calls run with         *)
(* interrupts off.                                                         *)
(*                                                                         *)
(* How many page tables a mapping needs depends on addresses that do not   *)
(* matter here, and is a constant.                                         *)
(***************************************************************************)
EXTENDS FrameAllocator, UserStacks, FiniteSets

CONSTANTS
  KernelFrames,  \* the numbers of frames init_heap may need: pages and tables
  KernelTables,  \* page tables of the kernel, which every process copies
  HeapTables,    \* per user heap page: the tables map_to has to add for it
  StackTables,   \* tables on the way to the level 1 table of the stacks
  Binaries,      \* programs: sequences of pages [page, tables], or Outside
  CodePages,     \* pages programs are loaded at
  TotalMemory,   \* memory_size of memory::init, in frames
  W              \* 2^64 bytes, in frames

Kernel == "kernel"
Process == "process"
Outside == [page |-> 0, tables |-> 0]  \* a segment outside the allowed range
None == 0                              \* an entry that maps nothing

ASSUME ClientsAssumption == Clients = {Kernel, Process}
ASSUME NoneAssumption == None \notin Range(Usable)
ASSUME TablesAssumption ==
  /\ KernelFrames \subseteq Nat /\ KernelTables \in Nat /\ StackTables \in Nat
  /\ HeapTables \in Seq(Nat) /\ HeapTables # <<>>
  /\ Binaries \subseteq Seq([page : CodePages, tables : Nat] \cup {Outside})
ASSUME WidthAssumption == W \in Nat /\ Len(Usable) < W /\ TotalMemory \in 0 .. W - 1

VARIABLES
  phase,   \* what the kernel is doing for the process
  todo,    \* the rest of the call in progress
  tables,  \* the frames of the process's page tables
  leaf,    \* what its page table entries map; all of them are writable
  frame,   \* the frame the call in progress is about to map
  used_memory, free_memory  \* of MEMORYLOGGER, in frames

process_vars == <<phase, todo, tables, leaf, frame>>
vars == <<frame_vars, stack_vars, process_vars, used_memory, free_memory>>

Pages == ({"heap"} \X DOMAIN HeapTables) \cup ({"code"} \X CodePages) \cup ({"stack"} \X Entries)
MappedPages == {p \in Pages : leaf[p] # None}
Mapped == {leaf[p] : p \in MappedPages}

Phases ==
  {"boot", "ready", "spawn", "failed", "stopped", "run", "fork", "exit", "teardown", "gone"}

Repeat(k, op) == [i \in 1 .. k |-> op]

Init ==
  /\ FramesInit
  /\ table = [i \in Entries |-> "unused"] /\ live = {} /\ id = 3
  /\ no_frame = FALSE /\ overrun = FALSE
  /\ phase = "boot"
  /\ \E k \in KernelFrames : todo = Repeat(k, <<"kernel">>) \o << <<"total">> >>
  /\ tables = <<>> /\ leaf = [p \in Pages |-> None] /\ frame = None
  /\ used_memory = 0 /\ free_memory = 0

-----------------------------------------------------------------------------
(* The calls, as the steps they take. *)

\* copy_pagetables: one new table for each of the kernel's.
copy_pagetables == Repeat(KernelTables, <<"table">>)

\* map_to(page, frame): `missing` tables, then the entry.
map_to(page, missing) == <<"map", page, missing>>

\* create_user_ondemand_pages: one frame for all pages of the heap.
create_user_ondemand_pages ==
  << <<"frame">> >> \o [i \in DOMAIN HeapTables |-> map_to(<<"heap", i>>, HeapTables[i])]

\* load_binary_into_memory: every page of every segment.
load_binary_into_memory(binary) ==
  [i \in DOMAIN binary |->
    IF binary[i] = Outside
    THEN <<"outside">>
    ELSE <<"load", <<"code", binary[i].page>>, binary[i].tables>>]

\* allocate_user_stack, when the process has no stacks yet.
first_user_stack == Repeat(StackTables, <<"table">>) \o << <<"search">> >>

\* The k last pages of a new stack in slot n, and its thread.
stack_pages(n, k) ==
  [j \in 1 .. k |-> <<"stack", Spacing * n + N - k + j>>] \o << <<"thread", n>> >>

\* Mutant: two slots' worth of entries are cleared.
free_stack_entries_wide(n) ==
  [j \in 1 .. 17 |-> <<"unmap", (Spacing * n + N + 1 - j) % (Spacing * Slots)>>]

\* free_user_stack: eleven entries, from the top.
free_stack_entries(n) ==
  LET iend == Spacing * n + N
  IN  [j \in 1 .. 11 |-> <<"unmap", iend + 1 - j>>]

-----------------------------------------------------------------------------
(* The steps. *)

op == Head(todo)[1]
arg == Head(todo)[2]
missing == Head(todo)[3]
doing(ops) == todo # <<>> /\ op \in ops
done == todo' = Tail(todo)

\* Mutant: the counters do not wrap.
log_allocation_unbounded ==
  /\ used_memory' = used_memory + 1
  /\ free_memory' = free_memory - 1

\* log_allocation and log_deallocation.
log_allocation ==
  /\ used_memory' = (used_memory + 1) % W
  /\ free_memory' = (free_memory - 1) % W
log_deallocation ==
  /\ used_memory' = (used_memory - 1) % W
  /\ free_memory' = (free_memory + 1) % W
log_nothing == UNCHANGED <<used_memory, free_memory>>

\* Mutant: the total is set before the heap is mapped.
setTotalMemory_added ==
  /\ free_memory' = (free_memory + TotalMemory) % W
  /\ UNCHANGED used_memory

setTotalMemory ==
  /\ free_memory' = TotalMemory
  /\ UNCHANGED used_memory

\* init_heap: a page or a table of the kernel heap.
init_heap ==
  /\ doing({"kernel"}) /\ allocate_frame(Kernel) /\ log_allocation /\ done
  /\ UNCHANGED <<stack_vars, phase, tables, leaf, frame>>

\* Mutant: a new PageFrameAllocator is stored in MEMORY_INFO.
init_fresh ==
  /\ doing({"total"}) /\ setTotalMemory /\ done
  /\ phase' = "ready"
  /\ next' = 0 /\ frame_usage' = {}
  /\ UNCHANGED <<held, panicked, stack_vars, tables, leaf, frame>>

\* The end of memory::init: the frame allocator that mapped the heap is kept.
init ==
  /\ doing({"total"}) /\ setTotalMemory /\ done
  /\ phase' = "ready"
  /\ UNCHANGED <<frame_vars, stack_vars, tables, leaf, frame>>

\* spawn_user_thread, with a binary that parses.
spawn_user_thread(binary) ==
  /\ phase = "ready" /\ phase' = "spawn"
  /\ todo' = copy_pagetables \o create_user_ondemand_pages
               \o load_binary_into_memory(binary) \o first_user_stack
  /\ log_nothing
  /\ UNCHANGED <<frame_vars, stack_vars, tables, leaf, frame>>

create_pagetable ==
  /\ doing({"table"}) /\ allocate_frame(Process) /\ log_allocation /\ done
  /\ tables' = Append(tables, candidate)
  /\ UNCHANGED <<stack_vars, phase, leaf, frame>>

\* The frame of the heap, or of a page of the program, which is mapped next.
take_frame ==
  /\ doing({"frame", "load"}) /\ allocate_frame(Process) /\ log_allocation
  /\ todo' = IF op = "frame" THEN Tail(todo) ELSE << map_to(arg, missing) >> \o Tail(todo)
  /\ frame' = candidate
  /\ UNCHANGED <<stack_vars, phase, tables, leaf>>

\* A table map_to adds.
map_table ==
  /\ doing({"map"}) /\ missing > 0 /\ allocate_frame(Process) /\ log_allocation
  /\ todo' = << map_to(arg, missing - 1) >> \o Tail(todo)
  /\ tables' = Append(tables, candidate)
  /\ UNCHANGED <<stack_vars, phase, leaf, frame>>

\* The entry map_to writes.
map_frame ==
  /\ doing({"map"}) /\ missing = 0 /\ leaf[arg] = None /\ done
  /\ leaf' = [leaf EXCEPT ![arg] = frame]
  /\ log_nothing
  /\ UNCHANGED <<frame_vars, stack_vars, phase, tables, frame>>

\* PageAlreadyMapped, or a segment outside the allowed range: spawning fails and
\* leaves everything where it is.
load_failed ==
  /\ doing({"map", "outside"}) /\ (op = "map" => missing = 0 /\ leaf[arg] # None)
  /\ phase' = "failed" /\ todo' = <<>>
  /\ log_nothing
  /\ UNCHANGED <<frame_vars, stack_vars, tables, leaf, frame>>

\* The calls that take a frame.
taking == doing({"kernel", "table", "frame", "load", "stack"}) \/ (doing({"map"}) /\ missing > 0)

\* allocate_frame returned None: an unwrap or an expect stops the kernel, or the
\* call returns an error.
out_of_frames ==
  /\ taking /\ allocate_none
  /\ phase' = CASE op \in {"kernel", "table"} -> "stopped"
                [] phase = "fork" -> "run"
                [] OTHER -> "failed"
  /\ no_frame' = (no_frame \/ phase = "fork")
  /\ todo' = <<>>
  /\ log_nothing
  /\ UNCHANGED <<table, live, id, overrun, tables, leaf, frame>>

\* frame_usage[frame_num] out of bounds.
out_of_map ==
  /\ taking /\ allocate_panic
  /\ log_nothing
  /\ UNCHANGED <<stack_vars, process_vars>>

\* fork_current_thread by a running thread.
fork_current_thread ==
  /\ phase = "run" /\ phase' = "fork"
  /\ todo' = << <<"search">> >>
  /\ log_nothing
  /\ UNCHANGED <<frame_vars, stack_vars, tables, leaf, frame>>

\* allocate_user_stack finds slot n.
find_slot(n) ==
  /\ doing({"search"}) /\ first(n) /\ fits(n)
  /\ id' = (id + 1) % Slots
  /\ todo' = stack_pages(n, N)
  /\ frame' = None
  /\ log_nothing
  /\ UNCHANGED <<frame_vars, table, live, no_frame, overrun, phase, tables, leaf>>

find_overrun ==
  /\ doing({"search"}) /\ (\E n \in SlotIds : allocate_overrun(n))
  /\ log_nothing
  /\ UNCHANGED <<frame_vars, process_vars>>

find_none ==
  /\ doing({"search"}) /\ allocate_full
  /\ phase' = "run" /\ todo' = <<>>
  /\ log_nothing
  /\ UNCHANGED <<frame_vars, tables, leaf, frame>>

\* A page of the stack.
map_stack_page ==
  /\ doing({"stack"}) /\ allocate_frame(Process) /\ log_allocation /\ done
  /\ table' = [table EXCEPT ![arg] = "mapped"]
  /\ leaf' = [leaf EXCEPT ![<<"stack", arg>>] = candidate]
  /\ UNCHANGED <<live, id, no_frame, overrun, phase, tables, frame>>

\* The thread exists; a forked one takes its id only now.
new_thread ==
  /\ doing({"thread"}) /\ done
  /\ live' = live \cup {arg}
  /\ id' = IF phase = "fork" THEN (id + 1) % Slots ELSE id
  /\ phase' = "run"
  /\ log_nothing
  /\ UNCHANGED <<frame_vars, table, no_frame, overrun, tables, leaf, frame>>

\* A thread exits: drop of Thread frees its stack, entry by entry.
drop_thread(n) ==
  /\ phase = "run" /\ n \in live
  /\ live' = live \ {n}
  /\ phase' = "exit"
  /\ todo' = free_stack_entries(n) \o << <<"drop">> >>
  /\ log_nothing
  /\ UNCHANGED <<frame_vars, table, id, no_frame, overrun, tables, leaf, frame>>

\* Mutant: the entry keeps its flags.
unmap_stack_page_writable ==
  /\ doing({"unmap"}) /\ table[arg] = "mapped"
  /\ deallocate_frame(leaf[<<"stack", arg>>]) /\ log_deallocation /\ done
  /\ held' = [held EXCEPT ![Process] = @ \ {leaf[<<"stack", arg>>]}]
  /\ table' = [table EXCEPT ![arg] = "cleared"]
  /\ UNCHANGED <<panicked, live, id, no_frame, overrun, phase, tables, leaf, frame>>

\* Mutant: the entry is zeroed.
unmap_stack_page_zero ==
  /\ doing({"unmap"}) /\ table[arg] = "mapped"
  /\ deallocate_frame(leaf[<<"stack", arg>>]) /\ log_deallocation /\ done
  /\ held' = [held EXCEPT ![Process] = @ \ {leaf[<<"stack", arg>>]}]
  /\ table' = [table EXCEPT ![arg] = "unused"]
  /\ leaf' = [leaf EXCEPT ![<<"stack", arg>>] = None]
  /\ UNCHANGED <<panicked, live, id, no_frame, overrun, phase, tables, frame>>

\* A writable entry loses its frame and its flags.
unmap_stack_page ==
  /\ doing({"unmap"}) /\ table[arg] = "mapped"
  /\ deallocate_frame(leaf[<<"stack", arg>>]) /\ log_deallocation /\ done
  /\ held' = [held EXCEPT ![Process] = @ \ {leaf[<<"stack", arg>>]}]
  /\ table' = [table EXCEPT ![arg] = "cleared"]
  /\ leaf' = [leaf EXCEPT ![<<"stack", arg>>] = None]
  /\ UNCHANGED <<panicked, live, id, no_frame, overrun, phase, tables, frame>>

\* Any other has no flags to lose.
skip_entry ==
  /\ doing({"unmap"}) /\ table[arg] # "mapped" /\ done
  /\ log_nothing
  /\ UNCHANGED <<frame_vars, stack_vars, phase, tables, leaf, frame>>

\* The thread's reference to its Process goes; the last one drops the Process.
drop_process ==
  /\ doing({"drop"}) /\ done
  /\ phase' = IF live = {} THEN "teardown" ELSE "run"
  /\ log_nothing
  /\ UNCHANGED <<frame_vars, stack_vars, tables, leaf, frame>>

-----------------------------------------------------------------------------
(* free_user_pagetables: every writable page of the user is returned, once per  *)
(* entry that maps it, and every table after what is below it.  Pages come in   *)
(* the order of their addresses.  A table may be returned before a page of      *)
(* another table; here all pages come first.                                    *)

Area == [code |-> 0, heap |-> 1, stack |-> 2]
before(p, q) == Area[p[1]] < Area[q[1]] \/ (p[1] = q[1] /\ p[2] <= q[2])

\* Mutant: the pages of stacks are taken for the kernel's.
user_pages_nostack == {p \in MappedPages : p[1] # "stack"}

user_pages == MappedPages

\* deallocate_frame of a page, whether or not the same frame went before.
free_page(p) ==
  /\ phase = "teardown" /\ p \in user_pages /\ \A q \in user_pages : before(p, q)
  /\ deallocate_frame(leaf[p]) /\ log_deallocation
  /\ held' = [held EXCEPT ![Process] = @ \ {leaf[p]}]
  /\ leaf' = [leaf EXCEPT ![p] = None]
  /\ UNCHANGED <<panicked, stack_vars, phase, todo, tables, frame>>

\* Mutant: the last table is the one that was active when the copy was made.
free_table_kernel ==
  /\ phase = "teardown" /\ user_pages = {} /\ tables # <<>>
  /\ deallocate_frame(IF Len(tables) = 1 THEN Usable[1] ELSE tables[Len(tables)]) /\ log_deallocation
  /\ held' = [held EXCEPT ![Process] = @ \ {tables[Len(tables)]}]
  /\ tables' = SubSeq(tables, 1, Len(tables) - 1)
  /\ phase' = IF Len(tables) = 1 THEN "gone" ELSE phase
  /\ UNCHANGED <<panicked, stack_vars, todo, leaf, frame>>

free_table ==
  /\ phase = "teardown" /\ user_pages = {} /\ tables # <<>>
  /\ deallocate_frame(tables[Len(tables)]) /\ log_deallocation
  /\ held' = [held EXCEPT ![Process] = @ \ {tables[Len(tables)]}]
  /\ tables' = SubSeq(tables, 1, Len(tables) - 1)
  /\ phase' = IF Len(tables) = 1 THEN "gone" ELSE phase
  /\ UNCHANGED <<panicked, stack_vars, todo, leaf, frame>>

-----------------------------------------------------------------------------
Next ==
  /\ ~panicked /\ ~overrun
  /\ \/ init_heap \/ init
     \/ \E binary \in Binaries : spawn_user_thread(binary)
     \/ create_pagetable \/ take_frame \/ map_table \/ map_frame \/ load_failed
     \/ out_of_frames \/ out_of_map
     \/ fork_current_thread
     \/ \E n \in SlotIds : find_slot(n) \/ drop_thread(n)
     \/ find_overrun \/ find_none
     \/ map_stack_page \/ new_thread
     \/ unmap_stack_page \/ skip_entry \/ drop_process
     \/ (\E p \in Pages : free_page(p)) \/ free_table

Spec == Init /\ [][Next]_vars

-----------------------------------------------------------------------------
\* Types.
TypeOK ==
  /\ FramesTypeOK /\ StacksTypeOK
  /\ phase \in Phases
  /\ tables \in Seq(Frames)
  /\ leaf \in [Pages -> Frames \cup {None}]
  /\ frame \in Frames \cup {None}
  /\ {used_memory, free_memory} \subseteq 0 .. W - 1

\* The process is a correct client of the frame allocator: it never returns a
\* frame it does not hold with any effect, although the heap's one frame is
\* returned once for every page that maps it.
FramesImplemented == FramesSpec

\* What UserStacks shows of the stacks: a call takes effect at its end (fork) or
\* its beginning (exit), and the first stack is there from the start.
Spawned == phase \in {"run", "fork", "exit", "teardown", "gone"}
Forking == phase = "fork" /\ todo # <<>> /\ todo[Len(todo)][1] = "thread"
NewSlot == todo[Len(todo)][2]

Shown(i) ==
  IF Forking /\ i \in Stack(NewSlot, N) THEN "unused"
  ELSE IF phase = "exit" /\ <<"unmap", i>> \in Range(todo) /\ table[i] = "mapped" THEN "cleared"
  ELSE table[i]
InFirst(i) == IF i \in Stack(4, N) THEN "mapped" ELSE "unused"

shown_table == [i \in Entries |-> IF Spawned THEN Shown(i) ELSE InFirst(i)]
shown_live == IF Spawned THEN live ELSE {4}
shown_id == IF ~Spawned THEN 4 ELSE IF Forking THEN (id - 1) % Slots ELSE id

Stacks == INSTANCE UserStacks WITH
  table <- shown_table, live <- shown_live, id <- shown_id

\* Frame by frame, with allocations that fail half way, the stacks behave as
\* UserStacks says whole calls do.
StacksImplemented == Stacks!StacksSpec

\* What the process holds is what its page tables reach: a thread that exits,
\* or a fork that fails half way, strands no frame (only the frame a failed
\* spawn had in hand is in no table).
HeldReachable ==
  phase # "teardown" =>
    held[Process] = Range(tables) \cup Mapped \cup ({frame} \ {None})

\* After the last exit the kernel holds what it held before the process
\* existed, whatever forks failed on the way.
EverythingReturned == phase = "gone" => frame_usage = held[Kernel]

\* A process maps none of its page tables, and no frame at two places, the pages
\* of its heap apart.
TablesNotMapped ==
  /\ Range(tables) \cap Mapped = {}
  /\ \A p, q \in MappedPages : leaf[p] = leaf[q] => p = q \/ (p[1] = "heap" /\ q[1] = "heap")

\* The statistics count the frames in use until a heap is torn down, and, once the
\* total is set, used and free memory add up to it and the frames taken before.
LoggerConsistent ==
  /\ phase \notin {"teardown", "gone"} => used_memory = Cardinality(frame_usage)
  /\ phase \notin {"boot", "stopped"} =>
       (used_memory + free_memory) % W = (TotalMemory + Cardinality(held[Kernel])) % W

-----------------------------------------------------------------------------
(***************************************************************************)
(* The inductive invariant: what is left of the call in progress in each   *)
(* phase, what becomes of the frame in hand, how the level 1 table of the  *)
(* stacks and the pages correspond, and what may be returned once more     *)
(* while the page tables are freed.                                        *)
(***************************************************************************)
HeapPages == {"heap"} \X DOMAIN HeapTables
ProgramPages == {"code"} \X CodePages
SpawnSteps ==
  {<<"table">>, <<"frame">>, <<"outside">>, <<"search">>}
    \cup ({"map"} \X (HeapPages \cup ProgramPages) \X Nat)
    \cup ({"load"} \X ProgramPages \X Nat)
CallSteps ==
  SpawnSteps
    \cup {<<"kernel">>, <<"total">>, <<"drop">>}
    \cup ({"stack", "unmap"} \X Entries)
    \cup ({"thread"} \X SlotIds)
HeapMap(o) == o[1] = "map" /\ o[2] \in HeapPages

\* Spawning, before the stack is built: the pages of the heap follow its frame,
\* and the search for a stack comes last.
Building ==
  /\ todo \in Seq(SpawnSteps) /\ todo # <<>>
  /\ \A i \in DOMAIN todo :
       /\ todo[i] = <<"search">> <=> i = Len(todo)
       /\ todo[i] = <<"frame">> => i < Len(todo) /\ HeapMap(todo[i + 1])
       /\ i > 1 /\ todo[i][1] = "map" =>
            /\ HeapMap(todo[i])
            /\ todo[i - 1] = <<"frame">> \/ HeapMap(todo[i - 1])

\* No stack yet, but possibly the first pages of the first one.
NoStack(k) ==
  /\ table = [i \in Entries |-> IF i \in Stack(4, k) THEN "mapped" ELSE "unused"]
  /\ live = {} /\ no_frame = FALSE /\ overrun = FALSE

\* A stack in slot n of which k pages are missing.
HalfStack(n, k) ==
  /\ todo = stack_pages(n, k)
  /\ Stack(n, N) \subseteq Entries
  /\ \A i \in Stack(n, N) : table[i] = IF i \in Stack(n, N - k) THEN "mapped" ELSE "unused"
  /\ Stacks!first(n)

Progress ==
  /\ todo \in Seq(CallSteps)
  /\ phase \in {"boot", "ready"} =>
       NoStack(0) /\ id = 3 /\ tables = <<>> /\ MappedPages = {} /\ frame = None
  /\ phase = "boot" =>
       /\ todo # <<>>
       /\ \A i \in DOMAIN todo : todo[i] = IF i = Len(todo) THEN <<"total">> ELSE <<"kernel">>
  /\ phase = "spawn" =>
       \/ Building /\ NoStack(0) /\ id = 3
       \/ \E k \in 0 .. N : todo = stack_pages(4, k) /\ NoStack(N - k) /\ id = 4 /\ frame = None
  /\ phase = "fork" =>
       todo = << <<"search">> >> \/ \E n \in SlotIds, k \in 0 .. N : HalfStack(n, k)
  /\ phase = "exit" =>
       /\ todo # <<>>
       /\ \A i \in DOMAIN todo :
            IF i = Len(todo) THEN todo[i] = <<"drop">> ELSE todo[i] \in {"unmap"} \X Entries
  /\ phase \notin {"boot", "spawn", "fork", "exit"} => todo = <<>>
  /\ phase \in {"run", "fork"} => live # {}
  /\ \A n \in live : Stack(n, N) \subseteq Entries
  /\ Spawned => frame = None

\* The frame in hand is mapped, or it is about to be: at its first place, or at
\* one more page of the heap.
InHand ==
  IF phase = "spawn" /\ todo[1][1] = "map"
  THEN /\ frame \in held[Process] \ Range(tables)
       /\ \A p \in MappedPages : leaf[p] = frame => {p, todo[1][2]} \subseteq HeapPages
  ELSE phase # "failed" => frame \in Mapped \cup {None}

\* While page tables are freed, a page may still map a frame that is free already;
\* returning it once more changes nothing.
FreedTwice ==
  phase = "teardown" =>
    /\ Range(tables) \subseteq held[Process]
    /\ held[Process] \subseteq Range(tables) \cup Mapped
    /\ \A f \in Mapped \ held[Process] : f \notin frame_usage /\ next <= f

ProcessInv ==
  /\ TypeOK /\ HeldReachable /\ TablesNotMapped /\ LoggerConsistent
  /\ IsInjective(tables)
  /\ Progress /\ InHand /\ FreedTwice
  /\ phase = "gone" => tables = <<>> /\ MappedPages = {}
  /\ phase \notin {"teardown", "gone"} =>
       \A i \in Entries : table[i] = "mapped" <=> leaf[<<"stack", i>>] # None
=============================================================================
