------------------------- MODULE AddressSpaceProofs -------------------------
(***************************************************************************)
(* The theorems about AddressSpace, for every memory map, heap, program    *)
(* and number of stack slots: the process's page tables reach exactly what *)
(* it holds, the last exit returns all of it, the statistics are right,    *)
(* and every step is a step of FrameAllocator and of UserStacks or leaves  *)
(* them alone.                                                             *)
(***************************************************************************)
EXTENDS ProcessProofs, FiniteSetTheorems

\* Zenon proves the steps, but for those that cite SMT.
USE Zenon

-----------------------------------------------------------------------------
(* Counting frames. *)

\* No more frames can be in use than the counters can count.
LEMMA UsageCount ==
  ASSUME NEW F \in SUBSET Frames
  PROVE  IsFiniteSet(F) /\ Cardinality(F) \in Nat /\ Cardinality(F) < W
<1>1. DOMAIN Usable = 1 .. Len(Usable) /\ Len(Usable) \in Nat
  BY UsableAssumption, SMT
<1>2. IsFiniteSet(1 .. Len(Usable)) /\ Cardinality(1 .. Len(Usable)) = Len(Usable)
  <2>1. IsFiniteSet(1 .. Len(Usable))
        /\ Cardinality(1 .. Len(Usable)) = IF 1 > Len(Usable) THEN 0 ELSE Len(Usable) - 1 + 1
    BY <1>1, FS_Interval, SMTT(30)
  <2> QED  BY <1>1, <2>1, SMT
<1>3. Usable \in Surjection(1 .. Len(Usable), Frames)
  <2>1. \A f \in Frames : \E i \in 1 .. Len(Usable) : Usable[i] = f
    BY <1>1 DEF Frames, Range
  <2>2. Usable \in [1 .. Len(Usable) -> Frames]
    BY <1>1, UsableAssumption, SMT DEF Frames, Range
  <2> QED  BY <2>1, <2>2 DEF Surjection
<1>4. IsFiniteSet(Frames) /\ Cardinality(Frames) <= Len(Usable)
  BY <1>2, <1>3, FS_Surjection, SMT
<1>5. IsFiniteSet(F) /\ Cardinality(F) <= Cardinality(Frames)
  BY <1>4, FS_Subset
<1>6. Cardinality(F) \in Nat /\ Cardinality(Frames) \in Nat
  BY <1>4, <1>5, FS_CardinalityType
<1> QED  BY <1>1, <1>4, <1>5, <1>6, WidthAssumption, SMT

\* Frames can be counted one by one.
LEMMA FramesCount == FramesCounted
<1>1. Cardinality({}) = 0
  BY FS_EmptySet
<1>2. ASSUME NEW F \in SUBSET Frames, NEW f \in F
      PROVE  Cardinality(F) = Cardinality(F \ {f}) + 1
  <2>1. IsFiniteSet(F) /\ Cardinality(F) \in Nat
    BY UsageCount
  <2>2. Cardinality(F \ {f}) = Cardinality(F) - 1
    BY <2>1, FS_RemoveElement
  <2> QED  BY <2>1, <2>2, SMT
<1> QED  BY <1>1, <1>2, UsageCount DEF FramesCounted

-----------------------------------------------------------------------------
(* What follows for every behaviour. *)

\* AInv is an invariant, and the whole life of the process is one of the frame
\* allocator's behaviours.
THEOREM ProcessInductive == Spec => []AInv
<1>1. Init => AInv
  BY AtBoot, FramesCount
<1> QED  BY <1>1, EveryStep, PTL DEF Spec

\* The variables keep their types; in particular MEMORYLOGGER's counters stay below
\* 2^64 although log_allocation and log_deallocation wrap.
THEOREM ProcessTypeCorrect == Spec => []TypeOK
<1>1. AInv => TypeOK
  BY DEF AInv, ProcessInv
<1> QED  BY <1>1, ProcessInductive, PTL

\* fork_current_thread, drop of Thread and a fork that fails half way strand no
\* frame: the process holds exactly what its page tables reach.
THEOREM NothingStranded == Spec => []HeldReachable
<1>1. AInv => HeldReachable
  BY DEF AInv, ProcessInv
<1> QED  BY <1>1, ProcessInductive, PTL

\* free_user_pagetables returns every frame of the process: after the last exit
\* only the kernel's are in use.
THEOREM AllReturned == Spec => []EverythingReturned
<1>1. AInv => EverythingReturned
  <2> SUFFICES ASSUME AInv, phase = "gone" PROVE frame_usage = held[Kernel]
    BY DEF EverythingReturned
  <2>1. tables = <<>> /\ MappedPages = {} /\ frame = None /\ HeldReachable
    BY DEF AInv, ProcessInv, Progress, Spawned
  <2>2. Range(tables) = {} /\ Mapped = {}
    BY <2>1, SMT DEF Range, Mapped
  <2>3. held[Process] = {}
    BY <2>1, <2>2 DEF HeldReachable
  <2>4. frame_usage = held[Kernel] \cup held[Process]
    BY ClientsAssumption DEF AInv, FInv, UsedIffHeld
  <2> QED  BY <2>3, <2>4
<1> QED  BY <1>1, ProcessInductive, PTL

\* create_pagetable and map_to never take a frame that the process maps, and only
\* the pages of the user heap share one.
THEOREM TablesApart == Spec => []TablesNotMapped
<1>1. AInv => TablesNotMapped
  BY DEF AInv, ProcessInv
<1> QED  BY <1>1, ProcessInductive, PTL

\* MEMORYLOGGER counts the frames in use, and what is used and what is free add up.
THEOREM StatisticsRight == Spec => []LoggerConsistent
<1>1. AInv => LoggerConsistent
  BY DEF AInv, ProcessInv
<1> QED  BY <1>1, ProcessInductive, PTL

\* Every step of the kernel, the process and its threads is a call of
\* PageFrameAllocator that FrameAllocator allows, or none: what is proved of every
\* client of the frame allocator holds of this one.
THEOREM FramesRefined == Spec => FramesImplemented
<1>1. Init => FramesInit
  BY DEF Init
<1>2. AInv /\ [Next]_vars => [FramesNext]_frame_vars
  BY EveryStep
<1> QED  BY <1>1, <1>2, ProcessInductive, PTL DEF Spec, FramesImplemented, FramesSpec

\* No frame ever belongs to the kernel and to the process, and a frame is marked as
\* used exactly while one of them holds it.
THEOREM FramesApart == Spec => []NoDoubleAllocation /\ []UsedIffHeld
<1> QED  BY FramesRefined, FramesHeldOnce, UsageExact, PTL DEF FramesImplemented

-----------------------------------------------------------------------------
(* The stacks, as UserStacks shows them: every step is one of its calls, or     *)
(* changes nothing that it shows.                                               *)

ShownStep == [Stacks!StacksNext]_(Stacks!stack_vars)

\* Before the process runs, its first stack is shown.
LEMMA ShownEarly ==
  /\ ~Spawned => shown_live = {4} /\ shown_id = 4 /\ \A i \in Entries : shown_table[i] = InFirst(i)
  /\ ~Spawned' => shown_live' = {4} /\ shown_id' = 4 /\ \A i \in Entries : shown_table'[i] = InFirst(i)
  BY DEF shown_live, shown_id, shown_table, InFirst

\* Between calls, and while one searches, the table itself is shown.
LEMMA ShownPlain ==
  /\ phase \in {"run", "teardown", "gone"} \/ (phase = "fork" /\ todo = << <<"search">> >>) =>
       shown_live = live /\ shown_id = id /\ \A i \in Entries : shown_table[i] = table[i]
  /\ phase' \in {"run", "teardown", "gone"} \/ (phase' = "fork" /\ todo' = << <<"search">> >>) =>
       shown_live' = live' /\ shown_id' = id' /\ \A i \in Entries : shown_table'[i] = table'[i]
<1>1. ASSUME phase \in {"run", "teardown", "gone"} \/ (phase = "fork" /\ todo = << <<"search">> >>)
      PROVE  shown_live = live /\ shown_id = id /\ \A i \in Entries : shown_table[i] = table[i]
  <2>1. Spawned /\ ~Forking /\ phase # "exit"
    BY <1>1, SMT DEF Spawned, Forking
  <2> QED  BY <2>1 DEF shown_live, shown_id, shown_table, Shown
<1>2. ASSUME phase' \in {"run", "teardown", "gone"} \/ (phase' = "fork" /\ todo' = << <<"search">> >>)
      PROVE  shown_live' = live' /\ shown_id' = id' /\ \A i \in Entries : shown_table'[i] = table'[i]
  <2>1. Spawned' /\ ~Forking' /\ phase' # "exit"
    BY <1>2, SMT DEF Spawned, Forking
  <2> QED  BY <2>1 DEF shown_live, shown_id, shown_table, Shown
<1> QED  BY <1>1, <1>2

\* While a thread exits, all of its stack is shown as cleared.
LEMMA ShownExit ==
  /\ phase = "exit" =>
       /\ shown_live = live /\ shown_id = id
       /\ \A i \in Entries :
            shown_table[i] = IF <<"unmap", i>> \in Range(todo) /\ table[i] = "mapped"
                             THEN "cleared" ELSE table[i]
  /\ phase' = "exit" =>
       /\ shown_live' = live' /\ shown_id' = id'
       /\ \A i \in Entries :
            shown_table'[i] = IF <<"unmap", i>> \in Range(todo') /\ table'[i] = "mapped"
                              THEN "cleared" ELSE table'[i]
<1>1. phase = "exit" => Spawned /\ ~Forking
  BY DEF Spawned, Forking
<1>2. phase' = "exit" => Spawned' /\ ~Forking'
  BY DEF Spawned, Forking
<1> QED  BY <1>1, <1>2 DEF shown_live, shown_id, shown_table, Shown

\* A step that shows nothing.
LEMMA ShowsNothing ==
  ASSUME \A i \in Entries : shown_table'[i] = shown_table[i],
         shown_live' = shown_live, shown_id' = shown_id, UNCHANGED <<no_frame, overrun>>
  PROVE  ShownStep
<1>1. shown_table' = shown_table
  BY DEF shown_table
<1> QED  BY <1>1 DEF ShownStep, Stacks!stack_vars

\* UserStacks talks of the same slots and entries.
LEMMA SameTable ==
  /\ Stacks!Entries = Entries /\ Stacks!SlotIds = SlotIds /\ Stacks!N = N
  /\ \A n, k : Stacks!Stack(n, k) = Stack(n, k)
  BY DEF Stacks!Entries, Entries, Stacks!SlotIds, SlotIds, Stacks!N, N, Stacks!Stack, Stack,
         Stacks!Spacing, Spacing

\* Before the process runs there is nothing to show.
LEMMA EarlyStep ==
  ASSUME ~Spawned, ~Spawned', UNCHANGED <<no_frame, overrun>>
  PROVE  ShownStep
  BY ShownEarly, ShowsNothing

\* The id before another one.
LEMMA PreviousId ==
  ASSUME NEW i \in SlotIds
  PROVE  /\ (((i - 1) % Slots) + 1) % Slots = i
         /\ (((i - 1) % Slots) + 2) % Slots = (i + 1) % Slots
<1>1. Slots \in Nat /\ Slots > 5 /\ i \in 0 .. Slots - 1
  BY SlotsAssumption DEF SlotIds
<1>2. \E j \in SlotIds : (j + 1) % Slots = i
  <2>1. CASE i = 0
    <3>1. Slots - 1 \in SlotIds /\ (Slots - 1) + 1 = 0 + Slots /\ 0 \in 0 .. Slots - 1
      BY <1>1, SMT DEF SlotIds
    <3>2. (0 + Slots) % Slots = 0
      BY <1>1, <3>1, Wrap, SMT
    <3> QED  BY <2>1, <3>1, <3>2
  <2>2. CASE i # 0
    <3>1. i - 1 \in SlotIds /\ (i - 1) + 1 = i
      BY <1>1, <2>2, SMT DEF SlotIds
    <3>2. i % Slots = i
      BY <1>1, Wrap, SMT
    <3> QED  BY <3>1, <3>2
  <2> QED  BY <2>1, <2>2
<1>3. PICK j \in SlotIds : (j + 1) % Slots = i
  BY <1>2
<1>4. (i - 1) % Slots = j /\ (i + 1) % Slots = (j + 2) % Slots
  BY <1>3, NextId
<1> QED  BY <1>3, <1>4

\* What UserStacks calls an allocation: all pages of a stack, or the first k.
LEMMA ShownPages ==
  ASSUME NEW n, NEW k,
         \A i \in Entries : shown_table'[i] = IF i \in Stack(n, k) THEN "mapped" ELSE shown_table[i]
  PROVE  shown_table' = Stacks!map_pages(n, k)
<1>1. Stacks!map_pages(n, k) = [i \in Entries |-> IF i \in Stack(n, k) THEN "mapped" ELSE shown_table[i]]
  BY SameTable DEF Stacks!map_pages
<1>2. shown_table' = [i \in Entries |-> shown_table'[i]]
  BY DEF shown_table
<1> QED  BY <1>1, <1>2

LEMMA ShownStack ==
  ASSUME NEW n \in SlotIds, Stacks!first(n), Stack(n, N) \subseteq Entries, ~overrun, shown_live # {},
         \A i \in Entries : shown_table'[i] = IF i \in Stack(n, N) THEN "mapped" ELSE shown_table[i],
         shown_live' = shown_live \cup {n}, shown_id' = (shown_id + 2) % Slots,
         UNCHANGED <<no_frame, overrun>>
  PROVE  ShownStep
<1>1. Stacks!fits(n)
  BY SameTable DEF Stacks!fits, Stacks!first
<1>2. shown_table' = Stacks!map_pages(n, Stacks!N)
  BY ShownPages, SameTable
<1>3. Stacks!allocate_user_stack(n)
  BY <1>1, <1>2 DEF Stacks!allocate_user_stack
<1> QED  BY <1>3, SameTable DEF ShownStep, Stacks!StacksNext

LEMMA ShownPart ==
  ASSUME NEW n \in SlotIds, Stacks!first(n), Stack(n, N) \subseteq Entries, ~overrun, shown_live # {},
         NEW k \in 0 .. N - 1,
         \A i \in Entries : shown_table'[i] = IF i \in Stack(n, k) THEN "mapped" ELSE shown_table[i],
         shown_live' = shown_live, shown_id' = (shown_id + 1) % Slots, no_frame', UNCHANGED overrun
  PROVE  ShownStep
<1>1. Stacks!fits(n)
  BY SameTable DEF Stacks!fits, Stacks!first
<1>2. shown_table' = Stacks!map_pages(n, k)
  BY ShownPages
<1>3. Stacks!allocate_no_frame(n, k)
  BY <1>1, <1>2 DEF Stacks!allocate_no_frame
<1> QED  BY <1>3, SameTable DEF ShownStep, Stacks!StacksNext

\* A fork that runs out of frames.
LEMMA OutOfFramesShown ==
  ASSUME AInv, ~overrun, out_of_frames
  PROVE  ShownStep
<1>1. /\ todo # <<>> /\ op \in {"kernel", "table", "frame", "load", "stack", "map"}
      /\ phase' = CASE op \in {"kernel", "table"} -> "stopped"
                    [] phase = "fork" -> "run"
                    [] OTHER -> "failed"
      /\ UNCHANGED <<table, live, id, overrun>>
      /\ no_frame' = (no_frame \/ phase = "fork")
  BY DEF out_of_frames, taking, doing
<1>2. Progress /\ StacksTypeOK
  BY AllParts
<1>3. CASE op # "stack"
  <2>1. phase \in {"boot", "spawn"}
    BY <1>1, <1>2, <1>3, HeadPhase
  <2>2. ~Spawned /\ ~Spawned'
    BY <1>1, <2>1 DEF Spawned
  <2>3. UNCHANGED <<no_frame, overrun>>
    <3>1. no_frame \in BOOLEAN
      BY <1>2 DEF StacksTypeOK
    <3> QED  BY <1>1, <2>1, <3>1
  <2> QED  BY <2>2, <2>3, EarlyStep
<1>4. CASE op = "stack"
  <2>1. PICK n, k : StackStep(n, k)
    BY <1>1, <1>2, <1>4, HeadPhase, ZenonT(30)
  <2>2. /\ n \in SlotIds /\ k \in 1 .. N /\ Stack(n, N) \subseteq Entries /\ todo = stack_pages(n, k)
        /\ \/ phase = "spawn"
           \/ phase = "fork" /\ HalfStack(n, k)
    BY <1>4, <2>1, SMT DEF StackStep, N
  <2>3. CASE phase = "spawn"
    <3>1. ~Spawned /\ ~Spawned'
      BY <1>1, <2>3 DEF Spawned
    <3>2. no_frame \in BOOLEAN
      BY <1>2 DEF StacksTypeOK
    <3>3. UNCHANGED <<no_frame, overrun>>
      BY <1>1, <2>3, <3>2
    <3> QED  BY <3>1, <3>3, EarlyStep
  <2>4. CASE phase = "fork"
    <3>1. HalfStack(n, k) /\ phase' = "run" /\ no_frame' /\ live # {}
      BY <1>1, <1>2, <1>4, <2>2, <2>4 DEF Progress
    <3>2. k \in 0 .. N /\ N - k \in 0 .. N - 1
      BY <2>2, SMT DEF N
    <3>3. /\ \A i \in Entries : shown_table[i] = IF i \in Stack(n, N) THEN "unused" ELSE table[i]
          /\ shown_live = live /\ shown_id = (id - 1) % Slots
      BY <2>2, <2>4, <3>2, ShownFork
    <3>4. shown_live' = live /\ shown_id' = id /\ \A i \in Entries : shown_table'[i] = table[i]
      BY <1>1, <3>1, ShownPlain
    <3>5. (shown_id + 1) % Slots = id
      BY <1>2, <3>3, PreviousId DEF StacksTypeOK
    <3>6. Stack(n, N - k) \subseteq Stack(n, N)
      BY <2>2, SlotsAssumption, SMT DEF Stack, N, Spacing, SlotIds
    <3>7. \A i \in Entries : shown_table'[i] = IF i \in Stack(n, N - k) THEN "mapped" ELSE shown_table[i]
      BY <3>1, <3>3, <3>4, <3>6 DEF HalfStack
    <3>8. Stacks!first(n)
      BY <3>1 DEF HalfStack
    <3> QED  BY <1>1, <2>2, <3>1, <3>2, <3>3, <3>4, <3>5, <3>7, <3>8, ShownPart
  <2> QED  BY <2>2, <2>3, <2>4
<1> QED  BY <1>3, <1>4

\* A fork, or the first thread, that gets its stack.
LEMMA NewThreadShown ==
  ASSUME AInv, ~overrun, new_thread
  PROVE  ShownStep
<1>1. /\ todo # <<>> /\ op = "thread" /\ live' = live \cup {arg}
      /\ id' = IF phase = "fork" THEN (id + 1) % Slots ELSE id
      /\ phase' = "run" /\ UNCHANGED <<table, no_frame, overrun>>
  BY DEF new_thread, doing
<1>2. /\ arg \in SlotIds /\ Stack(arg, N) \subseteq Entries /\ todo = stack_pages(arg, 0)
      /\ \/ phase = "spawn" /\ arg = 4 /\ NoStack(N) /\ id = 4
         \/ phase = "fork" /\ HalfStack(arg, 0)
  BY <1>1, ThreadFacts
<1> HIDE DEF arg
<1>3. shown_live' = live' /\ shown_id' = id' /\ \A i \in Entries : shown_table'[i] = table[i]
  BY <1>1, ShownPlain
<1>4. CASE phase = "spawn"
  <2>1. shown_live = {4} /\ shown_id = 4 /\ \A i \in Entries : shown_table[i] = InFirst(i)
    BY <1>4, ShownEarly DEF Spawned
  <2>2. live' = {4} /\ id' = 4 /\ \A i \in Entries : table[i] = InFirst(i)
    BY <1>1, <1>2, <1>4 DEF NoStack, InFirst
  <2> QED  BY <1>1, <1>3, <2>1, <2>2, ShowsNothing
<1>5. CASE phase = "fork"
  <2>1. HalfStack(arg, 0) /\ 0 \in 0 .. N /\ N - 0 = N
    BY <1>2, <1>5, SMT DEF N
  <2>2. /\ \A i \in Entries : shown_table[i] = IF i \in Stack(arg, N) THEN "unused" ELSE table[i]
        /\ shown_live = live /\ shown_id = (id - 1) % Slots
    BY <1>2, <1>5, <2>1, ShownFork
  <2>3. (\A i \in Stack(arg, N) : table[i] = "mapped") /\ Stacks!first(arg)
    BY <2>1 DEF HalfStack
  <2>4. id \in SlotIds /\ live # {}
    BY <1>5, AllParts DEF StacksTypeOK, Progress
  <2>5. shown_id' = (shown_id + 2) % Slots
    BY <1>1, <1>3, <1>5, <2>2, <2>4, PreviousId
  <2>6. \A i \in Entries : shown_table'[i] = IF i \in Stack(arg, N) THEN "mapped" ELSE shown_table[i]
    BY <1>3, <2>2, <2>3
  <2> QED  BY <1>1, <1>2, <1>3, <2>2, <2>3, <2>4, <2>5, <2>6, ShownStack
<1> QED  BY <1>2, <1>4, <1>5

\* A search that finds a slot.
LEMMA FindSlotShown ==
  ASSUME AInv, NEW n \in SlotIds, find_slot(n)
  PROVE  ShownStep
<1>1. /\ todo # <<>> /\ op = "search" /\ fits(n) /\ id' = (id + 1) % Slots /\ todo' = stack_pages(n, N)
      /\ UNCHANGED <<table, live, no_frame, overrun, phase>>
  BY DEF find_slot, doing
<1>2. phase = "spawn" \/ (phase = "fork" /\ todo = << <<"search">> >>)
  BY <1>1, SearchFacts
<1>3. CASE phase = "spawn"
  BY <1>1, <1>3, EarlyStep DEF Spawned
<1>4. CASE phase = "fork"
  <2>1. shown_live = live /\ shown_id = id /\ \A i \in Entries : shown_table[i] = table[i]
    BY <1>2, <1>4, ShownPlain
  <2>2. Stack(n, N) \subseteq Entries /\ N \in 0 .. N /\ \A i \in Stack(n, N) : table[i] = "unused"
    BY <1>1, SMT DEF fits, all_unused, N
  <2>3. /\ \A i \in Entries : shown_table'[i] = IF i \in Stack(n, N) THEN "unused" ELSE table[i]
        /\ shown_live' = live /\ shown_id' = (id' - 1) % Slots
    BY <1>1, <1>4, <2>2, ShownForkNext
  <2>4. shown_id' = id
    BY <1>1, <2>3, AllParts, NextId DEF StacksTypeOK
  <2> QED  BY <1>1, <2>1, <2>2, <2>3, <2>4, ShowsNothing
<1> QED  BY <1>2, <1>3, <1>4

\* A search that finds none, or runs off the table.
LEMMA SearchFailsShown ==
  ASSUME AInv, ~overrun, find_overrun \/ find_none
  PROVE  ShownStep
<1>1. /\ todo # <<>> /\ op = "search" /\ phase = "fork" /\ UNCHANGED <<table, live, no_frame>>
      /\ \/ (\E n \in SlotIds : allocate_overrun(n)) /\ UNCHANGED <<phase, todo>>
         \/ allocate_full /\ phase' = "run"
  BY FindOverrunStep, FindNoneStep
  DEF find_overrun, find_none, doing, process_vars, allocate_overrun, allocate_full
<1>2. todo = << <<"search">> >> /\ live # {}
  BY <1>1, SearchFacts
<1>3. shown_live = live /\ shown_id = id /\ \A i \in Entries : shown_table[i] = table[i]
  BY <1>1, <1>2, ShownPlain
<1>4. shown_live' = live' /\ shown_id' = id' /\ \A i \in Entries : shown_table'[i] = table'[i]
  BY <1>1, <1>2, ShownPlain
<1>5. \A n : Stacks!all_unused(n) <=> all_unused(n)
  BY <1>3, SameTable DEF all_unused, Stacks!all_unused
<1>6. \A n : Stacks!distance(n) = distance(n)
  BY <1>3 DEF distance, Stacks!distance
<1>7. shown_table' = shown_table
  BY <1>1, <1>3, <1>4 DEF shown_table
<1>8. ASSUME NEW n \in SlotIds, allocate_overrun(n) PROVE ShownStep
  <2>1. first(n) /\ overruns(n) /\ overrun' /\ id' = id
    BY <1>8 DEF allocate_overrun
  <2>2. Stacks!first(n)
    BY <1>5, <1>6, <2>1, SameTable DEF first, Stacks!first
  <2>3. Stacks!overruns(n)
    BY <1>5, <2>1, SameTable DEF overruns, Stacks!overruns
  <2>4. Stacks!allocate_overrun(n)
    BY <1>1, <1>3, <1>4, <1>7, <2>1, <2>2, <2>3 DEF Stacks!allocate_overrun
  <2> QED  BY <1>2, <1>3, <2>4, SameTable DEF ShownStep, Stacks!StacksNext
<1>9. ASSUME allocate_full PROVE ShownStep
  <2>1. all_slots_full /\ id' = (id + 1) % Slots /\ overrun' = overrun
    BY <1>9 DEF allocate_full
  <2>2. Stacks!all_slots_full
    BY <1>5, <2>1, SameTable DEF all_slots_full, Stacks!all_slots_full
  <2>3. Stacks!allocate_full
    BY <1>1, <1>3, <1>4, <1>7, <2>1, <2>2 DEF Stacks!allocate_full
  <2> QED  BY <1>2, <1>3, <2>3 DEF ShownStep, Stacks!StacksNext
<1> QED  BY <1>1, <1>8, <1>9

\* A page of a new stack.
LEMMA MapStackPageShown ==
  ASSUME AInv, map_stack_page
  PROVE  ShownStep
<1>1. /\ todo # <<>> /\ op = "stack" /\ todo' = Tail(todo) /\ table' = [table EXCEPT ![arg] = "mapped"]
      /\ UNCHANGED <<live, id, no_frame, overrun, phase>>
  BY DEF map_stack_page, doing, done
<1>2. Progress /\ StacksTypeOK
  BY AllParts
<1>3. PICK n, k : StackStep(n, k)
  BY <1>1, <1>2, HeadPhase
<1>4. /\ n \in SlotIds /\ k \in 1 .. N /\ Stack(n, N) \subseteq Entries
      /\ todo = stack_pages(n, k) /\ arg = Spacing * n + N - k + 1 /\ todo' = stack_pages(n, k - 1)
      /\ phase \in {"spawn", "fork"}
  BY <1>1, <1>3, SMT DEF StackStep, N
<1>5. arg \in Stack(n, N) /\ k - 1 \in 0 .. N /\ k \in 0 .. N
  BY <1>4, OneMore, SMT
<1> HIDE DEF arg
<1>6. CASE phase = "spawn"
  BY <1>1, <1>6, EarlyStep DEF Spawned
<1>7. CASE phase = "fork"
  <2>1. /\ \A i \in Entries : shown_table[i] = IF i \in Stack(n, N) THEN "unused" ELSE table[i]
        /\ shown_live = live /\ shown_id = (id - 1) % Slots
    BY <1>4, <1>5, <1>7, ShownFork
  <2>2. /\ \A i \in Entries : shown_table'[i] = IF i \in Stack(n, N) THEN "unused" ELSE table'[i]
        /\ shown_live' = live' /\ shown_id' = (id' - 1) % Slots
    BY <1>1, <1>4, <1>5, <1>7, ShownForkNext
  <2>3. \A i \in Entries : i \notin Stack(n, N) => table'[i] = table[i]
    BY <1>1, <1>2, <1>5 DEF StacksTypeOK
  <2> QED  BY <1>1, <2>1, <2>2, <2>3, ShowsNothing
<1> QED  BY <1>4, <1>6, <1>7

\* The first step of a sequence, and the others.
LEMMA RangeTail ==
  ASSUME NEW S, NEW s \in Seq(S), s # <<>>
  PROVE  \A x : x \in Range(s) <=> x = Head(s) \/ x \in Range(Tail(s))
<1>1. /\ Head(s) = s[1] /\ Len(s) \in Nat /\ Len(s) >= 1 /\ DOMAIN s = 1 .. Len(s)
      /\ DOMAIN Tail(s) = 1 .. Len(s) - 1
      /\ \A i \in 1 .. Len(s) - 1 : Tail(s)[i] = s[i + 1]
  BY Pop
<1> DEFINE n == Len(s)
           t == Tail(s)
<1> HIDE DEF n, t
<1>2. ASSUME NEW i \in 1 .. n PROVE s[i] = Head(s) \/ s[i] \in Range(t)
  <2>1. i = 1 \/ (i - 1 \in 1 .. n - 1 /\ (i - 1) + 1 = i)
    BY <1>1, SMT DEF n
  <2> QED  BY <1>1, <2>1 DEF n, t, Range
<1>3. ASSUME NEW i \in 1 .. n - 1 PROVE t[i] \in Range(s)
  <2>1. i + 1 \in 1 .. n
    BY <1>1, SMT DEF n
  <2> QED  BY <1>1, <2>1 DEF n, t, Range
<1>4. Head(s) \in Range(s)
  BY <1>1, SMT DEF Range
<1>5. Range(s) = {s[i] : i \in 1 .. n} /\ Range(t) = {t[i] : i \in 1 .. n - 1}
  BY <1>1 DEF Range, n, t
<1> QED  BY <1>2, <1>3, <1>4, <1>5 DEF t

\* The indices of a sequence.
LEMMA DomainOf ==
  ASSUME NEW S, NEW s \in Seq(S)
  PROVE  DOMAIN s = 1 .. Len(s)
BY SMT

\* The eleven entries an exit clears.
LEMMA ExitRange ==
  ASSUME NEW n \in SlotIds, Stack(n, N) \subseteq Entries, NEW s,
         s = free_stack_entries(n) \o << <<"drop">> >>
  PROVE  \A i \in Entries :
           <<"unmap", i>> \in Range(s) <=> i \in (Spacing * n + N) - 10 .. Spacing * n + N
<1>1. /\ s \in Seq(CallSteps) /\ Len(s) = 12 /\ s[12] = <<"drop">>
      /\ \A j \in 1 .. 11 : s[j] = <<"unmap", Spacing * n + N + 1 - j>>
  BY ExitSteps
<1> DEFINE e == Spacing * n + N
           u(i) == <<"unmap", i>>
<1>2. e \in Nat
  BY SlotsAssumption, SMT DEF SlotIds, Spacing, N
<1>3. DOMAIN s = 1 .. 12
  BY <1>1, DomainOf
<1>4. \A j \in 1 .. 11 : s[j] = u(e + 1 - j)
  BY <1>1
<1>5. \A i, j : (u(i) = u(j) => i = j) /\ u(i) # <<"drop">>
  OBVIOUS
<1> HIDE DEF e, u
<1>6. ASSUME NEW i \in Entries, i \in e - 10 .. e PROVE u(i) \in Range(s)
  <2>1. PICK j \in 1 .. 11 : e + 1 - j = i
    <3>1. (e + 1) - i \in 1 .. 11 /\ e + 1 - ((e + 1) - i) = i
      BY <1>2, <1>6, SMT
    <3> QED  BY <3>1
  <2>2. j \in 1 .. 12
    BY SMT
  <2>3. s[j] = u(i)
    BY <1>4, <2>1
  <2> QED  BY <1>3, <2>2, <2>3 DEF Range
<1>7. ASSUME NEW i \in Entries, u(i) \in Range(s) PROVE i \in e - 10 .. e
  <2>1. PICK j \in DOMAIN s : s[j] = u(i)
    BY <1>7 DEF Range
  <2>2. j \in 1 .. 12 /\ j # 12
    BY <1>1, <1>3, <1>5, <2>1
  <2>3. j \in 1 .. 11
    BY <2>2, SMT
  <2>4. i = e + 1 - j
    BY <1>4, <1>5, <2>1, <2>3
  <2> QED  BY <1>2, <2>3, <2>4, SMTT(30)
<1> QED  BY <1>6, <1>7 DEF e, u

\* A thread exits.
LEMMA DropThreadShown ==
  ASSUME AInv, ~overrun, NEW n \in SlotIds, drop_thread(n)
  PROVE  ShownStep
<1>1. /\ phase = "run" /\ n \in live /\ live' = live \ {n} /\ phase' = "exit"
      /\ todo' = free_stack_entries(n) \o << <<"drop">> >>
      /\ UNCHANGED <<table, id, no_frame, overrun>>
  BY DEF drop_thread
<1>2. Stack(n, N) \subseteq Entries
  BY <1>1, AllParts DEF Progress
<1>3. shown_live = live /\ shown_id = id /\ \A i \in Entries : shown_table[i] = table[i]
  BY <1>1, ShownPlain
<1>4. /\ shown_live' = live' /\ shown_id' = id
      /\ \A i \in Entries :
           shown_table'[i] = IF <<"unmap", i>> \in Range(todo') /\ table[i] = "mapped"
                             THEN "cleared" ELSE table[i]
  BY <1>1, ShownExit
<1>5. \A i \in Entries :
        <<"unmap", i>> \in Range(todo') <=> i \in (Spacing * n + N) - 10 .. Spacing * n + N
  BY <1>1, <1>2, ExitRange
<1>6. \A i \in Entries :
        shown_table'[i] = IF i \in (Spacing * n + N) - 10 .. Spacing * n + N /\ shown_table[i] = "mapped"
                          THEN "cleared" ELSE shown_table[i]
  BY <1>3, <1>4, <1>5
<1>7. shown_table' = [i \in Entries |-> shown_table'[i]]
  BY DEF shown_table
<1>8. Stacks!free_user_stack(n)
  BY <1>1, <1>3, <1>4, <1>6, <1>7, SameTable DEF Stacks!free_user_stack, Stacks!Spacing, Spacing
<1> QED  BY <1>1, <1>3, <1>8, SameTable DEF ShownStep, Stacks!StacksNext

\* An entry of an exiting thread's stack.
LEMMA UnmapShown ==
  ASSUME AInv, unmap_stack_page \/ skip_entry
  PROVE  ShownStep
<1>1. /\ todo # <<>> /\ op = "unmap" /\ todo' = Tail(todo)
      /\ UNCHANGED <<live, id, no_frame, overrun, phase>>
      /\ \/ table[arg] = "mapped" /\ table' = [table EXCEPT ![arg] = "cleared"]
         \/ table[arg] # "mapped" /\ table' = table
  BY DEF unmap_stack_page, skip_entry, doing, done, stack_vars
<1>2. Progress /\ StacksTypeOK
  BY AllParts
<1>3. phase = "exit" /\ arg \in Entries /\ todo \in Seq(CallSteps)
  BY <1>1, <1>2, HeadPhase DEF Progress
<1>4. Head(todo) = <<"unmap", arg>>
  <2>1. Head(todo) = todo[1] /\ todo[1] \in CallSteps
    BY <1>1, <1>3, Pop
  <2> QED  BY <1>1, <2>1, SMT DEF CallSteps, SpawnSteps, op, arg
<1> HIDE DEF arg
<1>5. \A i \in Entries :
        <<"unmap", i>> \in Range(todo) <=> i = arg \/ <<"unmap", i>> \in Range(todo')
  BY <1>1, <1>3, <1>4, RangeTail, SMT
<1>6. /\ shown_live = live /\ shown_id = id
      /\ \A i \in Entries :
           shown_table[i] = IF <<"unmap", i>> \in Range(todo) /\ table[i] = "mapped"
                            THEN "cleared" ELSE table[i]
  BY <1>3, ShownExit
<1>7. /\ shown_live' = live /\ shown_id' = id
      /\ \A i \in Entries :
           shown_table'[i] = IF <<"unmap", i>> \in Range(todo') /\ table'[i] = "mapped"
                             THEN "cleared" ELSE table'[i]
  BY <1>1, <1>3, ShownExit
<1>8. \A i \in Entries : i # arg => table'[i] = table[i]
  BY <1>1, <1>2 DEF StacksTypeOK
<1>9. shown_table'[arg] = shown_table[arg]
  <2>1. table[arg] = "mapped" => table'[arg] = "cleared"
    BY <1>1, <1>2, <1>3 DEF StacksTypeOK
  <2> QED  BY <1>1, <1>3, <1>5, <1>6, <1>7, <2>1
<1>10. \A i \in Entries : i # arg => shown_table'[i] = shown_table[i]
  BY <1>5, <1>6, <1>7, <1>8
<1> QED  BY <1>1, <1>6, <1>7, <1>9, <1>10, ShowsNothing

\* The exit is complete; or the page tables are freed.
LEMMA DropProcessShown ==
  ASSUME AInv, drop_process
  PROVE  ShownStep
<1>1. /\ todo # <<>> /\ op = "drop" /\ phase' \in {"run", "teardown"}
      /\ UNCHANGED <<table, live, id, no_frame, overrun>>
  BY DEF drop_process, doing, stack_vars
<1>2. Progress
  BY AllParts
<1>3. phase = "exit" /\ Len(todo) = 1 /\ todo \in Seq(CallSteps)
  BY <1>1, <1>2, HeadPhase DEF Progress
<1>4. \A i : <<"unmap", i>> \notin Range(todo)
  <2>1. DOMAIN todo = 1 .. 1 /\ todo[1] = Head(todo)
    BY <1>1, <1>3, Pop
  <2>2. \A j \in DOMAIN todo : todo[j][1] = "drop"
    BY <1>1, <2>1, SMT DEF op
  <2>3. \A i : <<"unmap", i>>[1] = "unmap"
    OBVIOUS
  <2> QED  BY <2>2, <2>3 DEF Range
<1>5. shown_live = live /\ shown_id = id /\ \A i \in Entries : shown_table[i] = table[i]
  BY <1>3, <1>4, ShownExit
<1>6. shown_live' = live' /\ shown_id' = id' /\ \A i \in Entries : shown_table'[i] = table'[i]
  BY <1>1, ShownPlain
<1> QED  BY <1>1, <1>5, <1>6, ShowsNothing

LEMMA PlainShown ==
  ASSUME AInv, \/ fork_current_thread
               \/ \E p \in Pages : free_page(p)
               \/ free_table
  PROVE  ShownStep
<1>1. /\ phase \in {"run", "teardown"} /\ UNCHANGED <<table, live, id, no_frame, overrun>>
      /\ phase' \in {"teardown", "gone"} \/ (phase' = "fork" /\ todo' = << <<"search">> >>)
  BY DEF fork_current_thread, free_page, free_table, stack_vars
<1>2. shown_live = live /\ shown_id = id /\ \A i \in Entries : shown_table[i] = table[i]
  BY <1>1, ShownPlain
<1>3. shown_live' = live' /\ shown_id' = id' /\ \A i \in Entries : shown_table'[i] = table'[i]
  BY <1>1, ShownPlain
<1> QED  BY <1>1, <1>2, <1>3, ShowsNothing

\* Nothing of the stacks and the call in progress changes.
LEMMA IdleShown ==
  ASSUME UNCHANGED <<phase, todo>>, UNCHANGED stack_vars
  PROVE  ShownStep
<1>1. UNCHANGED <<table, live, id, no_frame, overrun, phase, todo>>
  BY DEF stack_vars
<1>2. (Spawned' <=> Spawned) /\ (Forking' <=> Forking) /\ NewSlot' = NewSlot
  BY <1>1 DEF Spawned, Forking, NewSlot
<1>3. \A i \in Entries : Shown(i)' = Shown(i)
  BY <1>1, <1>2 DEF Shown
<1>4. \A i \in Entries : shown_table'[i] = shown_table[i]
  BY <1>2, <1>3 DEF shown_table
<1>5. shown_live' = shown_live /\ shown_id' = shown_id
  BY <1>1, <1>2 DEF shown_live, shown_id
<1> QED  BY <1>1, <1>4, <1>5, ShowsNothing

\* Boot and spawning, up to the search for the first stack.
LEMMA BuildShown ==
  ASSUME AInv, \/ init_heap \/ init \/ create_pagetable \/ take_frame \/ map_table \/ map_frame
               \/ load_failed \/ \E binary \in Binaries : spawn_user_thread(binary)
  PROVE  ShownStep
<1>1. Progress
  BY AllParts
<1>2. UNCHANGED stack_vars
  BY DEF init_heap, init, create_pagetable, take_frame, map_table, map_frame, load_failed,
         spawn_user_thread
<1>3. phase \in {"boot", "ready", "spawn"} /\ phase' \in {phase, "ready", "spawn", "failed"}
  <2>1. CASE \E binary \in Binaries : spawn_user_thread(binary)
    BY <2>1 DEF spawn_user_thread
  <2>2. CASE init_heap \/ init
    <3>1. /\ todo # <<>> /\ op \in {"kernel", "total"} /\ phase' \in {phase, "ready"}
      BY <2>2 DEF init_heap, init, doing
    <3> QED  BY <1>1, <3>1, HeadPhase, ZenonT(30)
  <2>3. CASE create_pagetable \/ take_frame \/ map_table \/ map_frame \/ load_failed
    <3>1. /\ todo # <<>> /\ op \in {"table", "frame", "load", "map", "outside"}
          /\ phase' \in {phase, "failed"}
      BY <2>3 DEF create_pagetable, take_frame, map_table, map_frame, load_failed, doing
    <3>2. phase = "spawn"
      BY <1>1, <3>1, HeadPhase
    <3> QED  BY <3>1, <3>2
  <2> QED  BY <2>1, <2>2, <2>3
<1>4. ~Spawned /\ ~Spawned'
  BY <1>3 DEF Spawned
<1> QED  BY <1>2, <1>4, EarlyStep DEF stack_vars

\* Every step is one of UserStacks, or none.
LEMMA EveryShownStep == AInv /\ [Next]_vars => ShownStep
<1> SUFFICES ASSUME AInv, [Next]_vars PROVE ShownStep
  OBVIOUS
<1>1. CASE UNCHANGED vars
  BY <1>1, IdleShown DEF vars, process_vars
<1>2. CASE Next
  <2>1. ~overrun
    BY <1>2 DEF Next
  <2>2. CASE \/ init_heap \/ init \/ create_pagetable \/ take_frame \/ map_table \/ map_frame
             \/ load_failed \/ \E binary \in Binaries : spawn_user_thread(binary)
    BY <2>2, BuildShown
  <2>3. CASE out_of_frames
    BY <2>1, <2>3, OutOfFramesShown
  <2>4. CASE out_of_map
    BY <2>4, IdleShown DEF out_of_map, process_vars
  <2>5. CASE fork_current_thread \/ (\E p \in Pages : free_page(p)) \/ free_table
    BY <2>5, PlainShown
  <2>6. CASE \E n \in SlotIds : find_slot(n) \/ drop_thread(n)
    BY <2>1, <2>6, FindSlotShown, DropThreadShown
  <2>7. CASE find_overrun \/ find_none
    BY <2>1, <2>7, SearchFailsShown
  <2>8. CASE map_stack_page \/ new_thread
    BY <2>1, <2>8, MapStackPageShown, NewThreadShown, ZenonT(30)
  <2>9. CASE unmap_stack_page \/ skip_entry \/ drop_process
    BY <2>9, UnmapShown, DropProcessShown
  <2> QED  BY <1>2, <2>2, <2>3, <2>4, <2>5, <2>6, <2>7, <2>8, <2>9, ZenonT(30) DEF Next
<1> QED  BY <1>1, <1>2

\* allocate_user_stack and free_user_stack, frame by frame and with the failures
\* they may meet half way, do what UserStacks says whole calls do.
THEOREM StacksRefined == Spec => StacksImplemented
<1>1. Init => Stacks!StacksInit
  <2> SUFFICES ASSUME Init PROVE Stacks!StacksInit
    OBVIOUS
  <2>1. ~Spawned /\ ~no_frame /\ ~overrun /\ no_frame = FALSE /\ overrun = FALSE
    BY DEF Init, Spawned
  <2>2. shown_live = {4} /\ shown_id = 4 /\ \A i \in Entries : shown_table[i] = InFirst(i)
    BY <2>1, ShownEarly
  <2>3. shown_table = [i \in Entries |-> IF i \in Stack(4, N) THEN "mapped" ELSE "unused"]
    BY <2>1 DEF shown_table, InFirst
  <2> QED  BY <2>1, <2>2, <2>3, SameTable, ZenonT(30) DEF Stacks!StacksInit
<1>2. AInv /\ [Next]_vars => [Stacks!StacksNext]_(Stacks!stack_vars)
  BY EveryShownStep DEF ShownStep
<1> QED  BY <1>1, <1>2, ProcessInductive, PTL DEF Spec, StacksImplemented, Stacks!StacksSpec

-----------------------------------------------------------------------------
\* The theorems of UserStacks, about the stacks as they are shown.
Shows == INSTANCE UserStacksProofs WITH
  table <- shown_table, live <- shown_live, id <- shown_id

\* They are about the same specification.
LEMMA SameStacks == Stacks!StacksSpec => Shows!StacksSpec
<1>0. \A n : Stacks!first(n) = Shows!first(n) /\ Stacks!fits(n) = Shows!fits(n)
           /\ Stacks!overruns(n) = Shows!overruns(n)
  BY DEF Stacks!first, Shows!first, Stacks!fits, Shows!fits, Stacks!overruns, Shows!overruns,
     Stacks!all_unused, Shows!all_unused, Stacks!distance, Shows!distance, Stacks!SlotIds, Shows!SlotIds,
     Stacks!Stack, Shows!Stack, Stacks!N, Shows!N, Stacks!Entries, Shows!Entries, Stacks!Spacing, Shows!Spacing
<1>1. Stacks!StacksInit => Shows!StacksInit
  BY DEF Stacks!StacksInit, Shows!StacksInit,
     Stacks!Stack, Shows!Stack, Stacks!N, Shows!N, Stacks!Entries, Shows!Entries, Stacks!Spacing, Shows!Spacing
<1>2. [Stacks!StacksNext]_(Stacks!stack_vars) => [Shows!StacksNext]_(Shows!stack_vars)
  BY <1>0 DEF Stacks!StacksNext, Shows!StacksNext, Stacks!stack_vars, Shows!stack_vars,
     Stacks!allocate_user_stack, Shows!allocate_user_stack, Stacks!allocate_no_frame, Shows!allocate_no_frame,
     Stacks!allocate_full, Shows!allocate_full, Stacks!all_slots_full, Shows!all_slots_full,
     Stacks!all_unused, Shows!all_unused, Stacks!allocate_overrun, Shows!allocate_overrun,
     Stacks!free_user_stack, Shows!free_user_stack, Stacks!map_pages, Shows!map_pages, Stacks!SlotIds, Shows!SlotIds,
     Stacks!Stack, Shows!Stack, Stacks!N, Shows!N, Stacks!Entries, Shows!Entries, Stacks!Spacing, Shows!Spacing
<1> QED  BY <1>1, <1>2, PTL DEF Stacks!StacksSpec, Shows!StacksSpec

\* Before the first stack is complete no thread is live, and none comes to life if
\* spawning fails.
NoThreadsYet == ~Spawned => live = {}

\* A step that ends with no process running has no thread to leave behind.
LEMMA ThreadsLater == AInv /\ NoThreadsYet /\ [Next]_vars => NoThreadsYet'
<1> SUFFICES ASSUME AInv, NoThreadsYet, [Next]_vars, ~Spawned' PROVE live' = {}
  BY DEF NoThreadsYet
<1>1. Progress
  BY AllParts
<1>2. CASE UNCHANGED <<phase, live>>
  <2>1. Spawned' <=> Spawned
    BY <1>2 DEF Spawned
  <2> QED  BY <1>2, <2>1 DEF NoThreadsYet
<1>3. CASE out_of_frames
  <2>1. /\ todo # <<>> /\ op \in {"kernel", "table", "frame", "load", "stack", "map"}
        /\ phase' = CASE op \in {"kernel", "table"} -> "stopped"
                      [] phase = "fork" -> "run"
                      [] OTHER -> "failed"
        /\ live' = live
    BY <1>3 DEF out_of_frames, taking, doing
  <2>2. phase \in {"boot", "spawn", "fork"}
    <3>1. op # "stack" => phase \in {"boot", "spawn"}
      BY <1>1, <2>1, HeadPhase
    <3>2. op = "stack" => \E n, k : StackStep(n, k)
      BY <1>1, <2>1, HeadPhase, ZenonT(30)
    <3>3. \A n, k : StackStep(n, k) /\ op = "stack" => phase \in {"spawn", "fork"}
      BY DEF StackStep
    <3> QED  BY <3>1, <3>2, <3>3
  <2>3. phase # "fork"
    <3>1. phase = "fork" => op = "stack"
      BY <1>1, <2>1, HeadPhase
    <3> QED  BY <2>1, <3>1 DEF Spawned
  <2> QED  BY <2>1, <2>2, <2>3 DEF NoThreadsYet, Spawned
<1>4. CASE load_failed
  <2>1. todo # <<>> /\ op \in {"map", "outside"} /\ live' = live
    BY <1>4 DEF load_failed, doing, stack_vars
  <2>2. phase = "spawn"
    BY <1>1, <2>1, HeadPhase, ZenonT(30)
  <2> QED  BY <2>1, <2>2 DEF NoThreadsYet, Spawned
<1>5. CASE init
  <2>1. todo # <<>> /\ op = "total" /\ live' = live
    BY <1>5 DEF init, doing, stack_vars
  <2>2. phase = "boot"
    BY <1>1, <2>1, HeadPhase
  <2> QED  BY <2>1, <2>2 DEF NoThreadsYet, Spawned
<1>6. CASE \E binary \in Binaries : spawn_user_thread(binary)
  BY <1>6 DEF spawn_user_thread, stack_vars, NoThreadsYet, Spawned
<1>7. CASE \/ fork_current_thread \/ find_none \/ new_thread \/ drop_process \/ free_table
           \/ \E n \in SlotIds : drop_thread(n)
  BY <1>7 DEF fork_current_thread, find_none, new_thread, drop_process, free_table, drop_thread, Spawned
<1>8. CASE UNCHANGED vars
  BY <1>2, <1>8, ZenonT(30) DEF vars, stack_vars, process_vars
<1>9. CASE \/ init_heap \/ create_pagetable \/ take_frame \/ map_table \/ map_frame \/ out_of_map
           \/ find_overrun \/ map_stack_page \/ unmap_stack_page \/ skip_entry
           \/ (\E n \in SlotIds : find_slot(n)) \/ \E p \in Pages : free_page(p)
  BY <1>2, <1>9, ZenonT(30) DEF init_heap, create_pagetable, take_frame, map_table, map_frame, out_of_map,
     find_overrun, allocate_overrun, map_stack_page, unmap_stack_page, skip_entry, find_slot,
     free_page, stack_vars, process_vars
<1> QED  BY <1>3, <1>4, <1>5, <1>6, <1>7, <1>8, <1>9, ZenonT(30) DEF Next

\* Of the process frame by frame, too: every live thread's stack is mapped at every
\* point of a fork or an exit of another, no two share a page, and the search for a
\* slot leaves the table only after a fork has run out of frames.
THEOREM StacksKept ==
  Spec => []LiveStacksMapped /\ []StacksDisjoint /\ []PanicsOnlyAfterNoFrame
<1>1. Shows!StacksSpec => []Shows!LiveStacksMapped
  BY Shows!LiveStacksSafe, SlotsAssumption
<1>2. Shows!StacksSpec => []Shows!StacksDisjoint
  BY Shows!StacksNeverShared, SlotsAssumption, ZenonT(30)
<1>3. Shows!StacksSpec => []Shows!PanicsOnlyAfterNoFrame
  BY Shows!OverrunOnlyAfterNoFrame, SlotsAssumption
<1>4. NoThreadsYet => shown_live = live \/ live = {}
  BY DEF NoThreadsYet, shown_live
<1>5. AInv /\ NoThreadsYet /\ Shows!LiveStacksMapped => LiveStacksMapped
  <2>1. ASSUME AInv, NoThreadsYet, Shows!LiveStacksMapped, NEW n \in live PROVE Stack(n, N) \subseteq Entries
    BY <2>1, AllParts DEF Progress
  <2>2. ASSUME AInv, NoThreadsYet, Shows!LiveStacksMapped, NEW n \in live, NEW i \in Stack(n, N), i \in Entries
        PROVE  table[i] = "mapped"
    <3>1. n \in shown_live /\ Spawned
      BY <2>2 DEF NoThreadsYet, shown_live
    <3>2. shown_table[i] = "mapped"
      BY <2>2, <3>1 DEF Shows!LiveStacksMapped, Shows!Stack, Shows!N, Shows!Spacing, Stack, N, Spacing
    <3> QED  BY <2>2, <3>1, <3>2 DEF shown_table, Shown
  <2> QED  BY <2>1, <2>2 DEF LiveStacksMapped
<1>6. NoThreadsYet /\ Shows!StacksDisjoint => StacksDisjoint
  BY <1>4 DEF StacksDisjoint, Shows!StacksDisjoint, Shows!Stack, Shows!N, Shows!Spacing, Stack, N, Spacing
<1>7. Shows!PanicsOnlyAfterNoFrame => PanicsOnlyAfterNoFrame
  BY DEF PanicsOnlyAfterNoFrame, Shows!PanicsOnlyAfterNoFrame
<1>8. Init => NoThreadsYet
  BY DEF Init, NoThreadsYet
<1>9. Spec => []NoThreadsYet
  BY <1>8, ThreadsLater, ProcessInductive, PTL DEF Spec
<1> QED  BY <1>1, <1>2, <1>3, <1>5, <1>6, <1>7, <1>9, SameStacks, ProcessInductive, StacksRefined, PTL
         DEF StacksImplemented
=============================================================================
