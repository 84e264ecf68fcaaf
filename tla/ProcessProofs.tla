--------------------------- MODULE ProcessProofs ---------------------------
(***************************************************************************)
(* AddressSpace, continued: the steps of forking, of exiting and of the    *)
(* teardown, and those that fail, keep the invariant AInv.                 *)
(***************************************************************************)
EXTENDS MemoryProofs

\* Zenon proves the steps, but for those that cite SMT.
USE Zenon

-----------------------------------------------------------------------------
(* The remaining steps: failures, stacks, exit and teardown. *)

\* The types of the stacks, when at most these change.
LEMMA StackTypes ==
  ASSUME AInv, id' \in SlotIds, live' \subseteq SlotIds, no_frame' \in BOOLEAN, overrun' \in BOOLEAN,
         \/ table' = table
         \/ \E i \in Entries, v \in {"mapped", "cleared"} : table' = [table EXCEPT ![i] = v]
  PROVE  StacksTypeOK'
<1>1. table \in [Entries -> {"unused", "mapped", "cleared"}]
  BY AllParts DEF StacksTypeOK
<1>2. table' \in [Entries -> {"unused", "mapped", "cleared"}]
  BY <1>1
<1> QED  BY <1>2 DEF StacksTypeOK

\* allocate_frame returns None.
LEMMA OutOfFramesStep ==
  ASSUME AInv, ~panicked, out_of_frames
  PROVE  AInv' /\ FramesNext
<1>1. /\ todo # <<>> /\ op \in {"kernel", "table", "frame", "load", "stack", "map"}
      /\ phase' = CASE op \in {"kernel", "table"} -> "stopped"
                    [] phase = "fork" -> "run"
                    [] OTHER -> "failed"
      /\ todo' = <<>> /\ log_nothing /\ allocate_none
      /\ UNCHANGED <<table, live, id, overrun, tables, leaf, frame>>
      /\ no_frame' = (no_frame \/ phase = "fork")
  BY DEF out_of_frames, taking, doing
<1>2. FramesNext /\ UNCHANGED frame_vars
  BY <1>1 DEF FramesNext, allocate_none
<1>3. Progress /\ InHand /\ StacksTypeOK
  BY AllParts
<1>4. /\ phase \in {"boot", "spawn", "fork"}
      /\ phase = "fork" => phase' = "run"
      /\ phase # "fork" => phase' \in {"stopped", "failed"} /\ live = {}
      /\ phase = "boot" => op = "kernel" /\ phase' = "stopped"
      /\ phase = "spawn" => phase' = "failed" \/ op = "table"
  <2>1. CASE op = "kernel"
    <3>1. phase = "boot"
      BY <1>1, <1>3, <2>1, HeadPhase
    <3> QED  BY <1>1, <1>3, <2>1, <3>1 DEF Progress, NoStack
  <2>2. CASE op \in {"table", "frame", "load", "map"}
    <3>1. phase = "spawn" /\ NoStack(0)
      BY <1>1, <2>2, SpawnFacts
    <3> QED  BY <1>1, <2>2, <3>1 DEF NoStack
  <2>3. CASE op = "stack"
    <3>1. PICK n, k : StackStep(n, k)
      BY <1>1, <1>3, <2>3, HeadPhase
    <3>2. phase = "fork" \/ (phase = "spawn" /\ live = {})
      BY <3>1 DEF StackStep, NoStack
    <3> QED  BY <1>1, <2>3, <3>2
  <2> QED  BY <1>1, <2>1, <2>2, <2>3
<1>5. FInv' /\ InBounds' /\ UNCHANGED <<frame_usage, held>>
  BY <1>2, FramesKept
<1>6. LoggerConsistent' /\ CountersOK'
  BY <1>1, <1>4, <1>5, LogKept
<1>7. PagesInv'
  BY <1>1, <1>4, <1>5, PagesKept
<1>8. no_frame' \in BOOLEAN
  BY <1>1, <1>3 DEF StacksTypeOK
<1>9. StacksTypeOK' /\ phase' \in Phases
  BY <1>1, <1>3, <1>4, <1>8, StackTypes DEF StacksTypeOK, Phases
<1>10. phase = "fork" => live # {} /\ frame = None
  BY <1>3 DEF Progress, Spawned
<1>11. Progress'
  <2>1. todo' = <<>> /\ todo' \in Seq(CallSteps) /\ \A n \in live' : Stack(n, N) \subseteq Entries
    BY <1>1, <1>3, SMT DEF Progress
  <2> QED  BY <1>1, <1>4, <1>10, <2>1 DEF Progress, Spawned
<1>12. InHand'
  <2>1. Mapped' = Mapped
    BY <1>1 DEF Mapped, MappedPages
  <2>2. phase' # "failed" => frame \in Mapped \cup {None}
    <3>1. CASE phase = "fork"
      BY <1>10, <3>1
    <3>2. CASE phase = "boot"
      BY <1>3, <3>2 DEF Progress
    <3>3. CASE phase = "spawn" /\ op = "table"
      <4>1. todo[1][1] = "table"
        BY <1>1, <3>3, SpawnFacts
      <4> QED  BY <1>3, <3>3, <4>1 DEF InHand
    <3> QED  BY <1>4, <3>1, <3>2, <3>3
  <2> QED  BY <1>1, <1>4, <2>1, <2>2 DEF InHand
<1> QED  BY <1>2, <1>5, <1>6, <1>7, <1>9, <1>11, <1>12, Parts

\* The same call, still to be done.
LEMMA SameProgress ==
  ASSUME AInv, UNCHANGED <<stack_vars, process_vars>>, held'[Process] = held[Process]
  PROVE  Progress' /\ InHand' /\ StacksTypeOK' /\ phase' \in Phases
<1>1. /\ UNCHANGED <<table, live, id, no_frame, overrun, phase, todo, tables, leaf, frame>>
      /\ MappedPages' = MappedPages /\ Mapped' = Mapped
  BY DEF stack_vars, process_vars, MappedPages, Mapped
<1>2. Progress /\ InHand /\ StacksTypeOK /\ phase \in Phases
  BY AllParts
<1>3. \A n : Stacks!first(n)' <=> Stacks!first(n)
  BY <1>1, SMT DEF Stacks!first, Stacks!all_unused, Stacks!distance, shown_table, shown_id, Shown,
              InFirst, Spawned, Forking, NewSlot
<1>4. \A n, k : HalfStack(n, k)' <=> HalfStack(n, k)
  BY <1>1, <1>3 DEF HalfStack
<1>5. /\ \A k : NoStack(k)' <=> NoStack(k)
      /\ Building' <=> Building
  BY <1>1 DEF NoStack, Building
<1>6. Progress'
  BY <1>1, <1>2, <1>4, <1>5 DEF Progress, Spawned
<1>7. InHand'
  BY <1>1, <1>2 DEF InHand
<1> QED  BY <1>1, <1>2, <1>6, <1>7 DEF StacksTypeOK

\* frame_usage[frame_num] out of bounds.
LEMMA OutOfMapStep ==
  ASSUME AInv, ~panicked, out_of_map
  PROVE  AInv' /\ FramesNext
<1>1. /\ todo # <<>> /\ op \in {"kernel", "table", "frame", "load", "stack", "map"}
      /\ allocate_panic /\ log_nothing /\ UNCHANGED <<stack_vars, process_vars>>
  BY DEF out_of_map, taking, doing
<1>2. FramesNext /\ UNCHANGED <<frame_usage, held>>
  BY <1>1 DEF FramesNext, allocate_panic
<1>3. FInv' /\ InBounds'
  BY <1>2, FrameNext DEF AInv
<1>4. Progress' /\ InHand' /\ StacksTypeOK' /\ phase' \in Phases
  BY <1>1, <1>2, SameProgress
<1>5. phase \notin {"teardown", "gone"} /\ UNCHANGED <<tables, leaf, table, frame, phase>>
  BY <1>1, AllParts DEF Progress, stack_vars, process_vars
<1>6. LoggerConsistent' /\ CountersOK'
  BY <1>1, <1>2, <1>5, LogKept
<1>7. PagesInv'
  BY <1>2, <1>5, PagesKept
<1> QED  BY <1>2, <1>3, <1>4, <1>6, <1>7, Parts

\* fork_current_thread.
LEMMA ForkStep ==
  ASSUME AInv, fork_current_thread
  PROVE  AInv' /\ UNCHANGED frame_vars
<1>1. /\ phase = "run" /\ phase' = "fork" /\ todo' = << <<"search">> >> /\ log_nothing
      /\ UNCHANGED frame_vars /\ UNCHANGED <<stack_vars, tables, leaf, frame>>
  BY DEF fork_current_thread
<1>2. Progress /\ StacksTypeOK
  BY AllParts
<1>3. live # {} /\ frame = None /\ \A n \in live : Stack(n, N) \subseteq Entries
  BY <1>1, <1>2 DEF Progress, Spawned
<1>4. FInv' /\ InBounds' /\ UNCHANGED <<frame_usage, held>>
  BY <1>1, FramesKept
<1>5. LoggerConsistent' /\ CountersOK'
  BY <1>1, <1>4, LogKept
<1>6. PagesInv'
  BY <1>1, <1>4, PagesKept DEF stack_vars
<1>7. StacksTypeOK' /\ phase' \in Phases
  BY <1>1, <1>2 DEF stack_vars, StacksTypeOK, Phases
<1>8. todo' \in Seq(CallSteps)
  BY <1>1, SMT DEF CallSteps, SpawnSteps
<1>9. live' = live /\ frame' = None
  BY <1>1, <1>3 DEF stack_vars
<1>10. Progress'
  BY <1>1, <1>3, <1>8, <1>9 DEF Progress, Spawned
<1>11. InHand'
  BY <1>1, <1>9 DEF InHand
<1> QED  BY <1>1, <1>4, <1>5, <1>6, <1>7, <1>10, <1>11, Parts

\* The slot of the first stack.
LEMMA FirstSlot ==
  ASSUME NoStack(0), id = 3
  PROVE  /\ all_unused(4) /\ fits(4)
         /\ \A n \in SlotIds : first(n) => n = 4
<1>1. table = [i \in Entries |-> "unused"]
  BY SMT DEF NoStack, Stack, N, Spacing, Entries
<1>2. \A n : all_unused(n)
  BY <1>1 DEF all_unused
<1>3. distance(4) = 0
  <2>1. Slots \in Nat /\ Slots > 0 /\ 0 \in 0 .. Slots - 1 /\ 4 - (3 + 1) = 0
    BY SlotsAssumption, SMT
  <2>2. 0 % Slots = 0
    BY <2>1, Wrap
  <2> QED  BY <2>1, <2>2 DEF distance
<1>4. ASSUME NEW n \in SlotIds, first(n)
      PROVE  n = 4
  <2>1. distance(n) <= 0
    BY <1>2, <1>3, <1>4, FirstFits DEF first
  <2>2. Slots \in Nat /\ Slots > 0 /\ n \in Nat /\ n < Slots
    BY SlotsAssumption, SMT DEF SlotIds
  <2>3. CASE n >= 4
    <3>1. n - 4 \in 0 .. Slots - 1 /\ n - (3 + 1) = n - 4
      BY <2>2, <2>3, SMT
    <3>2. (n - 4) % Slots = n - 4
      BY <2>2, <3>1, Wrap
    <3>3. distance(n) = n - 4
      BY <3>1, <3>2 DEF distance
    <3> QED  BY <2>1, <2>2, <2>3, <3>3, SMT
  <2>4. CASE n < 4
    <3> DEFINE a == n - 4 + Slots
    <3>1. a \in 0 .. Slots - 1 /\ n - (3 + 1) = a - Slots /\ a > 0
      BY <2>2, <2>4, SlotsAssumption, SMT
    <3>2. (a - Slots) % Slots = a
      BY <2>2, <3>1, Wrap
    <3>3. distance(n) = a
      BY <3>1, <3>2 DEF distance
    <3> QED  BY <2>1, <3>1, <3>3, SMT
  <2> QED  BY <2>2, <2>3, <2>4, SMT
<1> QED  BY <1>2, <1>4, FirstFits DEF fits

\* A search in progress.
LEMMA SearchFacts ==
  ASSUME AInv, todo # <<>>, op = "search"
  PROVE  /\ \/ phase = "spawn" /\ NoStack(0) /\ id = 3
            \/ phase = "fork" /\ todo = << <<"search">> >> /\ live # {} /\ frame = None
         /\ frame \in Mapped \cup {None} /\ ~Forking
<1>1. Progress /\ InHand
  BY AllParts
<1>2. \/ phase = "spawn" /\ NoStack(0) /\ id = 3 /\ todo[1][1] # "map"
      \/ phase = "fork" /\ todo = << <<"search">> >>
  BY <1>1, HeadPhase
<1>3. phase = "fork" => live # {} /\ frame = None
  BY <1>1 DEF Progress, Spawned
<1>4. frame \in Mapped \cup {None}
  BY <1>1, <1>2, <1>3 DEF InHand
<1>5. ~Forking
  BY <1>2, SMT DEF Forking
<1> QED  BY <1>2, <1>3, <1>4, <1>5

\* Ids that follow each other.
LEMMA NextId ==
  ASSUME NEW i \in SlotIds
  PROVE  /\ (i + 1) % Slots \in SlotIds
         /\ (((i + 1) % Slots) - 1) % Slots = i
         /\ (((i + 1) % Slots) + 1) % Slots = (i + 2) % Slots
<1>1. Slots \in Nat /\ Slots > 5 /\ i \in 0 .. Slots - 1 /\ SlotIds = 0 .. Slots - 1
  BY SlotsAssumption DEF SlotIds
<1>2. CASE i = Slots - 1
  <2>1. 0 \in 0 .. Slots - 1 /\ 1 \in 0 .. Slots - 1
    BY <1>1, SMT
  <2>2. i + 1 = 0 + Slots /\ i + 2 = 1 + Slots /\ 0 - 1 = i - Slots /\ 0 + 1 = 1
    BY <1>1, <1>2, SMT
  <2>3. (0 + Slots) % Slots = 0 /\ (1 + Slots) % Slots = 1 /\ (i - Slots) % Slots = i /\ 1 % Slots = 1
    BY <1>1, <2>1, Wrap, SMT
  <2>4. (i + 1) % Slots = 0 /\ (i + 2) % Slots = 1
    BY <2>2, <2>3
  <2> QED  BY <1>1, <2>1, <2>2, <2>3, <2>4
<1>3. CASE i # Slots - 1
  <2>1. i + 1 \in 0 .. Slots - 1 /\ (i + 1) - 1 = i /\ (i + 1) + 1 = i + 2
    BY <1>1, <1>3, SMT
  <2>2. (i + 1) % Slots = i + 1 /\ i % Slots = i
    BY <1>1, <2>1, Wrap, SMT
  <2> QED  BY <1>1, <2>1, <2>2
<1> QED  BY <1>2, <1>3

\* The steps that build a stack end with its thread.
LEMMA ThreadLast ==
  ASSUME NEW n \in SlotIds, Stack(n, N) \subseteq Entries, NEW k \in 0 .. N
  PROVE  LET s == stack_pages(n, k)
         IN  /\ s \in Seq(CallSteps) /\ s # <<>> /\ s[1][1] # "map"
             /\ s[Len(s)][1] = "thread" /\ s[Len(s)][2] = n
<1> DEFINE s == stack_pages(n, k)
<1>1. /\ s \in Seq(CallSteps) /\ s # <<>> /\ s[Len(s)] = <<"thread", n>>
      /\ k = 0 => Head(s) = <<"thread", n>>
      /\ k > 0 => Head(s) = <<"stack", Spacing * n + N - k + 1>>
  BY StackPages
<1>2. k = 0 \/ k > 0
  BY SMT DEF N
<1>3. s[1] = Head(s)
  <2> HIDE DEF s
  <2> QED  BY <1>1, Pop
<1> QED  BY <1>1, <1>2, <1>3, SMT

\* What UserStacks sees while a fork builds a stack in slot n: the table without it.
LEMMA ShownFork ==
  ASSUME NEW n \in SlotIds, Stack(n, N) \subseteq Entries, NEW k \in 0 .. N,
         phase = "fork", todo = stack_pages(n, k)
  PROVE  /\ Spawned /\ Forking /\ NewSlot = n
         /\ \A i \in Entries : shown_table[i] = IF i \in Stack(n, N) THEN "unused" ELSE table[i]
         /\ shown_live = live /\ shown_id = (id - 1) % Slots
<1>1. Spawned /\ Forking /\ NewSlot = n
  BY ThreadLast DEF Spawned, Forking, NewSlot
<1> QED  BY <1>1 DEF shown_table, shown_live, shown_id, Shown

LEMMA ShownForkNext ==
  ASSUME NEW n \in SlotIds, Stack(n, N) \subseteq Entries, NEW k \in 0 .. N,
         phase' = "fork", todo' = stack_pages(n, k)
  PROVE  /\ Spawned' /\ Forking' /\ NewSlot' = n
         /\ \A i \in Entries : shown_table'[i] = IF i \in Stack(n, N) THEN "unused" ELSE table'[i]
         /\ shown_live' = live' /\ shown_id' = (id' - 1) % Slots
<1>1. Spawned' /\ Forking' /\ NewSlot' = n
  BY ThreadLast DEF Spawned, Forking, NewSlot
<1> QED  BY <1>1 DEF shown_table, shown_live, shown_id, Shown

\* The search only looks at the entries of the table and at the id.
LEMMA SameSearch ==
  ASSUME NEW n \in SlotIds, first(n),
         \A i \in Entries : shown_table'[i] = table[i], shown_id' = id
  PROVE  Stacks!first(n)'
<1>1. \A m : Stacks!all_unused(m)' <=> all_unused(m)
  BY DEF all_unused, Stacks!all_unused, Stacks!Stack, Stacks!Entries, Stacks!Spacing, Stacks!N,
         Stack, Entries, Spacing, N
<1>2. \A m : Stacks!distance(m)' = distance(m)
  BY DEF distance, Stacks!distance
<1> QED  BY <1>1, <1>2 DEF first, Stacks!first, Stacks!SlotIds, SlotIds

LEMMA SameShownSearch ==
  ASSUME NEW n \in SlotIds, Stacks!first(n),
         \A i \in Entries : shown_table'[i] = shown_table[i], shown_id' = shown_id
  PROVE  Stacks!first(n)'
<1>1. \A m : Stacks!all_unused(m)' <=> Stacks!all_unused(m)
  BY DEF Stacks!all_unused, Stacks!Stack, Stacks!Entries, Stacks!Spacing, Stacks!N,
         Entries, Spacing
<1>2. \A m : Stacks!distance(m)' = Stacks!distance(m)
  BY DEF Stacks!distance
<1> QED  BY <1>1, <1>2 DEF Stacks!first

\* allocate_user_stack finds a slot.
LEMMA FindSlotStep ==
  ASSUME AInv, NEW n \in SlotIds, find_slot(n)
  PROVE  AInv' /\ UNCHANGED frame_vars
<1>1. /\ todo # <<>> /\ op = "search" /\ first(n) /\ fits(n) /\ id' = (id + 1) % Slots
      /\ todo' = stack_pages(n, N) /\ frame' = None /\ log_nothing /\ UNCHANGED frame_vars
      /\ UNCHANGED <<table, live, no_frame, overrun, phase, tables, leaf>>
  BY DEF find_slot, doing
<1>2. Progress /\ StacksTypeOK
  BY AllParts
<1>3. /\ \/ phase = "spawn" /\ NoStack(0) /\ id = 3
         \/ phase = "fork" /\ live # {}
      /\ frame \in Mapped \cup {None}
  BY <1>1, SearchFacts
<1>4. FInv' /\ InBounds' /\ UNCHANGED <<frame_usage, held>>
  BY <1>1, FramesKept
<1>5. LoggerConsistent' /\ CountersOK'
  BY <1>1, <1>3, <1>4, LogKept
<1>6. PagesInv'
  BY <1>1, <1>3, <1>4, PagesKept
<1>7. id \in SlotIds
  BY <1>2 DEF StacksTypeOK
<1>8. id' \in SlotIds /\ (id' - 1) % Slots = id
  BY <1>1, <1>7, NextId
<1>9. StacksTypeOK' /\ phase' \in Phases
  BY <1>1, <1>2, <1>3, <1>8 DEF StacksTypeOK, Phases
<1>10. Stack(n, N) \subseteq Entries /\ N \in 0 .. N /\ \A i \in Stack(n, N) : table[i] = "unused"
  BY <1>1, SMT DEF fits, all_unused, N
<1>11. todo' \in Seq(CallSteps) /\ todo'[1][1] # "map"
  BY <1>1, <1>10, ThreadLast
<1>12. InHand'
  BY <1>1, <1>11 DEF InHand
<1>13. CASE phase = "spawn"
  <2>1. NoStack(0) /\ id = 3 /\ n = 4
    BY <1>1, <1>3, <1>13, FirstSlot
  <2>2. id' = 4
    <3>1. Slots \in Nat /\ Slots > 0 /\ 4 \in 0 .. Slots - 1
      BY SlotsAssumption, SMT
    <3>2. 4 % Slots = 4
      BY <3>1, Wrap
    <3> QED  BY <1>1, <2>1, <3>2, SMT
  <2>3. NoStack(N - N)' /\ live' = {}
    BY <1>1, <2>1, SMT DEF NoStack, N
  <2>4. Progress'
    BY <1>1, <1>10, <1>11, <1>13, <2>1, <2>2, <2>3 DEF Progress, Spawned
  <2> QED  BY <1>1, <1>4, <1>5, <1>6, <1>9, <1>12, <2>4, Parts
<1>14. CASE phase = "fork"
  <2>1. /\ \A i \in Entries : shown_table'[i] = IF i \in Stack(n, N) THEN "unused" ELSE table'[i]
        /\ shown_id' = (id' - 1) % Slots
    BY <1>1, <1>10, <1>14, ShownForkNext
  <2>2. Stacks!first(n)'
    BY <1>1, <1>8, <1>10, <2>1, SameSearch
  <2>3. \A i \in Stack(n, N) : table'[i] = IF i \in Stack(n, N - N) THEN "mapped" ELSE "unused"
    <3>1. n \in Nat
      BY SlotsAssumption, SMT DEF SlotIds
    <3> QED  BY <1>1, <1>10, <3>1, SMT DEF Stack, N, Spacing
  <2>4. HalfStack(n, N)'
    BY <1>1, <1>10, <2>2, <2>3 DEF HalfStack
  <2>5. Progress'
    BY <1>1, <1>2, <1>3, <1>10, <1>11, <1>14, <2>4 DEF Progress, Spawned
  <2> QED  BY <1>1, <1>4, <1>5, <1>6, <1>9, <1>12, <2>5, Parts
<1> QED  BY <1>3, <1>13, <1>14

\* The search runs off the table, which the first one cannot.
LEMMA FindOverrunStep ==
  ASSUME AInv, find_overrun
  PROVE  AInv' /\ UNCHANGED frame_vars /\ phase = "fork"
<1>1. PICK n \in SlotIds : allocate_overrun(n)
  BY DEF find_overrun
<1>2. /\ todo # <<>> /\ op = "search" /\ log_nothing /\ UNCHANGED frame_vars
      /\ UNCHANGED <<phase, todo, tables, leaf, frame>> /\ UNCHANGED <<table, live, id, no_frame>>
      /\ overrun' = TRUE /\ first(n) /\ ~(Stack(n, N) \subseteq Entries)
  BY <1>1 DEF find_overrun, doing, process_vars, allocate_overrun, overruns
<1>3. phase = "fork" /\ todo = << <<"search">> >> /\ live # {} /\ frame = None
  <2>1. ~(phase = "spawn" /\ NoStack(0) /\ id = 3)
    BY <1>2, FirstSlot, FirstFits
  <2> QED  BY <1>2, <2>1, SearchFacts
<1>4. Progress /\ StacksTypeOK
  BY AllParts
<1>5. FInv' /\ InBounds' /\ UNCHANGED <<frame_usage, held>>
  BY <1>2, FramesKept
<1>6. LoggerConsistent' /\ CountersOK'
  BY <1>2, <1>3, <1>5, LogKept
<1>7. PagesInv'
  BY <1>2, <1>3, <1>5, PagesKept
<1>8. StacksTypeOK' /\ phase' \in Phases
  BY <1>2, <1>3, <1>4 DEF StacksTypeOK, Phases
<1>9. Progress'
  BY <1>2, <1>3, <1>4 DEF Progress, Spawned
<1>10. InHand'
  BY <1>2, <1>3 DEF InHand
<1> QED  BY <1>2, <1>3, <1>5, <1>6, <1>7, <1>8, <1>9, <1>10, Parts

\* "All thread stack slots full", which the first search does not meet.
LEMMA FindNoneStep ==
  ASSUME AInv, find_none
  PROVE  AInv' /\ UNCHANGED frame_vars /\ phase = "fork"
<1>1. /\ todo # <<>> /\ op = "search" /\ log_nothing /\ UNCHANGED frame_vars
      /\ UNCHANGED <<tables, leaf, frame>> /\ UNCHANGED <<table, live, no_frame, overrun>>
      /\ id' = (id + 1) % Slots /\ phase' = "run" /\ todo' = <<>> /\ all_slots_full
  BY DEF find_none, doing, allocate_full
<1>2. phase = "fork" /\ live # {} /\ frame = None
  <2>1. ~(phase = "spawn" /\ NoStack(0) /\ id = 3)
    BY <1>1, FirstSlot, FirstFits DEF all_slots_full
  <2> QED  BY <1>1, <2>1, SearchFacts
<1>3. Progress /\ StacksTypeOK
  BY AllParts
<1>4. FInv' /\ InBounds' /\ UNCHANGED <<frame_usage, held>>
  BY <1>1, FramesKept
<1>5. LoggerConsistent' /\ CountersOK'
  BY <1>1, <1>2, <1>4, LogKept
<1>6. PagesInv'
  BY <1>1, <1>2, <1>4, PagesKept
<1>7. id' \in SlotIds
  BY <1>1, <1>3, NextId DEF StacksTypeOK
<1>8. StacksTypeOK' /\ phase' \in Phases
  BY <1>1, <1>3, <1>7 DEF StacksTypeOK, Phases
<1>9. Progress'
  <2>1. todo' \in Seq(CallSteps) /\ \A n \in live' : Stack(n, N) \subseteq Entries
    BY <1>1, <1>3, SMT DEF Progress
  <2> QED  BY <1>1, <1>2, <2>1 DEF Progress, Spawned
<1>10. InHand'
  BY <1>1, <1>2 DEF InHand
<1> QED  BY <1>1, <1>2, <1>4, <1>5, <1>6, <1>8, <1>9, <1>10, Parts

\* One more page of a stack.
LEMMA OneMore ==
  ASSUME NEW n \in SlotIds, NEW k \in 1 .. N, NEW a, a = Spacing * n + N - k + 1
  PROVE  /\ a \in Stack(n, N) /\ a \notin Stack(n, N - k)
         /\ \A i : i \in Stack(n, N - (k - 1)) <=> i \in Stack(n, N - k) \/ i = a
         /\ k - 1 \in 0 .. N
<1>1. n \in Nat
  BY SlotsAssumption, SMT DEF SlotIds
<1> QED  BY <1>1, SMT DEF Stack, N, Spacing

\* map_stack_page.
LEMMA MapStackPageStep ==
  ASSUME AInv, ~panicked, map_stack_page
  PROVE  AInv' /\ FramesNext
<1>1. /\ todo # <<>> /\ op = "stack" /\ allocate_frame(Process) /\ log_allocation /\ todo' = Tail(todo)
      /\ table' = [table EXCEPT ![arg] = "mapped"]
      /\ UNCHANGED <<live, id, no_frame, overrun, phase, tables, frame>>
  BY DEF map_stack_page, doing, done
<1>2. Progress /\ StacksTypeOK
  BY AllParts
<1>3. PICK n, k : StackStep(n, k)
  BY <1>1, <1>2, HeadPhase
<1>4. /\ n \in SlotIds /\ k \in 1 .. N /\ Stack(n, N) \subseteq Entries
      /\ todo = stack_pages(n, k) /\ arg = Spacing * n + N - k + 1 /\ todo' = stack_pages(n, k - 1)
      /\ \/ phase = "spawn" /\ n = 4 /\ NoStack(N - k) /\ id = 4 /\ frame = None
         \/ phase = "fork" /\ HalfStack(n, k)
  BY <1>1, <1>3, SMT DEF StackStep, N
<1>5. /\ arg \in Stack(n, N) /\ arg \notin Stack(n, N - k) /\ arg \in Entries
      /\ \A i : i \in Stack(n, N - (k - 1)) <=> i \in Stack(n, N - k) \/ i = arg
      /\ k - 1 \in 0 .. N
  BY <1>4, OneMore, SMT
<1> HIDE DEF arg
<1>6. table \in [Entries -> {"unused", "mapped", "cleared"}] /\ table[arg] = "unused"
  BY <1>2, <1>4, <1>5 DEF StacksTypeOK, NoStack, HalfStack
<1>7. frame = None /\ phase \in {"spawn", "fork"}
  BY <1>2, <1>4 DEF Progress, Spawned
<1>8. PagesInv'
  BY <1>5, <1>6, <1>7, MapStackPage
<1>9. Process \in Clients /\ Process # Kernel
  BY FrameFacts DEF Process, Kernel
<1>10. FramesNext /\ FInv' /\ InBounds'
  BY <1>1, <1>9, Taken
<1>11. LoggerConsistent' /\ CountersOK'
  BY <1>1, <1>7, <1>9, LogTaken
<1>12. StacksTypeOK' /\ phase' \in Phases
  BY <1>1, <1>2, <1>5, <1>6, <1>7 DEF StacksTypeOK, Phases
<1>13. todo' \in Seq(CallSteps) /\ todo'[1][1] # "map"
  BY <1>4, <1>5, ThreadLast
<1>14. InHand'
  BY <1>1, <1>7, <1>13 DEF InHand
<1>15. CASE phase = "spawn"
  <2>1. n = 4 /\ NoStack(N - k) /\ id = 4
    BY <1>4, <1>15
  <2>2. table' = [i \in Entries |-> IF i \in Stack(4, N - (k - 1)) THEN "mapped" ELSE "unused"]
    BY <1>1, <1>5, <1>6, <2>1 DEF NoStack
  <2>3. NoStack(N - (k - 1))' /\ live' = {}
    BY <1>1, <2>1, <2>2 DEF NoStack
  <2>4. Progress'
    BY <1>1, <1>4, <1>5, <1>7, <1>13, <1>15, <2>1, <2>3 DEF Progress, Spawned
  <2> QED  BY <1>8, <1>10, <1>11, <1>12, <1>14, <2>4, Parts
<1>16. CASE phase = "fork"
  <2>1. HalfStack(n, k)
    BY <1>4, <1>16
  <2>2. \A i \in Entries : shown_table[i] = IF i \in Stack(n, N) THEN "unused" ELSE table[i]
    BY <1>4, <1>16, ShownFork, SMT
  <2>3. \A i \in Entries : shown_table'[i] = IF i \in Stack(n, N) THEN "unused" ELSE table'[i]
    BY <1>1, <1>4, <1>5, <1>16, ShownForkNext
  <2>4. shown_id' = shown_id
    BY <1>1, <1>4, <1>5, <1>16, ShownFork, ShownForkNext, SMT
  <2>5. \A i \in Entries : shown_table'[i] = shown_table[i]
    BY <1>1, <1>5, <1>6, <2>2, <2>3
  <2>6. Stacks!first(n)'
    BY <1>4, <2>1, <2>4, <2>5, SameShownSearch DEF HalfStack
  <2>7. \A i \in Stack(n, N) : table'[i] = IF i \in Stack(n, N - (k - 1)) THEN "mapped" ELSE "unused"
    BY <1>1, <1>4, <1>5, <1>6, <2>1 DEF HalfStack
  <2>8. HalfStack(n, k - 1)'
    BY <1>4, <2>6, <2>7 DEF HalfStack
  <2>9. live' # {} /\ \A m \in live' : Stack(m, N) \subseteq Entries
    BY <1>1, <1>2, <1>16 DEF Progress
  <2>10. Progress'
    BY <1>1, <1>4, <1>5, <1>7, <1>13, <1>16, <2>8, <2>9 DEF Progress, Spawned
  <2> QED  BY <1>8, <1>10, <1>11, <1>12, <1>14, <2>10, Parts
<1> QED  BY <1>7, <1>15, <1>16

\* What is known when a thread is made.
LEMMA ThreadFacts ==
  ASSUME AInv, todo # <<>>, op = "thread"
  PROVE  /\ arg \in SlotIds /\ Stack(arg, N) \subseteq Entries /\ Tail(todo) = <<>>
         /\ todo = stack_pages(arg, 0)
         /\ \/ phase = "spawn" /\ arg = 4 /\ NoStack(N) /\ id = 4 /\ frame = None
            \/ phase = "fork" /\ HalfStack(arg, 0) /\ frame = None
<1>1. Progress
  BY AllParts
<1>2. PICK n, k : StackStep(n, k)
  BY <1>1, HeadPhase
<1>3. /\ n \in SlotIds /\ Stack(n, N) \subseteq Entries /\ Tail(todo) = <<>> /\ n = arg /\ k = 0
      /\ todo = stack_pages(n, k)
      /\ \/ phase = "spawn" /\ n = 4 /\ NoStack(N - k) /\ id = 4 /\ frame = None
         \/ phase = "fork" /\ HalfStack(n, k)
  BY <1>2 DEF StackStep
<1>4. phase = "fork" => frame = None
  BY <1>1 DEF Progress, Spawned
<1>5. N - 0 = N
  BY SMT DEF N
<1> QED  BY <1>3, <1>4, <1>5

\* new_thread.
LEMMA NewThreadStep ==
  ASSUME AInv, new_thread
  PROVE  AInv' /\ UNCHANGED frame_vars
<1>1. /\ todo # <<>> /\ op = "thread" /\ todo' = Tail(todo) /\ live' = live \cup {arg}
      /\ id' = IF phase = "fork" THEN (id + 1) % Slots ELSE id
      /\ phase' = "run" /\ log_nothing /\ UNCHANGED frame_vars
      /\ UNCHANGED <<table, no_frame, overrun, tables, leaf, frame>>
  BY DEF new_thread, doing, done
<1>2. Progress /\ StacksTypeOK
  BY AllParts
<1>3. /\ arg \in SlotIds /\ Stack(arg, N) \subseteq Entries /\ todo' = <<>>
      /\ phase \in {"spawn", "fork"} /\ frame = None
  BY <1>1, ThreadFacts
<1> HIDE DEF arg
<1>4. FInv' /\ InBounds' /\ UNCHANGED <<frame_usage, held>>
  BY <1>1, FramesKept
<1>5. LoggerConsistent' /\ CountersOK'
  BY <1>1, <1>3, <1>4, LogKept
<1>6. PagesInv'
  BY <1>1, <1>3, <1>4, PagesKept
<1>7. id' \in SlotIds
  BY <1>1, <1>2, NextId DEF StacksTypeOK
<1>8. StacksTypeOK' /\ phase' \in Phases
  BY <1>1, <1>2, <1>3, <1>7 DEF StacksTypeOK, Phases
<1>9. Progress'
  <2>1. todo' \in Seq(CallSteps) /\ live' # {} /\ \A n \in live' : Stack(n, N) \subseteq Entries
    BY <1>1, <1>2, <1>3, SMT DEF Progress
  <2> QED  BY <1>1, <1>3, <2>1 DEF Progress, Spawned
<1>10. InHand'
  BY <1>1, <1>3 DEF InHand
<1> QED  BY <1>1, <1>4, <1>5, <1>6, <1>8, <1>9, <1>10, Parts

\* The steps that free a stack.
LEMMA ExitSteps ==
  ASSUME NEW n \in SlotIds, Stack(n, N) \subseteq Entries
  PROVE  LET s == free_stack_entries(n) \o << <<"drop">> >>
         IN  /\ s \in Seq(CallSteps) /\ Len(s) = 12 /\ s # <<>>
             /\ \A i \in 1 .. 11 : s[i] = <<"unmap", Spacing * n + N + 1 - i>>
             /\ \A i \in 1 .. 11 : Spacing * n + N + 1 - i \in Entries
             /\ s[12] = <<"drop">>
<1> DEFINE e(i) == <<"unmap", Spacing * n + N + 1 - i>>
           f == [i \in 1 .. 11 |-> e(i)]
           d == <<"drop">>
           t == << d >>
           s == f \o t
<1>1. n \in Nat
  BY SlotsAssumption, SMT DEF SlotIds
<1>2. \A i \in 1 .. 11 : Spacing * n + N + 1 - i \in Entries
  <2>1. Spacing * n + N \in Entries
    BY <1>1, SMT DEF Stack, Spacing, N
  <2> QED  BY <1>1, <2>1, SlotsAssumption, SMT DEF Spacing, N, Entries
<1>3. free_stack_entries(n) = f
  BY DEF free_stack_entries
<1>4. (\A i \in 1 .. 11 : e(i) \in CallSteps) /\ d \in CallSteps
  BY <1>2 DEF CallSteps
<1>5. t \in Seq(CallSteps) /\ Len(t) = 1 /\ t[1] = d
  BY <1>4, SMT
<1> HIDE DEF e, d, t
<1>6. f \in Seq(CallSteps) /\ Len(f) = 11 /\ \A i \in 1 .. 11 : f[i] = e(i)
  BY <1>4, SMT
<1> HIDE DEF f
<1>7. f \in Seq(CallSteps) /\ t \in Seq(CallSteps)
  BY <1>5, <1>6
<1>8. /\ s \in Seq(CallSteps) /\ Len(s) = Len(f) + Len(t)
      /\ \A i \in 1 .. Len(f) + Len(t) : s[i] = IF i <= Len(f) THEN f[i] ELSE t[i - Len(f)]
  BY <1>7, Joined
<1> HIDE DEF s
<1>9. Len(s) = 12 /\ \A i \in 1 .. 12 : s[i] = IF i <= 11 THEN f[i] ELSE t[i - 11]
  BY <1>5, <1>6, <1>8, SMT
<1>10. (\A i \in 1 .. 11 : s[i] = f[i]) /\ s[12] = t[1]
  BY <1>9, SMT
<1>11. s # <<>>
  BY <1>8, <1>9, SMT
<1>12. \A i \in 1 .. 11 : s[i] = e(i)
  BY <1>6, <1>10
<1>13. free_stack_entries(n) \o << <<"drop">> >> = s
  BY <1>3 DEF s, t, d
<1>14. (\A i \in 1 .. 11 : s[i] = <<"unmap", Spacing * n + N + 1 - i>>) /\ s[12] = <<"drop">>
  BY <1>5, <1>10, <1>12 DEF e, d
<1> QED  BY <1>2, <1>8, <1>9, <1>11, <1>13, <1>14

\* drop_thread.
LEMMA DropThreadStep ==
  ASSUME AInv, NEW n \in SlotIds, drop_thread(n)
  PROVE  AInv' /\ UNCHANGED frame_vars
<1>1. /\ phase = "run" /\ n \in live /\ live' = live \ {n} /\ phase' = "exit"
      /\ todo' = free_stack_entries(n) \o << <<"drop">> >> /\ log_nothing /\ UNCHANGED frame_vars
      /\ UNCHANGED <<table, id, no_frame, overrun, tables, leaf, frame>>
  BY DEF drop_thread
<1>2. Progress /\ StacksTypeOK
  BY AllParts
<1>3. frame = None /\ \A m \in live : Stack(m, N) \subseteq Entries
  BY <1>1, <1>2 DEF Progress, Spawned
<1>4. FInv' /\ InBounds' /\ UNCHANGED <<frame_usage, held>>
  BY <1>1, FramesKept
<1>5. LoggerConsistent' /\ CountersOK'
  BY <1>1, <1>4, LogKept
<1>6. PagesInv'
  BY <1>1, <1>3, <1>4, PagesKept
<1>7. StacksTypeOK' /\ phase' \in Phases
  BY <1>1, <1>2 DEF StacksTypeOK, Phases
<1>8. /\ todo' \in Seq(CallSteps) /\ todo' # <<>>
      /\ \A i \in DOMAIN todo' :
           IF i = Len(todo') THEN todo'[i] = <<"drop">> ELSE todo'[i] \in {"unmap"} \X Entries
  <2>1. /\ todo' \in Seq(CallSteps) /\ Len(todo') = 12 /\ todo' # <<>> /\ todo'[12] = <<"drop">>
        /\ \A i \in 1 .. 11 : todo'[i] = <<"unmap", Spacing * n + N + 1 - i>>
        /\ \A i \in 1 .. 11 : Spacing * n + N + 1 - i \in Entries
    BY <1>1, <1>3, ExitSteps
  <2>2. DOMAIN todo' = 1 .. 12 /\ \A i \in 1 .. 12 : i = 12 \/ i \in 1 .. 11
    BY <2>1, SMT
  <2>3. \A i \in 1 .. 11 : todo'[i] \in {"unmap"} \X Entries
    <3>1. \A x \in Entries : <<"unmap", x>> \in {"unmap"} \X Entries
      OBVIOUS
    <3> QED  BY <2>1, <3>1
  <2> QED  BY <2>1, <2>2, <2>3
<1>9. Progress'
  BY <1>1, <1>3, <1>8 DEF Progress, Spawned
<1>10. InHand'
  BY <1>1, <1>3 DEF InHand
<1> QED  BY <1>1, <1>4, <1>5, <1>6, <1>7, <1>9, <1>10, Parts

\* One step less of an exit.
LEMMA ExitTail ==
  ASSUME AInv, todo # <<>>, op = "unmap", todo' = Tail(todo), phase' = "exit",
         live' = live, frame' = frame
  PROVE  Progress' /\ InHand' /\ phase' \in Phases
<1>1. Progress
  BY AllParts
<1>2. phase = "exit" /\ Len(todo) > 1
  BY <1>1, HeadPhase
<1>3. /\ frame = None /\ (\A n \in live : Stack(n, N) \subseteq Entries) /\ todo \in Seq(CallSteps)
      /\ \A i \in DOMAIN todo :
           IF i = Len(todo) THEN todo[i] = <<"drop">> ELSE todo[i] \in {"unmap"} \X Entries
  BY <1>1, <1>2 DEF Progress, Spawned
<1> DEFINE n == Len(todo)
<1>4. /\ todo' \in Seq(CallSteps) /\ Len(todo') = n - 1 /\ n \in Nat /\ n > 1
      /\ DOMAIN todo = 1 .. n /\ DOMAIN todo' = 1 .. n - 1
      /\ \A i \in 1 .. n - 1 : todo'[i] = todo[i + 1]
  <2>1. todo \in Seq(CallSteps) /\ todo # <<>>
    BY <1>3
  <2>2. /\ Tail(todo) \in Seq(CallSteps) /\ Len(Tail(todo)) = Len(todo) - 1 /\ Len(todo) \in Nat
        /\ DOMAIN todo = 1 .. Len(todo) /\ DOMAIN Tail(todo) = 1 .. Len(todo) - 1
        /\ \A i \in 1 .. Len(todo) - 1 : Tail(todo)[i] = todo[i + 1]
    BY <2>1, Pop
  <2> QED  BY <1>2, <2>2
<1>5. todo' # <<>>
  BY <1>4, SMT
<1>6. \A i \in 1 .. n : IF i = n THEN todo[i] = <<"drop">> ELSE todo[i] \in {"unmap"} \X Entries
  BY <1>3, <1>4
<1> HIDE DEF n
<1>7. \A i \in 1 .. n - 1 : i + 1 \in 1 .. n /\ (i + 1 = n <=> i = n - 1)
  BY <1>4, SMT
<1>8. \A i \in DOMAIN todo' :
        IF i = Len(todo') THEN todo'[i] = <<"drop">> ELSE todo'[i] \in {"unmap"} \X Entries
  BY <1>4, <1>6, <1>7, SMT
<1>9. Progress'
  BY <1>3, <1>4, <1>5, <1>8 DEF Progress, Spawned
<1>10. InHand'
  BY <1>3 DEF InHand
<1> QED  BY <1>9, <1>10 DEF Phases

\* unmap_stack_page and skip_entry.
LEMMA UnmapStep ==
  ASSUME AInv, ~panicked, unmap_stack_page
  PROVE  AInv' /\ FramesNext
<1>1. /\ todo # <<>> /\ op = "unmap" /\ todo' = Tail(todo)
      /\ table' = [table EXCEPT ![arg] = "cleared"]
      /\ UNCHANGED <<live, id, no_frame, overrun, phase, frame>>
  BY DEF unmap_stack_page, doing, done
<1>2. phase = "exit" /\ arg \in Entries
  BY <1>1, AllParts, HeadPhase
<1>3. Progress' /\ InHand' /\ phase' \in Phases
  BY <1>1, <1>2, ExitTail
<1>4. StacksTypeOK'
  BY <1>1, <1>2, AllParts, StackTypes DEF StacksTypeOK
<1>5. PagesInv' /\ FramesNext /\ FInv' /\ InBounds' /\ LoggerConsistent' /\ CountersOK'
  BY <1>2, UnmapStackPage
<1> QED  BY <1>3, <1>4, <1>5, Parts

LEMMA SkipStep ==
  ASSUME AInv, skip_entry
  PROVE  AInv' /\ UNCHANGED frame_vars
<1>1. /\ todo # <<>> /\ op = "unmap" /\ todo' = Tail(todo) /\ log_nothing /\ UNCHANGED frame_vars
      /\ UNCHANGED <<table, live, id, no_frame, overrun, phase, tables, leaf, frame>>
  BY DEF skip_entry, doing, done, stack_vars
<1>2. phase = "exit"
  BY <1>1, AllParts, HeadPhase
<1>3. Progress' /\ InHand' /\ phase' \in Phases
  BY <1>1, <1>2, ExitTail
<1>4. StacksTypeOK'
  BY <1>1, AllParts DEF StacksTypeOK
<1>5. FInv' /\ InBounds' /\ UNCHANGED <<frame_usage, held>>
  BY <1>1, FramesKept
<1>6. LoggerConsistent' /\ CountersOK'
  BY <1>1, <1>2, <1>5, LogKept
<1>7. PagesInv'
  BY <1>1, <1>2, <1>5, PagesKept
<1> QED  BY <1>1, <1>3, <1>4, <1>5, <1>6, <1>7, Parts

\* drop_process.
LEMMA DropProcessStep ==
  ASSUME AInv, drop_process
  PROVE  AInv' /\ UNCHANGED frame_vars
<1>1. /\ todo # <<>> /\ op = "drop" /\ todo' = Tail(todo) /\ log_nothing /\ UNCHANGED frame_vars
      /\ phase' = IF live = {} THEN "teardown" ELSE "run"
      /\ UNCHANGED <<table, live, id, no_frame, overrun, tables, leaf, frame>>
  BY DEF drop_process, doing, done, stack_vars
<1>2. Progress /\ StacksTypeOK
  BY AllParts
<1>3. phase = "exit" /\ Len(todo) = 1
  BY <1>1, <1>2, HeadPhase
<1>4. frame = None /\ todo \in Seq(CallSteps) /\ \A n \in live : Stack(n, N) \subseteq Entries
  BY <1>2, <1>3 DEF Progress, Spawned
<1>5. FInv' /\ InBounds' /\ UNCHANGED <<frame_usage, held>>
  BY <1>1, FramesKept
<1>6. LoggerConsistent' /\ CountersOK'
  BY <1>1, <1>3, <1>5, LogKept
<1>7. PagesInv'
  BY <1>1, <1>3, <1>4, <1>5, PagesKept
<1>8. StacksTypeOK' /\ phase' \in Phases
  BY <1>1, <1>2 DEF StacksTypeOK, Phases
<1>9. todo' = <<>>
  <2>1. todo \in Seq(CallSteps) /\ Len(todo) = 1 /\ todo # <<>>
    BY <1>1, <1>3, <1>4
  <2>2. Tail(todo) \in Seq(CallSteps) /\ Len(Tail(todo)) = 0
    BY <2>1, Pop, SMT
  <2> QED  BY <1>1, <2>2, SMT
<1>10. Progress'
  BY <1>1, <1>4, <1>9, SMT DEF Progress, Spawned
<1>11. InHand'
  BY <1>1, <1>4 DEF InHand
<1> QED  BY <1>1, <1>5, <1>6, <1>7, <1>8, <1>10, <1>11, Parts

\* free_page and free_table.
LEMMA TeardownStep ==
  ASSUME AInv, ~panicked, (\E p \in Pages : free_page(p)) \/ free_table
  PROVE  AInv' /\ [FramesNext]_frame_vars
<1>1. /\ phase = "teardown" /\ phase' \in {"teardown", "gone"}
      /\ UNCHANGED <<table, live, id, no_frame, overrun, todo, frame>>
  BY DEF free_page, free_table, stack_vars
<1>2. Progress /\ StacksTypeOK
  BY AllParts
<1>3. /\ PagesInv' /\ FInv' /\ InBounds' /\ LoggerConsistent' /\ CountersOK'
      /\ FramesNext \/ UNCHANGED frame_vars
  BY FreePage, FreeTable
<1>4. StacksTypeOK' /\ phase' \in Phases
  BY <1>1, <1>2 DEF StacksTypeOK, Phases
<1>5. todo = <<>> /\ frame = None /\ \A n \in live : Stack(n, N) \subseteq Entries
  BY <1>1, <1>2 DEF Progress, Spawned
<1>6. Progress'
  BY <1>1, <1>2, <1>5 DEF Progress, Spawned
<1>7. InHand'
  BY <1>1, <1>5 DEF InHand
<1> QED  BY <1>3, <1>4, <1>6, <1>7, Parts

\* Every step keeps the invariant and is a step of FrameAllocator, or none.
LEMMA EveryStep == AInv /\ [Next]_vars => AInv' /\ [FramesNext]_frame_vars
<1> SUFFICES ASSUME AInv, [Next]_vars
             PROVE  AInv' /\ [FramesNext]_frame_vars
  OBVIOUS
<1>1. CASE UNCHANGED vars
  <2>1. /\ UNCHANGED <<stack_vars, process_vars>> /\ UNCHANGED frame_vars
        /\ UNCHANGED <<used_memory, free_memory>>
    BY <1>1 DEF vars
  <2>2. FInv' /\ InBounds' /\ UNCHANGED <<frame_usage, held>>
    BY <2>1, FramesKept
  <2>3. Progress' /\ InHand' /\ StacksTypeOK' /\ phase' \in Phases
    BY <2>1, <2>2, SameProgress
  <2>4. UNCHANGED <<phase, tables, leaf, frame, table, next>>
    BY <2>1 DEF stack_vars, process_vars, frame_vars
  <2>5. LoggerConsistent' /\ CountersOK'
    BY <2>1, <2>2, <2>4, LogKept DEF log_nothing
  <2>6. PagesInv'
    <3>1. PagesInv
      BY AllParts
    <3> QED  BY <2>2, <2>4, <3>1, SMT DEF PagesInv, HeldReachable, TablesNotMapped, FreedTwice, MappedPages, Mapped
  <2> QED  BY <2>1, <2>2, <2>3, <2>5, <2>6, Parts
<1>2. CASE Next
  <2>1. ~panicked
    BY <1>2 DEF Next
  <2>2. CASE init_heap \/ create_pagetable \/ take_frame \/ map_table \/ map_stack_page
    BY <2>1, <2>2, InitHeapStep, BuildingStep, MapStackPageStep
  <2>3. CASE init \/ map_frame \/ load_failed \/ \E binary \in Binaries : spawn_user_thread(binary)
    BY <2>3, InitStep, MapFrameStep, LoadFailedStep, SpawnStep
  <2>4. CASE out_of_frames \/ out_of_map
    BY <2>1, <2>4, OutOfFramesStep, OutOfMapStep
  <2>5. CASE fork_current_thread \/ find_overrun \/ find_none \/ new_thread
    BY <2>5, ForkStep, FindOverrunStep, FindNoneStep, NewThreadStep
  <2>6. CASE \E n \in SlotIds : find_slot(n) \/ drop_thread(n)
    BY <2>6, FindSlotStep, DropThreadStep
  <2>7. CASE unmap_stack_page \/ skip_entry \/ drop_process
    BY <2>1, <2>7, UnmapStep, SkipStep, DropProcessStep
  <2>8. CASE (\E p \in Pages : free_page(p)) \/ free_table
    BY <2>1, <2>8, TeardownStep
  <2> QED  BY <1>2, <2>2, <2>3, <2>4, <2>5, <2>6, <2>7, <2>8 DEF Next
<1> QED  BY <1>1, <1>2

\* The kernel boots with nothing allocated.
LEMMA AtBoot == Init /\ FramesCounted => AInv
<1> SUFFICES ASSUME Init, FramesCounted PROVE AInv
  OBVIOUS
<1>1. FInv /\ InBounds /\ frame_usage = {} /\ held = [c \in Clients |-> {}]
  BY FrameInit DEF Init, FramesInit, InBounds
<1>2. /\ table = [i \in Entries |-> "unused"] /\ live = {} /\ id = 3
      /\ no_frame = FALSE /\ overrun = FALSE /\ phase = "boot"
      /\ tables = <<>> /\ leaf = [p \in Pages |-> None] /\ frame = None
      /\ used_memory = 0 /\ free_memory = 0
  BY DEF Init
<1>3. MappedPages = {} /\ Mapped = {} /\ Range(tables) = {} /\ held[Process] = {}
  <2>1. MappedPages = {} /\ Mapped = {}
    BY <1>2 DEF MappedPages, Mapped
  <2>2. Range(tables) = {}
    BY <1>2, SMT DEF Range
  <2>3. held[Process] = {}
    BY <1>1, ClientsAssumption
  <2> QED  BY <2>1, <2>2, <2>3
<1>4. StacksTypeOK
  <2>1. table \in [Entries -> {"unused", "mapped", "cleared"}] /\ live \subseteq SlotIds
    BY <1>2
  <2>2. id \in SlotIds
    BY <1>2, SlotsAssumption, SMT DEF SlotIds
  <2>3. no_frame \in BOOLEAN /\ overrun \in BOOLEAN
    BY <1>2
  <2> QED  BY <2>1, <2>2, <2>3 DEF StacksTypeOK
<1>5. /\ tables \in Seq(Frames) /\ leaf \in [Pages -> Frames \cup {None}] /\ frame \in Frames \cup {None}
      /\ HeldReachable /\ TablesNotMapped /\ IsInjective(tables) /\ FreedTwice
  BY <1>2, <1>3, SMT DEF HeldReachable, TablesNotMapped, IsInjective, FreedTwice
<1>6. \A i \in Entries : table[i] = "mapped" <=> leaf[<<"stack", i>>] # None
  BY <1>2, PageKinds
<1>7. {used_memory, free_memory} \subseteq 0 .. W - 1 /\ LoggerConsistent
  BY <1>1, <1>2, WidthAssumption, SMT DEF LoggerConsistent, FramesCounted
<1>8. NoStack(0)
  BY <1>2, SlotsAssumption, SMT DEF NoStack, Stack, Spacing
<1>9. /\ todo \in Seq(CallSteps) /\ todo # <<>>
      /\ \A i \in DOMAIN todo : todo[i] = IF i = Len(todo) THEN <<"total">> ELSE <<"kernel">>
  <2> DEFINE x == <<"kernel">>
             y == <<"total">>
             t == << y >>
  <2>1. PICK k \in KernelFrames : todo = Repeat(k, x) \o t
    BY DEF Init
  <2> DEFINE s == Repeat(k, x)
  <2>2. k \in Nat /\ x \in CallSteps /\ y \in CallSteps
    BY TablesAssumption DEF CallSteps
  <2>3. t \in Seq(CallSteps) /\ Len(t) = 1 /\ t[1] = y
    BY <2>2, SMT
  <2> HIDE DEF x, y, t
  <2>4. s \in Seq(CallSteps) /\ Len(s) = k /\ \A i \in 1 .. k : s[i] = x
    BY <2>2, Repeats
  <2>5. todo = s \o t
    BY <2>1
  <2> HIDE DEF s
  <2>6. /\ todo \in Seq(CallSteps) /\ Len(todo) = k + 1
        /\ \A i \in 1 .. k + 1 : todo[i] = IF i <= k THEN s[i] ELSE t[i - k]
    <3>1. /\ s \o t \in Seq(CallSteps) /\ Len(s \o t) = Len(s) + Len(t)
          /\ \A i \in 1 .. Len(s) + Len(t) : (s \o t)[i] = IF i <= Len(s) THEN s[i] ELSE t[i - Len(s)]
      BY <2>3, <2>4, Joined
    <3> QED  BY <2>5, <2>3, <2>4, <3>1
  <2>7. todo # <<>> /\ DOMAIN todo = 1 .. k + 1
    BY <2>2, <2>6, SMT
  <2>8. \A i \in 1 .. k + 1 : todo[i] = IF i = k + 1 THEN y ELSE x
    BY <2>2, <2>3, <2>4, <2>6, SMT
  <2> QED  BY <2>6, <2>7, <2>8 DEF x, y
<1>10. Progress
  BY <1>2, <1>3, <1>8, <1>9 DEF Progress, Spawned
<1>11. InHand
  BY <1>2 DEF InHand
<1>12. TypeOK
  BY <1>1, <1>2, <1>4, <1>5, <1>7 DEF TypeOK, FInv, Phases
<1> QED  BY <1>1, <1>2, <1>5, <1>6, <1>7, <1>10, <1>11, <1>12 DEF AInv, ProcessInv

=============================================================================
