----------------------------- MODULE UserStacks -----------------------------
(***************************************************************************)
(* User stacks of a process: allocate_user_stack and free_user_stack of    *)
(* mem/memory.rs on the one level 1 page table that holds them all.        *)
(*                                                                         *)
(* Slot n starts at entry 8 n; a stack takes the N = 10 entries after it,  *)
(* so a stack overlaps the next slot.  An entry is                         *)
(*   "unused"   zero,                                                      *)
(*   "mapped"   a writable frame,                                          *)
(*   "cleared"  what set_flags(empty) leaves of a mapped entry: its        *)
(*              address, so is_unused() is false.                          *)
(*                                                                         *)
(* The process starts with the stack of its first thread, whose search     *)
(* starts at id 4.  A stack belongs to a thread; any live thread may fork  *)
(* or exit.                                                                *)
(***************************************************************************)
EXTENDS Integers

CONSTANT Slots  \* 64; the table has 8 * Slots = 512 entries

ASSUME SlotsAssumption == Slots \in Nat /\ Slots > 5 /\ Slots % 2 = 0

VARIABLES
  table,     \* the level 1 page table
  live,      \* the slots of the live threads' stacks
  id,        \* COUNTER of unique_id(), modulo Slots
  no_frame,  \* some allocation has run out of frames
  overrun    \* an index out of bounds stopped the kernel

stack_vars == <<table, live, id, no_frame, overrun>>

Spacing == 8
N == 10
Entries == 0 .. Spacing * Slots - 1
SlotIds == 0 .. Slots - 1

\* The entries of slot n's first k pages, whether the table has them or not.
Stack(n, k) == Spacing * n + 1 .. Spacing * n + k

StacksInit ==
  /\ table = [i \in Entries |-> IF i \in Stack(4, N) THEN "mapped" ELSE "unused"]
  /\ live = {4}
  /\ id = 4
  /\ no_frame = FALSE
  /\ overrun = FALSE

-----------------------------------------------------------------------------
\* Mutant: only the entries of the slot itself are looked at.
all_unused_slot(n) == \A i \in Stack(n, Spacing) \cap Entries : table[i] = "unused"

\* `(n * 8 + 1 .. n * 8 + 1 + N).all(|index| table[index].is_unused())`, which
\* stops at the first entry in use and indexes past the end otherwise.
all_unused(n) == \A i \in Stack(n, N) \cap Entries : table[i] = "unused"
fits(n) == all_unused(n) /\ Stack(n, N) \subseteq Entries
overruns(n) == all_unused(n) /\ ~(Stack(n, N) \subseteq Entries)

\* The slots in the order they are searched, from unique_id().
distance(n) == (n - (id + 1)) % Slots
first(n) == all_unused(n) /\ \A m \in SlotIds : all_unused(m) => distance(n) <= distance(m)

\* The first k pages of slot n get a frame.
map_pages(n, k) ==
  [i \in Entries |-> IF i \in Stack(n, k) THEN "mapped" ELSE table[i]]

\* fork_current_thread takes two ids, one for the search and one for the
\* thread.
allocate_user_stack(n) ==
  /\ first(n) /\ fits(n)
  /\ table' = map_pages(n, N)
  /\ live' = live \cup {n}
  /\ id' = (id + 2) % Slots
  /\ UNCHANGED <<no_frame, overrun>>

\* "Failed to allocate frame" after k pages, which stay mapped.
allocate_no_frame(n, k) ==
  /\ first(n) /\ fits(n)
  /\ table' = map_pages(n, k)
  /\ id' = (id + 1) % Slots
  /\ no_frame' = TRUE
  /\ UNCHANGED <<live, overrun>>

\* "All thread stack slots full"
all_slots_full == \A n \in SlotIds : ~all_unused(n)
allocate_full ==
  /\ all_slots_full
  /\ id' = (id + 1) % Slots
  /\ UNCHANGED <<table, live, no_frame, overrun>>

\* table[512]
allocate_overrun(n) ==
  /\ first(n) /\ overruns(n)
  /\ overrun' = TRUE
  /\ UNCHANGED <<table, live, id, no_frame>>

\* free_user_stack of the stack that ends at entry iend: 11 entries lose their
\* flags, a mapped one its frame.
free_user_stack(n) ==
  LET iend == Spacing * n + N
  IN  /\ n \in live
      /\ live' = live \ {n}
      /\ table' = [i \in Entries |->
                     IF i \in iend - 10 .. iend /\ table[i] = "mapped" THEN "cleared" ELSE table[i]]
      /\ UNCHANGED <<id, no_frame, overrun>>

StacksNext ==
  /\ ~overrun /\ live # {}
  /\ \/ \E n \in SlotIds : \/ allocate_user_stack(n)
                           \/ \E k \in 0 .. N - 1 : allocate_no_frame(n, k)
                           \/ allocate_overrun(n)
                           \/ free_user_stack(n)
     \/ allocate_full

StacksSpec == StacksInit /\ [][StacksNext]_stack_vars

-----------------------------------------------------------------------------
\* Types.
StacksTypeOK ==
  /\ table \in [Entries -> {"unused", "mapped", "cleared"}]
  /\ live \subseteq SlotIds
  /\ id \in SlotIds
  /\ no_frame \in BOOLEAN
  /\ overrun \in BOOLEAN

\* The stack of every live thread is completely mapped: no other thread's exit,
\* which clears eleven entries for ten pages, takes a page of it away.
LiveStacksMapped ==
  \A n \in live : Stack(n, N) \subseteq Entries /\ \A i \in Stack(n, N) : table[i] = "mapped"

\* No two live stacks share a page, although neighbouring slots overlap.
StacksDisjoint ==
  \A m, n \in live : m # n => Stack(m, N) \cap Stack(n, N) = {}

\* The search walks off the end of the table only after some allocation has
\* failed for lack of frames: otherwise every other slot is used, and the last
\* slot is always found occupied by the one before it.
PanicsOnlyAfterNoFrame == overrun => no_frame

\* While no allocation has failed for lack of frames: either every slot is taken,
\* or the even slots from 4 up to id, going around the end of the table, have been
\* used and no entry of the others.
UsedSlots ==
  {n \in SlotIds : n % 2 = 0 /\ IF id >= 4 THEN 4 <= n /\ n <= id ELSE 4 <= n \/ n <= id}
SlotsInTurn ==
  /\ id % 2 = 0
  /\ \A i \in Entries : table[i] # "unused" <=> \E n \in UsedSlots : i \in Stack(n, N)
EverySecondSlot == ~no_frame => ~overrun /\ (all_slots_full \/ SlotsInTurn)

\* With frames to spare, "All thread stack slots full" is returned only if every
\* slot overlaps a live thread's stack ("If all slots are full, return an error").
FullOnlyIfOccupied ==
  all_slots_full /\ ~no_frame =>
    \A n \in SlotIds : \E m \in live : Stack(m, N) \cap Stack(n, N) # {}
=============================================================================
