-------------------------- MODULE UserStacksProofs --------------------------
(***************************************************************************)
(* Theorems about user stacks, for every number of slots.                  *)
(*                                                                         *)
(* free_user_stack clears eleven entries for ten pages.  The eleventh      *)
(* belongs to the slot below, and no live stack is there, as live stacks   *)
(* are disjoint.  Slots are taken two apart, so that while no allocation   *)
(* runs out of frames only every second slot is ever used, and the search  *)
(* never comes to the last one, whose stack would not fit.                 *)
(***************************************************************************)
EXTENDS UserStacks, TLAPS

\* Zenon proves the steps, but for those that cite SMT.
USE Zenon

SInv == StacksTypeOK /\ LiveStacksMapped /\ StacksDisjoint

\* Two stacks are disjoint exactly if their slots are not neighbours.
LEMMA Neighbours ==
  ASSUME NEW m \in Nat, NEW n \in Nat
  PROVE  /\ Stack(m, N) \cap Stack(n, N) = {} <=> m + 2 <= n \/ n + 2 <= m
         /\ Stack(m, N) \subseteq Nat
<1>1. CASE m + 2 <= n \/ n + 2 <= m
  BY <1>1, SMT DEF Stack, Spacing, N
<1>2. CASE m = n
  <2>1. 8 * m + 1 \in Stack(m, N) \cap Stack(n, N)
    BY <1>2, SMT DEF Stack, Spacing, N
  <2> QED  BY <1>2, <2>1, SMT DEF Stack, Spacing, N
<1>3. CASE n = m + 1
  <2>1. 8 * n + 1 \in Stack(m, N) \cap Stack(n, N)
    BY <1>3, SMT DEF Stack, Spacing, N
  <2> QED  BY <1>3, <2>1, SMT DEF Stack, Spacing, N
<1>4. CASE m = n + 1
  <2>1. 8 * m + 1 \in Stack(m, N) \cap Stack(n, N)
    BY <1>4, SMT DEF Stack, Spacing, N
  <2> QED  BY <1>4, <2>1, SMT DEF Stack, Spacing, N
<1> QED  BY <1>1, <1>2, <1>3, <1>4, SMT

\* The first thread's stack.
LEMMA StacksStart == StacksInit => SInv
<1> SUFFICES ASSUME StacksInit PROVE SInv
  OBVIOUS
<1>1. /\ table = [i \in Entries |-> IF i \in Stack(4, N) THEN "mapped" ELSE "unused"]
      /\ live = {4} /\ id = 4 /\ no_frame = FALSE /\ overrun = FALSE
  BY DEF StacksInit
<1>2. Stack(4, N) \subseteq Entries /\ 4 \in SlotIds
  BY SlotsAssumption, SMT DEF Stack, Spacing, N, Entries, SlotIds
<1>3. no_frame \in BOOLEAN /\ overrun \in BOOLEAN
  BY <1>1
<1>4. StacksTypeOK
  BY <1>1, <1>2, <1>3 DEF StacksTypeOK
<1>5. LiveStacksMapped /\ StacksDisjoint
  BY <1>1, <1>2 DEF LiveStacksMapped, StacksDisjoint
<1> QED  BY <1>4, <1>5 DEF SInv

\* A slot that fits is disjoint from every live stack.
LEMMA FitsDisjoint ==
  ASSUME SInv, NEW n \in SlotIds, fits(n), NEW m \in live
  PROVE  Stack(m, N) \cap Stack(n, N) = {}
<1>1. \A i \in Stack(n, N) : table[i] = "unused"
  BY DEF fits, all_unused
<1>2. \A i \in Stack(m, N) : table[i] = "mapped"
  BY DEF SInv, LiveStacksMapped
<1> QED  BY <1>1, <1>2

\* Mapping k pages of a slot that fits changes no live stack.
LEMMA MapPages ==
  ASSUME SInv, NEW n \in SlotIds, fits(n), NEW k \in 0 .. N, table' = map_pages(n, k)
  PROVE  /\ table' \in [Entries -> {"unused", "mapped", "cleared"}]
         /\ \A i \in Stack(n, k) : table'[i] = "mapped"
         /\ \A m \in live : \A i \in Stack(m, N) : table'[i] = "mapped"
<1>1. Stack(n, k) \subseteq Stack(n, N) /\ Stack(n, N) \subseteq Entries
  BY SMT DEF fits, Stack, Spacing, N, SlotIds
<1>2. table \in [Entries -> {"unused", "mapped", "cleared"}]
  BY DEF SInv, StacksTypeOK
<1>3. \A i \in Entries : table'[i] = IF i \in Stack(n, k) THEN "mapped" ELSE table[i]
  BY DEF map_pages
<1>4. table' \in [Entries -> {"unused", "mapped", "cleared"}]
  BY <1>2 DEF map_pages
<1> QED  BY <1>1, <1>3, <1>4 DEF SInv, LiveStacksMapped

\* Every fork and every exit keeps the invariant.
LEMMA StacksStep == SInv /\ [StacksNext]_stack_vars => SInv'
<1> SUFFICES ASSUME SInv, [StacksNext]_stack_vars PROVE SInv'
  OBVIOUS
<1>0. /\ table \in [Entries -> {"unused", "mapped", "cleared"}]
      /\ live \subseteq SlotIds /\ id \in SlotIds /\ SlotIds \subseteq Nat
      /\ no_frame \in BOOLEAN /\ overrun \in BOOLEAN
      /\ (id + 1) % Slots \in SlotIds /\ (id + 2) % Slots \in SlotIds
      /\ \A m \in live : Stack(m, N) \subseteq Entries
  BY SlotsAssumption, SMT DEF SInv, StacksTypeOK, LiveStacksMapped, SlotIds
<1>1. CASE UNCHANGED stack_vars
  BY <1>1 DEF stack_vars, SInv, StacksTypeOK, LiveStacksMapped, StacksDisjoint
<1>2. ASSUME NEW n \in SlotIds, allocate_user_stack(n)
      PROVE  SInv'
  <2>1. /\ fits(n) /\ table' = map_pages(n, N) /\ live' = live \cup {n}
        /\ id' = (id + 2) % Slots /\ UNCHANGED <<no_frame, overrun>>
    BY <1>2 DEF allocate_user_stack
  <2>2. /\ table' \in [Entries -> {"unused", "mapped", "cleared"}]
        /\ \A i \in Stack(n, N) : table'[i] = "mapped"
        /\ \A m \in live : \A i \in Stack(m, N) : table'[i] = "mapped"
    <3>1. N \in 0 .. N
      BY SMT DEF N
    <3> QED  BY <2>1, <3>1, MapPages
  <2>3. Stack(n, N) \subseteq Entries
    BY <2>1 DEF fits
  <2>4. StacksTypeOK'
    BY <1>0, <2>1, <2>2 DEF StacksTypeOK
  <2>5. LiveStacksMapped'
    BY <1>0, <2>1, <2>2, <2>3 DEF LiveStacksMapped
  <2>6. StacksDisjoint'
    <3>1. \A m \in live : Stack(m, N) \cap Stack(n, N) = {}
      BY <2>1, FitsDisjoint
    <3> QED  BY <2>1, <3>1 DEF SInv, StacksDisjoint
  <2> QED  BY <2>4, <2>5, <2>6 DEF SInv
<1>3. ASSUME NEW n \in SlotIds, NEW k \in 0 .. N - 1, allocate_no_frame(n, k)
      PROVE  SInv'
  <2>1. /\ fits(n) /\ table' = map_pages(n, k) /\ live' = live
        /\ id' = (id + 1) % Slots /\ no_frame' = TRUE /\ overrun' = overrun
    BY <1>3 DEF allocate_no_frame
  <2>2. /\ table' \in [Entries -> {"unused", "mapped", "cleared"}]
        /\ \A m \in live : \A i \in Stack(m, N) : table'[i] = "mapped"
    <3>1. k \in 0 .. N
      BY SMT DEF N
    <3> QED  BY <2>1, <3>1, MapPages
  <2>3. StacksTypeOK'
    BY <1>0, <2>1, <2>2 DEF StacksTypeOK
  <2>4. LiveStacksMapped' /\ StacksDisjoint'
    BY <2>1, <2>2 DEF SInv, LiveStacksMapped, StacksDisjoint
  <2> QED  BY <2>3, <2>4 DEF SInv
<1>4. CASE allocate_full
  <2>1. id' \in SlotIds /\ UNCHANGED <<table, live, no_frame, overrun>>
    BY <1>0, <1>4 DEF allocate_full
  <2> QED  BY <1>0, <2>1 DEF SInv, StacksTypeOK, LiveStacksMapped, StacksDisjoint
<1>5. ASSUME NEW n \in SlotIds, allocate_overrun(n)
      PROVE  SInv'
  <2>1. overrun' = TRUE /\ UNCHANGED <<table, live, id, no_frame>>
    BY <1>5 DEF allocate_overrun
  <2> QED  BY <1>0, <2>1 DEF SInv, StacksTypeOK, LiveStacksMapped, StacksDisjoint
<1>6. ASSUME NEW n \in SlotIds, free_user_stack(n)
      PROVE  SInv'
  <2> DEFINE iend == Spacing * n + N
             freed(i) == i \in iend - 10 .. iend /\ table[i] = "mapped"
  <2>1. /\ n \in live /\ live' = live \ {n}
        /\ table' = [i \in Entries |-> IF freed(i) THEN "cleared" ELSE table[i]]
        /\ UNCHANGED <<id, no_frame, overrun>>
    BY <1>6 DEF free_user_stack
  <2>2. table' \in [Entries -> {"unused", "mapped", "cleared"}]
    BY <1>0, <2>1
  <2>3. ASSUME NEW m \in live', NEW i \in Stack(m, N)
        PROVE  table'[i] = "mapped"
    <3>1. m \in live /\ m # n /\ m \in Nat /\ n \in Nat
      BY <1>0, <2>1, <2>3
    <3>2. m + 2 <= n \/ n + 2 <= m
      BY <2>1, <3>1, Neighbours DEF SInv, StacksDisjoint
    <3>3. i \notin iend - 10 .. iend
      BY <2>3, <3>1, <3>2, SMT DEF Stack, Spacing, N
    <3>4. i \in Entries /\ table[i] = "mapped"
      BY <1>0, <2>3, <3>1 DEF SInv, LiveStacksMapped
    <3> QED  BY <2>1, <3>3, <3>4
  <2>4. StacksTypeOK'
    BY <1>0, <2>1, <2>2 DEF StacksTypeOK
  <2>5. LiveStacksMapped'
    BY <1>0, <2>1, <2>3 DEF LiveStacksMapped
  <2>6. StacksDisjoint'
    BY <2>1 DEF SInv, StacksDisjoint
  <2> QED  BY <2>4, <2>5, <2>6 DEF SInv
<1> QED  BY <1>1, <1>2, <1>3, <1>4, <1>5, <1>6 DEF StacksNext

\* The invariant holds in every reachable state.
THEOREM StacksInductive == StacksSpec => []SInv
<1> QED  BY StacksStart, StacksStep, PTL DEF StacksSpec

\* The variables keep their types.
THEOREM StacksTypeCorrect == StacksSpec => []StacksTypeOK
<1>1. SInv => StacksTypeOK
  BY DEF SInv
<1> QED  BY <1>1, StacksInductive, PTL

\* A live thread never loses a page of its stack to another thread's exit or
\* to a failed allocation.
THEOREM LiveStacksSafe == StacksSpec => []LiveStacksMapped
<1>1. SInv => LiveStacksMapped
  BY DEF SInv
<1> QED  BY <1>1, StacksInductive, PTL

\* Live stacks never share a page.
THEOREM StacksNeverShared == StacksSpec => []StacksDisjoint
<1>1. SInv => StacksDisjoint
  BY DEF SInv
<1> QED  BY <1>1, StacksInductive, PTL

-----------------------------------------------------------------------------
\* Remainders of numbers less than one modulus away from the range.
LEMMA Wrap ==
  ASSUME NEW M \in Nat, M > 0, NEW a \in 0 .. M - 1
  PROVE  a % M = a /\ (a - M) % M = a /\ (a + M) % M = a
<1>1. a % M = a
  BY SMT
<1>2. (a - M) % M = a
  BY SMT
<1>3. (a + M) % M = a
  BY SMT
<1> QED  BY <1>1, <1>2, <1>3

\* While slots are used in turn, a slot is free if neither it nor a neighbour has
\* been used.
LEMMA FreeSlot ==
  ASSUME SlotsInTurn, NEW n \in SlotIds
  PROVE  all_unused(n) <=> \A m \in UsedSlots : m + 2 <= n \/ n + 2 <= m
<1>1. SlotIds \subseteq Nat /\ UsedSlots \subseteq SlotIds
  BY SlotsAssumption, SMT DEF SlotIds, UsedSlots
<1>2. ASSUME all_unused(n), NEW m \in UsedSlots, ~(m + 2 <= n \/ n + 2 <= m)
      PROVE  FALSE
  <2>1. PICK b \in {m, n} : m <= b /\ b <= m + 1 /\ n <= b /\ b <= n + 1
    <3>1. CASE m <= n
      BY <1>1, <1>2, <3>1, SMT
    <3>2. CASE n <= m
      BY <1>1, <1>2, <3>2, SMT
    <3> QED  BY <1>1, <3>1, <3>2, SMT
  <2>2. 8 * b + 1 \in Stack(m, N) /\ 8 * b + 1 \in Stack(n, N) /\ 8 * b + 1 \in Entries
    BY <1>1, <2>1, SlotsAssumption, SMT DEF Stack, Spacing, N, Entries, SlotIds
  <2> QED  BY <1>2, <2>2 DEF all_unused, SlotsInTurn
<1>3. ASSUME \A m \in UsedSlots : m + 2 <= n \/ n + 2 <= m,
             NEW i \in Stack(n, N) \cap Entries, table[i] # "unused"
      PROVE  FALSE
  <2>1. PICK m \in UsedSlots : i \in Stack(m, N)
    BY <1>3 DEF SlotsInTurn
  <2>2. m \in Nat /\ n \in Nat
    BY <1>1
  <2>3. Stack(m, N) \cap Stack(n, N) = {}
    BY <1>3, <2>2, Neighbours
  <2> QED  BY <1>3, <2>1, <2>3
<1> QED  BY <1>2, <1>3 DEF all_unused

\* ... and the search finds the next even slot, unless all have been used.
LEMMA NextSlot ==
  ASSUME SlotsInTurn, id \in SlotIds, NEW n \in SlotIds, first(n)
  PROVE  id # 2 /\ n = (id + 2) % Slots /\ (id + 2) % Slots = IF id = Slots - 2 THEN 0 ELSE id + 2
<1> DEFINE s == IF id = Slots - 2 THEN 0 ELSE id + 2
<1>1. /\ Slots \in Nat /\ Slots > 5 /\ Slots % 2 = 0
      /\ id \in 0 .. Slots - 1 /\ id % 2 = 0 /\ n \in 0 .. Slots - 1
      /\ all_unused(n)
  BY SlotsAssumption DEF SlotsInTurn, SlotIds, first
<1>2. s \in 0 .. Slots - 2 /\ s % 2 = 0 /\ id <= Slots - 2 /\ (id = Slots - 2 => id >= 4)
  BY <1>1, SMT
<1>3. (id + 2) % Slots = s
  <2>1. CASE id = Slots - 2
    BY <1>1, <2>1, Wrap, SMT
  <2>2. CASE id # Slots - 2
    BY <1>1, <1>2, <2>2, Wrap, SMT
  <2> QED  BY <2>1, <2>2
<1>4. \A m \in UsedSlots : m + 2 <= n \/ n + 2 <= m
  BY <1>1, FreeSlot
<1>5. id # 2
  <2> SUFFICES ASSUME id = 2 PROVE FALSE
    OBVIOUS
  <2>1. \A m \in 0 .. Slots - 1 : m % 2 = 0 => m \in UsedSlots
    BY <1>1, SMT DEF UsedSlots, SlotIds
  <2>2. CASE n % 2 = 0
    BY <1>1, <1>4, <2>1, <2>2, SMT
  <2>3. CASE n % 2 # 0
    <3>1. n - 1 \in 0 .. Slots - 1 /\ (n - 1) % 2 = 0
      BY <1>1, <2>3, SMT
    <3>2. n - 1 \in UsedSlots
      BY <2>1, <3>1
    <3> QED  BY <1>1, <1>4, <3>2, SMT
  <2> QED  BY <2>2, <2>3
<1>6. all_unused(s)
  <2>1. \A m \in UsedSlots : m + 2 <= s \/ s + 2 <= m
    <3> SUFFICES ASSUME NEW m \in UsedSlots PROVE m + 2 <= s \/ s + 2 <= m
      OBVIOUS
    <3>1. /\ m \in 0 .. Slots - 1 /\ m % 2 = 0
          /\ IF id >= 4 THEN 4 <= m /\ m <= id ELSE 4 <= m \/ m <= id
      BY DEF UsedSlots, SlotIds
    <3>2. m # s
      BY <1>1, <1>2, <1>5, <3>1, SMT
    <3> QED  BY <1>1, <1>2, <3>1, <3>2, SMT
  <2> QED  BY <1>1, <1>2, <2>1, FreeSlot, SMT DEF SlotIds
<1>7. \A k \in 0 .. Slots - 1 : distance(k) = IF k > id THEN k - (id + 1) ELSE k - (id + 1) + Slots
  <2> SUFFICES ASSUME NEW k \in 0 .. Slots - 1
               PROVE  distance(k) = IF k > id THEN k - (id + 1) ELSE k - (id + 1) + Slots
    OBVIOUS
  <2>1. CASE k > id
    BY <1>1, <2>1, Wrap, SMT DEF distance
  <2>2. CASE k <= id
    <3> DEFINE a == k - (id + 1) + Slots
    <3>1. a \in 0 .. Slots - 1 /\ a - Slots = k - (id + 1)
      BY <1>1, <2>2, SMT
    <3>2. (a - Slots) % Slots = a
      BY <1>1, <3>1, Wrap, SMT
    <3> QED  BY <1>1, <2>2, <3>1, <3>2, SMT DEF distance
  <2> QED  BY <1>1, <2>1, <2>2, SMT
<1>8. distance(n) <= 1
  <2>1. distance(s) = 1
    BY <1>1, <1>2, <1>7, SMT
  <2>2. distance(n) <= distance(s)
    BY <1>1, <1>2, <1>6, SMT DEF first, SlotIds
  <2> QED  BY <2>1, <2>2
<1>9. n # id + 1
  <2>1. id \in UsedSlots
    BY <1>1, SMT DEF UsedSlots, SlotIds
  <2> QED  BY <1>1, <1>4, <2>1, SMT
<1>10. n = s
  BY <1>1, <1>2, <1>7, <1>8, <1>9, SMT
<1> QED  BY <1>3, <1>5, <1>10

\* With the stack of slot 4 the turn begins.
LEMMA TurnStart == StacksInit => EverySecondSlot
<1> SUFFICES ASSUME StacksInit PROVE EverySecondSlot
  OBVIOUS
<1>1. UsedSlots = {4}
  BY SlotsAssumption, SMT DEF StacksInit, UsedSlots, SlotIds
<1>2. id % 2 = 0 /\ \A i \in Entries : table[i] # "unused" <=> i \in Stack(4, N)
  BY SMT DEF StacksInit
<1> QED  BY <1>1, <1>2 DEF EverySecondSlot, SlotsInTurn, StacksInit

\* Entries that were used once never become unused again.
LEMMA TurnStep == SInv /\ EverySecondSlot /\ [StacksNext]_stack_vars => EverySecondSlot'
<1> SUFFICES ASSUME SInv, EverySecondSlot, [StacksNext]_stack_vars, ~no_frame'
             PROVE  EverySecondSlot'
  BY DEF EverySecondSlot
<1>1. CASE UNCHANGED stack_vars
  BY <1>1 DEF stack_vars, EverySecondSlot, SlotsInTurn, UsedSlots, all_slots_full, all_unused
<1>2. id \in SlotIds /\ table \in [Entries -> {"unused", "mapped", "cleared"}]
  BY DEF SInv, StacksTypeOK
<1>3. ASSUME NEW n \in SlotIds, first(n)
      PROVE  ~no_frame => SlotsInTurn
  BY <1>3 DEF EverySecondSlot, all_slots_full, first
<1>4. ASSUME NEW n \in SlotIds, allocate_user_stack(n)
      PROVE  EverySecondSlot'
  <2>1. /\ first(n) /\ fits(n) /\ table' = map_pages(n, N)
        /\ id' = (id + 2) % Slots /\ ~no_frame /\ overrun' = overrun
    BY <1>4 DEF allocate_user_stack
  <2>2. SlotsInTurn /\ id # 2 /\ n = id' /\ id' = IF id = Slots - 2 THEN 0 ELSE id + 2
    BY <1>2, <1>3, <2>1, NextSlot
  <2>3. id' % 2 = 0 /\ UsedSlots' = UsedSlots \cup {n}
    <3>1. /\ Slots \in Nat /\ Slots > 5 /\ Slots % 2 = 0 /\ id \in 0 .. Slots - 1
          /\ id % 2 = 0 /\ n \in 0 .. Slots - 1
      BY <1>2, <2>2, SlotsAssumption DEF SlotIds, SlotsInTurn
    <3>2. id' % 2 = 0
      BY <2>2, <3>1, SMT
    <3>3. ASSUME NEW m \in 0 .. Slots - 1, m % 2 = 0
          PROVE  m \in UsedSlots' <=> m \in UsedSlots \/ m = n
      BY <2>2, <3>1, <3>3, SMT DEF UsedSlots, SlotIds
    <3>4. n % 2 = 0 /\ \A m \in UsedSlots \cup UsedSlots' : m \in 0 .. Slots - 1 /\ m % 2 = 0
      BY <2>2, <3>2 DEF UsedSlots, SlotIds
    <3> QED  BY <3>1, <3>2, <3>3, <3>4
  <2>4. \A i \in Entries : table'[i] # "unused" <=> i \in Stack(n, N) \/ table[i] # "unused"
    BY <1>2, <2>1 DEF map_pages
  <2>5. SlotsInTurn'
    BY <2>2, <2>3, <2>4 DEF SlotsInTurn
  <2> QED  BY <2>1, <2>5 DEF EverySecondSlot
<1>5. ASSUME NEW n \in SlotIds, allocate_overrun(n)
      PROVE  FALSE
  <2>1. first(n) /\ overruns(n) /\ ~no_frame
    BY <1>5 DEF allocate_overrun
  <2>2. SlotsInTurn /\ n = IF id = Slots - 2 THEN 0 ELSE id + 2
    BY <1>2, <1>3, <2>1, NextSlot
  <2>3. n <= Slots - 2 /\ n \in Nat
    BY <1>2, <2>2, SlotsAssumption, SMT DEF SlotIds, SlotsInTurn
  <2>4. Stack(n, N) \subseteq Entries
    BY <2>3, SlotsAssumption, SMT DEF Stack, Spacing, N, Entries
  <2> QED  BY <2>1, <2>4 DEF overruns
<1>6. CASE allocate_full
  BY <1>6 DEF allocate_full, EverySecondSlot, all_slots_full, all_unused
<1>7. ASSUME NEW n \in SlotIds, free_user_stack(n)
      PROVE  EverySecondSlot'
  <2>1. UNCHANGED <<id, no_frame, overrun>>
    BY <1>7 DEF free_user_stack
  <2>2. \A i \in Entries : table'[i] = "unused" <=> table[i] = "unused"
    BY <1>2, <1>7 DEF free_user_stack
  <2>3. \A m \in SlotIds : all_unused(m)' <=> all_unused(m)
    BY <2>2 DEF all_unused
  <2>4. SlotsInTurn => SlotsInTurn'
    BY <2>1, <2>2 DEF SlotsInTurn, UsedSlots
  <2> QED  BY <2>1, <2>3, <2>4 DEF EverySecondSlot, all_slots_full
<1>8. ASSUME NEW n \in SlotIds, NEW k \in 0 .. N - 1, allocate_no_frame(n, k)
      PROVE  FALSE
  BY <1>8 DEF allocate_no_frame
<1> QED  BY <1>1, <1>4, <1>5, <1>6, <1>7, <1>8 DEF StacksNext

\* Only a shortage of frames makes the search run off the table: until then every
\* second slot is used, and the last slot is never the first free one.
THEOREM OverrunOnlyAfterNoFrame == StacksSpec => []PanicsOnlyAfterNoFrame
<1>1. EverySecondSlot => PanicsOnlyAfterNoFrame
  BY DEF EverySecondSlot, PanicsOnlyAfterNoFrame
<1> QED  BY <1>1, StacksInductive, TurnStart, TurnStep, PTL DEF StacksSpec
=============================================================================
