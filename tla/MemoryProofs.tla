---------------------------- MODULE MemoryProofs ----------------------------
(***************************************************************************)
(* Proofs about FrameAllocator and AddressSpace, for every memory map,     *)
(* usage map length, heap, program and number of stack slots.              *)
(*                                                                         *)
(* Frames: the three invariants together are inductive, for that no frame  *)
(* has two owners needs the usage map to cover what is held.  The process: *)
(* what a step of a call does to frames, statistics, pages and the rest of *)
(* the call, and the steps of boot and of spawning.  The other steps are   *)
(* in ProcessProofs, the theorems in AddressSpaceProofs.                   *)
(***************************************************************************)
EXTENDS AddressSpace, TLAPS

\* Zenon proves the steps, but for those that cite SMT.
USE Zenon

FInv == FramesTypeOK /\ NoDoubleAllocation /\ UsedIffHeld

\* At boot nothing is allocated.
LEMMA FrameInit == FramesInit => FInv
<1> SUFFICES ASSUME FramesInit PROVE FInv
  OBVIOUS
<1>1. Len(Usable) \in Nat
  BY UsableAssumption, SMT
<1>2. held = [c \in Clients |-> {}] /\ frame_usage = {} /\ next = 0 /\ panicked = FALSE
  BY DEF FramesInit
<1>3. FramesTypeOK
  <2>1. next \in 0 .. Len(Usable)
    BY <1>1, <1>2, SMT
  <2>2. held \in [Clients -> SUBSET Frames]
    BY <1>2
  <2> QED  BY <1>2, <2>1, <2>2 DEF FramesTypeOK
<1>4. \A c \in Clients : held[c] = {}
  BY <1>2
<1>5. NoDoubleAllocation
  BY <1>4 DEF NoDoubleAllocation
<1>6. UsedIffHeld
  BY <1>2, <1>4 DEF UsedIffHeld
<1> QED  BY <1>3, <1>5, <1>6 DEF FInv

\* allocate_frame hands out a frame nobody holds.
LEMMA AllocateInv ==
  ASSUME FInv, NEW c \in Clients, allocate_frame(c)
  PROVE  FInv'
<1> DEFINE f == candidate
<1>1. /\ f \in Frames /\ f \notin frame_usage
      /\ frame_usage' = frame_usage \cup {f}
      /\ held' = [held EXCEPT ![c] = held[c] \cup {f}]
      /\ panicked' = panicked
  BY DEF allocate_frame, has_candidate, is_frame_free, Frames, candidate, Range
<1>2. next' \in 0 .. Len(Usable)
  <2>1. next + 1 \in 1 .. Len(Usable) /\ next' = next + 1 /\ Len(Usable) \in Nat
    BY UsableAssumption, SMT DEF allocate_frame, has_candidate
  <2> QED  BY <2>1, SMT DEF FInv, FramesTypeOK
<1> HIDE DEF f
<1>3. /\ held \in [Clients -> SUBSET Frames]
      /\ frame_usage = UNION {held[d] : d \in Clients}
      /\ \A d, e \in Clients : d # e => held[d] \cap held[e] = {}
  BY DEF FInv, FramesTypeOK, NoDoubleAllocation, UsedIffHeld
<1>4. \A d \in Clients : f \notin held[d]
  BY <1>1, <1>3
<1>5. /\ held' \in [Clients -> SUBSET Frames]
      /\ held'[c] = held[c] \cup {f}
      /\ \A d \in Clients \ {c} : held'[d] = held[d]
  BY <1>1, <1>3
<1>6. FramesTypeOK'
  BY <1>1, <1>2, <1>5 DEF FInv, FramesTypeOK
<1>7. NoDoubleAllocation'
  BY <1>3, <1>4, <1>5, SMT DEF NoDoubleAllocation
<1>8. UsedIffHeld'
  <2>1. \A x : x \in frame_usage' <=> \E d \in Clients : x \in held'[d]
    BY <1>1, <1>3, <1>5, SMT
  <2> QED  BY <2>1 DEF UsedIffHeld
<1> QED  BY <1>6, <1>7, <1>8 DEF FInv

\* deallocate_frame takes a frame from its only owner and from the usage map;
\* an owner never holds a frame the map has no entry for.
LEMMA DeallocateInv ==
  ASSUME FInv, \A f \in frame_usage : f < Limit,
         NEW c \in Clients, NEW f \in Frames, return_frame(c, f)
  PROVE  FInv'
<1>1. /\ held \in [Clients -> SUBSET Frames]
      /\ frame_usage = UNION {held[d] : d \in Clients}
      /\ \A d, e \in Clients : d # e => held[d] \cap held[e] = {}
      /\ next \in 0 .. Len(Usable) /\ Len(Usable) \in Nat
  BY UsableAssumption, SMT DEF FInv, FramesTypeOK, NoDoubleAllocation, UsedIffHeld
<1>2. f \in held[c] /\ f \in frame_usage /\ f < Limit
  BY <1>1 DEF return_frame, deallocate_frame
<1>3. f \in Nat
  <2>1. PICK i \in DOMAIN Usable : f = Usable[i]
    BY DEF Frames, Range
  <2> QED  BY <2>1, UsableAssumption, SMT
<1>4. /\ held' = [held EXCEPT ![c] = held[c] \ {f}]
      /\ frame_usage' = frame_usage \ {f}
      /\ next' = (IF f < next THEN f ELSE next)
      /\ panicked' = panicked
  BY <1>2 DEF return_frame, deallocate_frame
<1>5. next' \in 0 .. Len(Usable)
  BY <1>1, <1>3, <1>4, SMT
<1>6. /\ held' \in [Clients -> SUBSET Frames]
      /\ held'[c] = held[c] \ {f}
      /\ \A d \in Clients \ {c} : held'[d] = held[d] /\ f \notin held[d]
  BY <1>1, <1>2, <1>4
<1>7. FramesTypeOK'
  BY <1>4, <1>5, <1>6 DEF FInv, FramesTypeOK
<1>8. NoDoubleAllocation'
  BY <1>1, <1>6 DEF NoDoubleAllocation
<1>9. UsedIffHeld'
  <2>1. \A x : x \in frame_usage' <=> \E d \in Clients : x \in held'[d]
    BY <1>1, <1>4, <1>6, SMT
  <2> QED  BY <2>1 DEF UsedIffHeld
<1> QED  BY <1>7, <1>8, <1>9 DEF FInv

\* Every frame marked as used has an entry in the usage map.
InBounds == \A f \in frame_usage : f < Limit

\* Every call of the allocator keeps the invariant.
LEMMA FrameNext == FInv /\ InBounds /\ [FramesNext]_frame_vars => FInv' /\ InBounds'
<1> SUFFICES ASSUME FInv, InBounds, [FramesNext]_frame_vars PROVE FInv' /\ InBounds'
  OBVIOUS
<1>1. CASE UNCHANGED frame_vars
  BY <1>1 DEF frame_vars, FInv, FramesTypeOK, NoDoubleAllocation, UsedIffHeld, InBounds
<1>2. ASSUME NEW c \in Clients, allocate_frame(c)
      PROVE  FInv' /\ InBounds'
  <2>1. InBounds'
    BY <1>2 DEF allocate_frame, InBounds
  <2> QED  BY <1>2, <2>1, AllocateInv
<1>3. CASE allocate_none
  BY <1>1, <1>3 DEF allocate_none
<1>4. CASE allocate_panic
  BY <1>4
  DEF allocate_panic, FInv, FramesTypeOK, NoDoubleAllocation, UsedIffHeld, InBounds
<1>5. ASSUME NEW c \in Clients, NEW f \in Frames, return_frame(c, f)
      PROVE  FInv' /\ InBounds'
  <2>1. InBounds'
    BY <1>5 DEF return_frame, deallocate_frame, InBounds
  <2> QED  BY <1>5, <2>1, DeallocateInv DEF InBounds
<1> QED  BY <1>1, <1>2, <1>3, <1>4, <1>5 DEF FramesNext

\* The invariant holds in every reachable state of the allocator.
THEOREM FramesInductive == FramesSpec => [](FInv /\ InBounds)
<1>1. FramesInit => InBounds
  BY DEF FramesInit, InBounds
<1> QED  BY <1>1, FrameInit, FrameNext, PTL DEF FramesSpec

\* `next` stays within the memory map and the other variables keep their types.
THEOREM FramesTypeCorrect == FramesSpec => []FramesTypeOK
<1>1. FInv => FramesTypeOK
  BY DEF FInv
<1> QED  BY <1>1, FramesInductive, PTL

\* No frame is ever owned twice.
THEOREM FramesHeldOnce == FramesSpec => []NoDoubleAllocation
<1>1. FInv => NoDoubleAllocation
  BY DEF FInv
<1> QED  BY <1>1, FramesInductive, PTL

\* A frame is marked as used exactly while it has an owner.
THEOREM UsageExact == FramesSpec => []UsedIffHeld
<1>1. FInv => UsedIffHeld
  BY DEF FInv
<1> QED  BY <1>1, FramesInductive, PTL

-----------------------------------------------------------------------------
(* The address space of the process: what the steps of its calls do to the   *)
(* sequence of steps, to frames and statistics, and to its pages.            *)

\* What the steps need to know of cardinalities: frames can be counted one by one,
\* and there are fewer of them than the counters can count.  It follows from the
\* assumptions on the constants (FramesCount in AddressSpaceProofs).
FramesCounted ==
  /\ Cardinality({}) = 0
  /\ \A F \in SUBSET Frames :
       /\ Cardinality(F) \in Nat /\ Cardinality(F) < W
       /\ \A f \in F : Cardinality(F) = Cardinality(F \ {f}) + 1

AInv == FInv /\ InBounds /\ FramesCounted /\ ProcessInv

-----------------------------------------------------------------------------
(* Sequences of steps. *)

\* Remainders of numbers less than one modulus away from the range.
LEMMA Wrap ==
  ASSUME NEW M \in Nat, M > 0, NEW a \in 0 .. M - 1
  PROVE  a % M = a /\ (a - M) % M = a /\ (a + M) % M = a
<1>1. a % M = a
  BY SMT
<1>2. (a - M) % M = a
  BY SMT
<1>3. (a + M) % M = a
  BY SMT
<1> QED  BY <1>1, <1>2, <1>3

\* The steps of one sequence followed by those of another.
LEMMA Joined ==
  ASSUME NEW S, NEW s \in Seq(S), NEW t \in Seq(S)
  PROVE  /\ s \o t \in Seq(S) /\ Len(s \o t) = Len(s) + Len(t)
         /\ \A i \in 1 .. Len(s) + Len(t) :
              (s \o t)[i] = IF i <= Len(s) THEN s[i] ELSE t[i - Len(s)]
  BY SMT

\* What is left after the first step.
LEMMA Pop ==
  ASSUME NEW S, NEW s \in Seq(S), s # <<>>
  PROVE  /\ Tail(s) \in Seq(S) /\ Len(Tail(s)) = Len(s) - 1 /\ Head(s) = s[1] /\ s[1] \in S
         /\ Len(s) \in Nat /\ Len(s) >= 1 /\ DOMAIN s = 1 .. Len(s)
         /\ DOMAIN Tail(s) = 1 .. Len(s) - 1
         /\ \A i \in 1 .. Len(s) - 1 : Tail(s)[i] = s[i + 1]
<1>1. Len(s) \in Nat /\ DOMAIN s = 1 .. Len(s) /\ Len(s) # 0
  BY SMT
<1>2. Tail(s) \in Seq(S) /\ Len(Tail(s)) = Len(s) - 1 /\ Head(s) = s[1]
  BY <1>1, SMT
<1>3. \A i \in 1 .. Len(s) - 1 : Tail(s)[i] = s[i + 1]
  BY <1>1, SMT
<1>4. DOMAIN Tail(s) = 1 .. Len(s) - 1
  BY <1>1, <1>2, SMT
<1>5. s[1] \in S
  BY <1>1, SMT
<1> QED  BY <1>1, <1>2, <1>3, <1>4, <1>5, SMT

\* The first step is replaced.
LEMMA Replace ==
  ASSUME NEW S, NEW s \in Seq(S), s # <<>>, NEW x \in S
  PROVE  LET t == << x >> \o Tail(s)
         IN  /\ t \in Seq(S) /\ Len(t) = Len(s) /\ t # <<>> /\ t[1] = x
             /\ DOMAIN t = DOMAIN s
             /\ \A i \in 2 .. Len(s) : t[i] = s[i]
<1> DEFINE t == << x >> \o Tail(s)
<1>1. /\ Tail(s) \in Seq(S) /\ Len(Tail(s)) = Len(s) - 1
      /\ Len(s) \in Nat /\ Len(s) >= 1 /\ DOMAIN s = 1 .. Len(s)
      /\ \A i \in 1 .. Len(s) - 1 : Tail(s)[i] = s[i + 1]
  BY Pop
<1>2. << x >> \in Seq(S) /\ Len(<< x >>) = 1
  BY SMT
<1>3. t \in Seq(S) /\ Len(t) = Len(s)
  BY <1>1, <1>2, Joined, SMT
<1>4. t[1] = x
  BY <1>1, <1>2, Joined, SMT
<1>5. ASSUME NEW i \in 2 .. Len(s) PROVE t[i] = s[i]
  <2>1. i \in 1 .. Len(<< x >>) + Len(Tail(s)) /\ ~(i <= Len(<< x >>)) /\ i - 1 \in 1 .. Len(s) - 1
    BY <1>1, <1>2, <1>5, SMT
  <2>2. t[i] = Tail(s)[i - 1]
    BY <1>1, <1>2, <2>1, Joined, SMT
  <2> QED  BY <1>1, <1>5, <2>1, <2>2, SMT
<1>6. DOMAIN t = 1 .. Len(s) /\ t # <<>>
  BY <1>1, <1>3, SMT
<1> QED  BY <1>1, <1>3, <1>4, <1>5, <1>6

\* Copies of one step.
LEMMA Repeats ==
  ASSUME NEW S, NEW x \in S, NEW k \in Nat
  PROVE  /\ Repeat(k, x) \in Seq(S) /\ Len(Repeat(k, x)) = k
         /\ \A i \in 1 .. k : Repeat(k, x)[i] = x
  BY SMT DEF Repeat

\* The steps that build a stack.
LEMMA StackPages ==
  ASSUME NEW n \in SlotIds, Stack(n, N) \subseteq Entries, NEW k \in 0 .. N
  PROVE  LET s == stack_pages(n, k)
         IN  /\ s \in Seq(CallSteps) /\ Len(s) = k + 1 /\ s # <<>>
             /\ s[Len(s)] = <<"thread", n>>
             /\ \A i \in 1 .. k : s[i] = <<"stack", Spacing * n + N - k + i>>
             /\ k = 0 => Head(s) = <<"thread", n>> /\ Tail(s) = <<>>
             /\ k > 0 => /\ Head(s) = <<"stack", Spacing * n + N - k + 1>>
                         /\ Tail(s) = stack_pages(n, k - 1)
<1> DEFINE e(j, i) == <<"stack", Spacing * n + N - j + i>>
           p(j) == [i \in 1 .. j |-> e(j, i)]
           th == <<"thread", n>>
<1>1. th \in CallSteps /\ << th >> \in Seq(CallSteps) /\ Len(<< th >>) = 1
  BY SMT DEF CallSteps
<1>2. ASSUME NEW j \in 0 .. N
      PROVE  /\ p(j) \in Seq(CallSteps) /\ Len(p(j)) = j
             /\ p(j) \o << th >> \in Seq(CallSteps) /\ Len(p(j) \o << th >>) = j + 1
             /\ \A i \in 1 .. j : (p(j) \o << th >>)[i] = e(j, i)
             /\ (p(j) \o << th >>)[j + 1] = th
  <2>1. j \in Nat /\ n \in Nat
    BY SlotsAssumption, SMT DEF N, SlotIds
  <2>2. \A i \in 1 .. j : e(j, i) \in CallSteps
    <3>1. \A i \in 1 .. j : Spacing * n + N - j + i \in Stack(n, N)
      BY <2>1, SMT DEF Stack, N, Spacing
    <3> QED  BY <3>1 DEF CallSteps
  <2>3. p(j) \in Seq(CallSteps) /\ Len(p(j)) = j /\ \A i \in 1 .. j : p(j)[i] = e(j, i)
    BY <2>1, <2>2, SMT
  <2> HIDE DEF p, th
  <2>4. p(j) \o << th >> \in Seq(CallSteps) /\ Len(p(j) \o << th >>) = j + 1
    BY <1>1, <2>1, <2>3, Joined, SMT
  <2>5. \A i \in 1 .. j : (p(j) \o << th >>)[i] = e(j, i)
    BY <1>1, <2>1, <2>3, Joined, SMT
  <2>6. (p(j) \o << th >>)[j + 1] = th
    BY <1>1, <2>1, <2>3, Joined, SMT
  <2> QED  BY <2>3, <2>4, <2>5, <2>6
<1>3. stack_pages(n, k) = p(k) \o << th >>
  BY DEF stack_pages
<1> HIDE DEF e, p, th
<1>4. CASE k = 0
  <2>1. 0 \in 0 .. N
    BY SMT DEF N
  <2>2. /\ stack_pages(n, k) \in Seq(CallSteps) /\ Len(stack_pages(n, k)) = 1
        /\ stack_pages(n, k)[1] = th
    BY <1>2, <1>3, <1>4, <2>1, SMT
  <2> QED  BY <1>4, <2>2, SMT DEF th
<1>5. CASE k > 0
  <2>1. k - 1 \in 0 .. N /\ k \in Nat /\ n \in Nat
    BY <1>5, SlotsAssumption, SMT DEF N, SlotIds
  <2>2. stack_pages(n, k - 1) = p(k - 1) \o << th >>
    BY DEF stack_pages, p, e, th
  <2> DEFINE s == p(k) \o << th >>
             t == p(k - 1) \o << th >>
  <2>3. /\ t \in Seq(CallSteps) /\ Len(t) = k /\ t[k] = th
        /\ \A i \in 1 .. k - 1 : t[i] = e(k - 1, i)
    BY <1>2, <2>1, SMT
  <2>4. /\ s \in Seq(CallSteps) /\ Len(s) = k + 1 /\ s[k + 1] = th
        /\ \A i \in 1 .. k : s[i] = e(k, i)
    BY <1>2
  <2>5. \A i \in 1 .. k - 1 : e(k, i + 1) = e(k - 1, i)
    BY <2>1, SMT DEF e, N, Spacing
  <2> HIDE DEF s, t
  <2>6. Tail(s) \in Seq(CallSteps) /\ Len(Tail(s)) = k /\ \A i \in 1 .. k : Tail(s)[i] = s[i + 1]
    BY <2>1, <2>4, SMT
  <2>7. \A i \in 1 .. k : Tail(s)[i] = t[i]
    BY <2>1, <2>3, <2>4, <2>5, <2>6, SMT
  <2>8. Tail(s) = t
    BY <2>1, <2>3, <2>6, <2>7, SMT
  <2>9. /\ stack_pages(n, k) = s /\ stack_pages(n, k - 1) = t /\ Head(s) = s[1] /\ s # <<>>
        /\ s[1] = e(k, 1) /\ ~(k = 0)
    BY <1>3, <1>5, <2>1, <2>2, <2>4, SMTT(30) DEF s, t
  <2> QED  BY <1>5, <2>1, <2>4, <2>8, <2>9 DEF e, th
<1> QED  BY <1>4, <1>5, SMT DEF N

\* The steps of spawning.
LEMMA SpawnStepForms ==
  ASSUME NEW o \in SpawnSteps
  PROVE  /\ o[1] \in {"table", "frame", "outside", "search", "map", "load"}
         /\ o[1] = "search" => o = <<"search">>
         /\ o[1] = "frame" => o = <<"frame">>
         /\ o[1] = "map" => o[2] \in HeapPages \cup ProgramPages /\ o[3] \in Nat
         /\ o[1] = "load" => o[2] \in ProgramPages /\ o[3] \in Nat
  BY SMT DEF SpawnSteps

\* A stack under construction, in either phase.
StackStep(n, k) ==
  /\ n \in SlotIds /\ k \in 0 .. N /\ Stack(n, N) \subseteq Entries
  /\ todo = stack_pages(n, k)
  /\ IF op = "stack"
     THEN k > 0 /\ arg = Spacing * n + N - k + 1 /\ Tail(todo) = stack_pages(n, k - 1)
     ELSE k = 0 /\ arg = n /\ Tail(todo) = <<>>
  /\ \/ phase = "spawn" /\ n = 4 /\ NoStack(N - k) /\ id = 4 /\ frame = None
     \/ phase = "fork" /\ HalfStack(n, k)

\* The first stack fits into the table.
LEMMA FirstFits == 4 \in SlotIds /\ Stack(4, N) \subseteq Entries
  BY SlotsAssumption, SMT DEF SlotIds, Stack, Spacing, N, Entries

\* The next step tells the phase.
LEMMA HeadPhase ==
  ASSUME Progress, todo # <<>>
  PROVE  /\ op = "kernel" => phase = "boot" /\ Len(todo) > 1
         /\ op = "total" => phase = "boot" /\ Len(todo) = 1
         /\ op \in {"table", "frame", "load", "map", "outside"} =>
              phase = "spawn" /\ Building /\ NoStack(0) /\ id = 3 /\ Len(todo) > 1
         /\ op = "search" =>
              /\ Len(todo) = 1
              /\ \/ phase = "spawn" /\ NoStack(0) /\ id = 3 /\ todo[1][1] # "map"
                 \/ phase = "fork" /\ todo = << <<"search">> >>
         /\ op \in {"stack", "thread"} => \E n, k : StackStep(n, k)
         /\ op \in {"unmap", "drop"} => phase = "exit"
         /\ op = "unmap" => Len(todo) > 1 /\ arg \in Entries
         /\ op = "drop" => Len(todo) = 1
<1>1. /\ todo \in Seq(CallSteps) /\ Head(todo) = todo[1] /\ 1 \in DOMAIN todo
      /\ Len(todo) \in Nat /\ Len(todo) >= 1 /\ op = todo[1][1] /\ arg = todo[1][2]
      /\ phase \in {"boot", "spawn", "fork", "exit"}
  BY Pop, SMT DEF Progress, op, arg
<1>0. (Len(todo) = 1 \/ Len(todo) > 1) /\ op = todo[1][1]
  <2>1. \A m \in Nat : m >= 1 => m = 1 \/ m > 1
    BY SMT
  <2> QED  BY <1>1, <2>1
<1>2. CASE phase = "boot"
  <2>1. todo[1] = IF 1 = Len(todo) THEN <<"total">> ELSE <<"kernel">>
    BY <1>1, <1>2 DEF Progress
  <2>2. IF Len(todo) = 1 THEN op = "total" ELSE op = "kernel"
    BY <1>1, <2>1, SMT
  <2> QED  BY <1>0, <1>2, <2>2
<1>3. ASSUME phase = "spawn", Building, NoStack(0), id = 3
      PROVE  /\ op \in {"table", "frame", "outside", "search", "map", "load"}
             /\ op = "search" <=> Len(todo) = 1
  <2>1. todo[1] \in SpawnSteps /\ (todo[1] = <<"search">> <=> Len(todo) = 1)
    BY <1>1, <1>3, SMT DEF Building
  <2> QED  BY <1>1, <2>1, SpawnStepForms, SMT
<1>4. ASSUME NEW n \in SlotIds, NEW k \in 0 .. N, Stack(n, N) \subseteq Entries,
             todo = stack_pages(n, k)
      PROVE  /\ op \in {"stack", "thread"}
             /\ IF op = "stack"
                THEN k > 0 /\ arg = Spacing * n + N - k + 1 /\ Tail(todo) = stack_pages(n, k - 1)
                ELSE k = 0 /\ arg = n /\ Tail(todo) = <<>>
  <2>1. CASE k = 0
    <3>1. Head(todo) = <<"thread", n>> /\ Tail(todo) = <<>>
      BY <1>4, <2>1, StackPages
    <3> QED  BY <2>1, <3>1, SMT DEF op, arg
  <2>2. CASE k > 0
    <3>1. Head(todo) = <<"stack", Spacing * n + N - k + 1>> /\ Tail(todo) = stack_pages(n, k - 1)
      BY <1>4, <2>2, StackPages
    <3> QED  BY <2>2, <3>1, SMT DEF op, arg
  <2> QED  BY <2>1, <2>2, SMT DEF N
<1>5. CASE phase = "spawn" /\ Building /\ NoStack(0) /\ id = 3
  <2>1. /\ op \in {"table", "frame", "outside", "search", "map", "load"}
        /\ op = "search" <=> Len(todo) = 1
    BY <1>3, <1>5
  <2> QED  BY <1>0, <1>5, <2>1
<1>6. ASSUME phase = "spawn", NEW k \in 0 .. N,
             todo = stack_pages(4, k), NoStack(N - k), id = 4, frame = None
      PROVE  op \in {"stack", "thread"} /\ StackStep(4, k)
  BY <1>4, <1>6, FirstFits DEF StackStep
<1>7. ASSUME phase = "fork", NEW n \in SlotIds, NEW k \in 0 .. N, HalfStack(n, k)
      PROVE  op \in {"stack", "thread"} /\ StackStep(n, k)
  BY <1>4, <1>7 DEF StackStep, HalfStack
<1>8. CASE phase = "fork" /\ todo = << <<"search">> >>
  <2>1. op = "search" /\ Len(todo) = 1
    BY <1>1, <1>8
  <2> QED  BY <1>8, <2>1
<1>9. CASE phase = "exit"
  <2>1. IF 1 = Len(todo) THEN todo[1] = <<"drop">> ELSE todo[1] \in {"unmap"} \X Entries
    BY <1>1, <1>9 DEF Progress
  <2>2. IF Len(todo) = 1 THEN op = "drop" ELSE op = "unmap" /\ arg \in Entries
    BY <1>1, <2>1, SMT
  <2> QED  BY <1>0, <1>9, <2>2
<1> QED  BY <1>1, <1>2, <1>5, <1>6, <1>7, <1>8, <1>9 DEF Progress

-----------------------------------------------------------------------------
(* Frames and statistics. *)

\* What the invariant says of frames.
LEMMA FrameFacts ==
  ASSUME AInv
  PROVE  /\ Kernel \in Clients /\ Process \in Clients /\ Clients \ {Process} = {Kernel}
         /\ held \in [Clients -> SUBSET Frames]
         /\ frame_usage = held[Kernel] \cup held[Process]
         /\ held[Kernel] \cap held[Process] = {}
         /\ \A f \in Frames : f \in Nat /\ f # None
<1>1. /\ Kernel \in Clients /\ Process \in Clients /\ Clients \ {Process} = {Kernel}
      /\ Kernel # Process
  BY ClientsAssumption DEF Kernel, Process
<1>2. held \in [Clients -> SUBSET Frames]
  BY DEF AInv, FInv, FramesTypeOK
<1>3. held[Kernel] \cap held[Process] = {}
  BY <1>1 DEF AInv, FInv, NoDoubleAllocation
<1>4. frame_usage = held[Kernel] \cup held[Process]
  <2>1. frame_usage = UNION {held[c] : c \in Clients}
    BY DEF AInv, FInv, UsedIffHeld
  <2> QED  BY <2>1, ClientsAssumption
<1>5. \A f \in Frames : f \in Nat /\ f # None
  BY UsableAssumption, NoneAssumption, SMT DEF Frames, Range
<1> QED  BY <1>1, <1>2, <1>3, <1>4, <1>5

\* A frame is taken.
LEMMA Taken ==
  ASSUME AInv, ~panicked, NEW c \in Clients, allocate_frame(c)
  PROVE  /\ FramesNext /\ FInv' /\ InBounds' /\ panicked' = panicked
         /\ candidate \in Frames /\ candidate # None
         /\ candidate \notin frame_usage /\ candidate \notin held[Process]
         /\ frame_usage' = frame_usage \cup {candidate}
         /\ held'[c] = held[c] \cup {candidate}
         /\ \A d \in Clients \ {c} : held'[d] = held[d]
<1>1. FramesNext
  BY DEF FramesNext
<1>2. FInv' /\ InBounds'
  BY <1>1, FrameNext DEF AInv
<1>3. candidate \in Frames
  BY DEF allocate_frame, has_candidate, candidate, Frames, Range
<1>4. /\ candidate \notin frame_usage /\ frame_usage' = frame_usage \cup {candidate}
      /\ held' = [held EXCEPT ![c] = @ \cup {candidate}] /\ panicked' = panicked
  BY DEF allocate_frame, is_frame_free
<1> HIDE DEF candidate
<1> QED  BY <1>1, <1>2, <1>3, <1>4, FrameFacts

\* The process returns a frame it holds.
LEMMA Returned ==
  ASSUME AInv, ~panicked, NEW f \in held[Process], deallocate_frame(f),
         held' = [held EXCEPT ![Process] = @ \ {f}], panicked' = panicked
  PROVE  /\ FramesNext /\ FInv' /\ InBounds'
         /\ frame_usage' = frame_usage \ {f} /\ f \in frame_usage
         /\ held'[Process] = held[Process] \ {f} /\ held'[Kernel] = held[Kernel]
         /\ next' <= f /\ next' <= next
<1>1. f \in Frames /\ Process \in Clients /\ f \in Nat /\ f \in frame_usage
  BY FrameFacts
<1>2. f < Limit
  BY <1>1 DEF AInv, InBounds
<1>3. FramesNext
  BY <1>1 DEF FramesNext, return_frame
<1>4. FInv' /\ InBounds'
  BY <1>3, FrameNext DEF AInv
<1>5. held'[Process] = held[Process] \ {f} /\ held'[Kernel] = held[Kernel]
  BY FrameFacts DEF Kernel, Process
<1>6. next \in Nat
  BY UsableAssumption, SMT DEF AInv, FInv, FramesTypeOK
<1>7. frame_usage' = frame_usage \ {f} /\ next' = IF f < next THEN f ELSE next
  BY <1>2 DEF deallocate_frame
<1> QED  BY <1>1, <1>3, <1>4, <1>5, <1>6, <1>7, SMT

\* Returning a frame that is free and not below `next` changes nothing.
LEMMA ReturnedAgain ==
  ASSUME AInv, NEW f \in Frames, f \notin frame_usage, next <= f, deallocate_frame(f),
         held' = [held EXCEPT ![Process] = @ \ {f}], panicked' = panicked
  PROVE  UNCHANGED frame_vars
<1>1. f \notin held[Process] /\ Process \in Clients /\ held \in [Clients -> SUBSET Frames] /\ f \in Nat
  BY FrameFacts
<1>2. held' = held
  BY <1>1
<1>3. next \in Nat
  BY UsableAssumption, SMT DEF AInv, FInv, FramesTypeOK
<1>4. frame_usage' = frame_usage /\ next' = next
  BY <1>1, <1>3, SMT DEF deallocate_frame
<1> QED  BY <1>2, <1>4 DEF frame_vars

\* The counters wrap around, and their sum modulo W stays.
LEMMA Counters ==
  ASSUME NEW u \in 0 .. W - 1, NEW v \in 0 .. W - 1
  PROVE  /\ (u + 1) % W \in 0 .. W - 1 /\ (u - 1) % W \in 0 .. W - 1
         /\ u + 1 < W => (u + 1) % W = u + 1
         /\ u > 0 => (u - 1) % W = u - 1
         /\ (((u + 1) % W) + ((v - 1) % W)) % W = (u + v) % W
<1>1. W \in Nat /\ W > 0
  BY WidthAssumption, SMT
<1>2. \A a \in 0 .. W - 1 : (a + 1) % W = IF a = W - 1 THEN 0 ELSE a + 1
  <2> SUFFICES ASSUME NEW a \in 0 .. W - 1
               PROVE  (a + 1) % W = IF a = W - 1 THEN 0 ELSE a + 1
    OBVIOUS
  <2>1. CASE a = W - 1
    <3>1. (0 + W) % W = 0
      BY <1>1, Wrap, SMT
    <3> QED  BY <1>1, <2>1, <3>1, SMT
  <2>2. CASE a # W - 1
    <3>1. a + 1 \in 0 .. W - 1
      BY <1>1, <2>2, SMT
    <3> QED  BY <1>1, <2>2, <3>1, Wrap
  <2> QED  BY <2>1, <2>2
<1>3. \A a \in 0 .. W - 1 : (a - 1) % W = IF a = 0 THEN W - 1 ELSE a - 1
  <2> SUFFICES ASSUME NEW a \in 0 .. W - 1
               PROVE  (a - 1) % W = IF a = 0 THEN W - 1 ELSE a - 1
    OBVIOUS
  <2>1. CASE a = 0
    <3>1. ((W - 1) - W) % W = W - 1
      BY <1>1, Wrap, SMT
    <3> QED  BY <1>1, <2>1, <3>1, SMT
  <2>2. CASE a # 0
    <3>1. a - 1 \in 0 .. W - 1
      BY <1>1, <2>2, SMT
    <3> QED  BY <1>1, <2>2, <3>1, Wrap
  <2> QED  BY <2>1, <2>2
<1>4. \A a \in 0 .. W - 1 : (a + W) % W = a % W
  BY <1>1, Wrap
<1>5. (((u + 1) % W) + ((v - 1) % W)) % W = (u + v) % W
  <2>1. CASE u = W - 1 /\ v = 0
    BY <1>1, <1>2, <1>3, <2>1, SMT
  <2>2. CASE u = W - 1 /\ v > 0
    <3>1. v - 1 \in 0 .. W - 1 /\ u + v = (v - 1) + W
      BY <1>1, <2>2, SMT
    <3>2. (u + 1) % W = 0 /\ (v - 1) % W = v - 1
      BY <1>1, <1>2, <1>3, <2>2, SMT
    <3>3. (u + v) % W = (v - 1) % W
      BY <1>4, <3>1
    <3>4. 0 + (v - 1) = v - 1
      BY <1>1, SMT
    <3> QED  BY <3>2, <3>3, <3>4
  <2>3. CASE u < W - 1 /\ v = 0
    <3>1. u \in 0 .. W - 1 /\ (u + 1) + (W - 1) = u + W
      BY <1>1, SMT
    <3>2. (u + 1) % W = u + 1 /\ (v - 1) % W = W - 1
      BY <1>1, <1>2, <1>3, <2>3, SMT
    <3>3. u + v = u
      BY <1>1, <2>3, SMT
    <3> QED  BY <1>4, <3>1, <3>2, <3>3
  <2>4. CASE u < W - 1 /\ v > 0
    <3>1. (u + 1) % W = u + 1 /\ (v - 1) % W = v - 1 /\ (u + 1) + (v - 1) = u + v
      BY <1>1, <1>2, <1>3, <2>4, SMT
    <3> QED  BY <3>1
  <2> QED  BY <1>1, <2>1, <2>2, <2>3, <2>4, SMT
<1> QED  BY <1>1, <1>2, <1>3, <1>5, SMT

\* The types of the counters.
CountersOK == {used_memory, free_memory} \subseteq 0 .. W - 1

\* log_allocation counts the frame that was taken.
LEMMA LogTaken ==
  ASSUME AInv, ~panicked, NEW c \in Clients, allocate_frame(c), log_allocation, phase' = phase,
         phase \notin {"teardown", "gone"}, c = Kernel => phase = "boot"
  PROVE  LoggerConsistent' /\ CountersOK'
<1>1. CountersOK /\ LoggerConsistent
  BY DEF AInv, ProcessInv, TypeOK, CountersOK
<1>2. /\ candidate \in Frames /\ candidate \notin frame_usage
      /\ frame_usage' = frame_usage \cup {candidate}
      /\ c # Kernel => held'[Kernel] = held[Kernel]
  BY Taken, FrameFacts
<1>3. frame_usage \subseteq Frames /\ frame_usage' \subseteq Frames
  BY <1>2 DEF AInv, FInv, FramesTypeOK
<1> HIDE DEF candidate
<1>4. Cardinality(frame_usage') = Cardinality(frame_usage) + 1 /\ Cardinality(frame_usage') < W
  <2>1. candidate \in frame_usage' /\ frame_usage' \ {candidate} = frame_usage
    BY <1>2
  <2> QED  BY <1>3, <2>1 DEF AInv, FramesCounted
<1>5. used_memory \in 0 .. W - 1 /\ free_memory \in 0 .. W - 1
  BY <1>1 DEF CountersOK
<1>6. /\ used_memory' = (used_memory + 1) % W /\ free_memory' = (free_memory - 1) % W
  BY DEF log_allocation
<1>7. /\ used_memory' \in 0 .. W - 1 /\ free_memory' \in 0 .. W - 1
      /\ used_memory + 1 < W => used_memory' = used_memory + 1
      /\ (used_memory' + free_memory') % W = (used_memory + free_memory) % W
  BY <1>5, <1>6, Counters
<1>8. used_memory' = Cardinality(frame_usage')
  BY <1>1, <1>4, <1>7 DEF LoggerConsistent
<1>9. phase' \notin {"boot", "stopped"} =>
        (used_memory' + free_memory') % W = (TotalMemory + Cardinality(held'[Kernel])) % W
  BY <1>1, <1>2, <1>7 DEF LoggerConsistent
<1> QED  BY <1>7, <1>8, <1>9 DEF LoggerConsistent, CountersOK

\* log_deallocation counts a returned frame, also one that is returned again.
LEMMA LogReturned ==
  ASSUME AInv, NEW f \in Frames, log_deallocation, phase \notin {"boot", "stopped"},
         held'[Kernel] = held[Kernel],
         \/ phase' = phase /\ f \in frame_usage /\ frame_usage' = frame_usage \ {f}
         \/ phase' \in {"teardown", "gone"}
  PROVE  LoggerConsistent' /\ CountersOK'
<1>1. CountersOK /\ LoggerConsistent
  BY DEF AInv, ProcessInv, TypeOK, CountersOK
<1>2. used_memory \in 0 .. W - 1 /\ free_memory \in 0 .. W - 1
  BY <1>1 DEF CountersOK
<1>3. used_memory' = (used_memory - 1) % W /\ free_memory' = (free_memory + 1) % W
  BY DEF log_deallocation
<1>4. /\ used_memory' \in 0 .. W - 1 /\ free_memory' \in 0 .. W - 1
      /\ used_memory > 0 => used_memory' = used_memory - 1
      /\ (free_memory' + used_memory') % W = (free_memory + used_memory) % W
  BY <1>2, <1>3, Counters
<1>5. free_memory' + used_memory' = used_memory' + free_memory'
      /\ free_memory + used_memory = used_memory + free_memory
  BY <1>2, <1>4, WidthAssumption, SMT
<1>6. (used_memory' + free_memory') % W = (TotalMemory + Cardinality(held'[Kernel])) % W
  BY <1>1, <1>4, <1>5 DEF LoggerConsistent
<1>7. ASSUME phase' \notin {"teardown", "gone"}
      PROVE  used_memory' = Cardinality(frame_usage')
  <2>1. phase' = phase /\ f \in frame_usage /\ frame_usage' = frame_usage \ {f}
    BY <1>7
  <2>2. frame_usage \subseteq Frames /\ used_memory = Cardinality(frame_usage)
    BY <1>1, <1>7, <2>1 DEF AInv, FInv, FramesTypeOK, LoggerConsistent
  <2>3. Cardinality(frame_usage') \in Nat /\ Cardinality(frame_usage) = Cardinality(frame_usage') + 1
    BY <2>1, <2>2 DEF AInv, FramesCounted
  <2>4. used_memory > 0
    BY <2>2, <2>3, SMT
  <2>5. used_memory' = used_memory - 1
    BY <1>4, <2>4
  <2> QED  BY <2>2, <2>3, <2>5, SMT
<1> QED  BY <1>4, <1>6, <1>7 DEF LoggerConsistent, CountersOK

\* Nothing to count.
LEMMA LogKept ==
  ASSUME AInv, log_nothing, UNCHANGED <<frame_usage, held>>,
         phase \in {"boot", "stopped"} => phase' \in {"boot", "stopped"},
         phase \in {"teardown", "gone"} => phase' \in {"teardown", "gone"}
  PROVE  LoggerConsistent' /\ CountersOK'
<1>1. CountersOK /\ LoggerConsistent
  BY DEF AInv, ProcessInv, TypeOK, CountersOK
<1>2. UNCHANGED <<used_memory, free_memory, frame_usage, held>>
  BY DEF log_nothing
<1> QED  BY <1>1, <1>2 DEF LoggerConsistent, CountersOK

-----------------------------------------------------------------------------
(* Pages and page tables. *)

\* The part of the invariant that says where the process's frames are.
PagesInv ==
  /\ tables \in Seq(Frames) /\ leaf \in [Pages -> Frames \cup {None}]
  /\ frame \in Frames \cup {None}
  /\ HeldReachable /\ TablesNotMapped /\ IsInjective(tables)
  /\ FreedTwice
  /\ phase = "gone" => tables = <<>> /\ MappedPages = {}
  /\ phase \notin {"teardown", "gone"} =>
       \A i \in Entries : table[i] = "mapped" <=> leaf[<<"stack", i>>] # None

\* The kinds of pages.
LEMMA PageKinds ==
  /\ HeapPages \subseteq Pages /\ ProgramPages \subseteq Pages
  /\ \A p \in HeapPages : p[1] = "heap"
  /\ \A p \in Pages : p[1] = "heap" => p \in HeapPages
  /\ \A p \in ProgramPages : p[1] = "code"
  /\ \A i \in Entries : <<"stack", i>> \in Pages /\ <<"stack", i>>[1] = "stack"
  /\ \A i \in Entries : <<"stack", i>> \notin HeapPages \cup ProgramPages
  BY DEF Pages, HeapPages, ProgramPages

\* A page is mapped.
LEMMA MapPage ==
  ASSUME leaf \in [Pages -> Frames \cup {None}], NEW p \in Pages, leaf[p] = None,
         NEW f \in Frames, f # None, leaf' = [leaf EXCEPT ![p] = f]
  PROVE  /\ leaf' \in [Pages -> Frames \cup {None}] /\ leaf'[p] = f
         /\ MappedPages' = MappedPages \cup {p} /\ Mapped' = Mapped \cup {f}
         /\ \A q \in Pages \ {p} : leaf'[q] = leaf[q]
<1>1. leaf' \in [Pages -> Frames \cup {None}] /\ leaf'[p] = f /\ \A q \in Pages \ {p} : leaf'[q] = leaf[q]
  OBVIOUS
<1>2. MappedPages' = MappedPages \cup {p}
  BY <1>1 DEF MappedPages
<1>3. \A q \in MappedPages : leaf'[q] = leaf[q] /\ q \in Pages
  BY <1>1 DEF MappedPages
<1>4. Mapped' = Mapped \cup {f}
  BY <1>1, <1>2, <1>3, ZenonT(30) DEF Mapped
<1> QED  BY <1>1, <1>2, <1>4

\* A page is unmapped.
LEMMA UnmapPage ==
  ASSUME leaf \in [Pages -> Frames \cup {None}], NEW p \in MappedPages,
         leaf' = [leaf EXCEPT ![p] = None]
  PROVE  /\ leaf' \in [Pages -> Frames \cup {None}]
         /\ MappedPages' = MappedPages \ {p}
         /\ Mapped' \subseteq Mapped /\ Mapped \subseteq Mapped' \cup {leaf[p]}
         /\ leaf[p] \in Mapped /\ leaf[p] \in Frames /\ p \in Pages
         /\ leaf'[p] = None /\ \A q \in Pages \ {p} : leaf'[q] = leaf[q]
<1>1. p \in Pages /\ leaf[p] # None /\ leaf[p] \in Frames
  BY DEF MappedPages
<1>2. /\ leaf' \in [Pages -> Frames \cup {None}] /\ leaf'[p] = None
      /\ \A q \in Pages \ {p} : leaf'[q] = leaf[q]
  BY <1>1
<1>3. MappedPages' = MappedPages \ {p}
  BY <1>1, <1>2 DEF MappedPages
<1>4. \A q \in MappedPages \ {p} : leaf'[q] = leaf[q]
  BY <1>2 DEF MappedPages
<1>5. Mapped' \subseteq Mapped /\ Mapped \subseteq Mapped' \cup {leaf[p]}
  BY <1>3, <1>4 DEF Mapped
<1>6. leaf[p] \in Mapped
  BY DEF Mapped
<1> QED  BY <1>1, <1>2, <1>3, <1>5, <1>6

\* The frames in hand and in the page tables are held.
LEMMA AllHeld ==
  ASSUME PagesInv, phase # "teardown"
  PROVE  /\ Range(tables) \subseteq held[Process] /\ Mapped \subseteq held[Process]
         /\ held[Process] = Range(tables) \cup Mapped \cup ({frame} \ {None})
  BY DEF PagesInv, HeldReachable

\* One more page table.
LEMMA NewTable ==
  ASSUME NEW f \in Frames, tables \in Seq(Frames), IsInjective(tables), f \notin Range(tables),
         tables' = Append(tables, f)
  PROVE  /\ tables' \in Seq(Frames) /\ IsInjective(tables')
         /\ Range(tables') = Range(tables) \cup {f}
<1>1. Len(tables) \in Nat /\ DOMAIN tables = 1 .. Len(tables)
  BY SMT
<1>2. /\ tables' \in Seq(Frames) /\ DOMAIN tables' = 1 .. Len(tables) + 1
      /\ \A i \in 1 .. Len(tables) : tables'[i] = tables[i]
      /\ tables'[Len(tables) + 1] = f
  BY <1>1, SMT
<1>3. \A i \in 1 .. Len(tables) : tables[i] # f
  BY <1>1 DEF Range
<1>4. IsInjective(tables')
  BY <1>1, <1>2, <1>3, SMT DEF IsInjective
<1>5. Range(tables') = Range(tables) \cup {f}
  BY <1>1, <1>2, SMT DEF Range
<1> QED  BY <1>2, <1>4, <1>5

\* One table less.
LEMMA LastTable ==
  ASSUME tables \in Seq(Frames), Len(tables) > 0, IsInjective(tables),
         tables' = SubSeq(tables, 1, Len(tables) - 1)
  PROVE  /\ tables' \in Seq(Frames) /\ IsInjective(tables')
         /\ tables[Len(tables)] \in Frames /\ tables[Len(tables)] \in Range(tables)
         /\ Range(tables') = Range(tables) \ {tables[Len(tables)]}
         /\ Len(tables) = 1 => tables' = <<>>
<1>1. Len(tables) \in Nat /\ Len(tables) > 0 /\ DOMAIN tables = 1 .. Len(tables)
  BY SMT
<1>2. /\ tables' \in Seq(Frames) /\ DOMAIN tables' = 1 .. Len(tables) - 1
      /\ \A i \in 1 .. Len(tables) - 1 : tables'[i] = tables[i]
  <2>1. /\ SubSeq(tables, 1, Len(tables) - 1) \in Seq(Frames)
        /\ Len(SubSeq(tables, 1, Len(tables) - 1)) = Len(tables) - 1
    BY <1>1, SMT
  <2>2. \A i \in 1 .. Len(tables) - 1 : SubSeq(tables, 1, Len(tables) - 1)[i] = tables[i]
    BY <1>1, SMT
  <2> QED  BY <1>1, <2>1, <2>2, SMT
<1>3. IsInjective(tables')
  BY <1>1, <1>2, SMT DEF IsInjective
<1>4. tables[Len(tables)] \in Frames /\ tables[Len(tables)] \in Range(tables)
  BY <1>1, SMT DEF Range
<1>5. Range(tables') = Range(tables) \ {tables[Len(tables)]}
  <2> DEFINE n == Len(tables)
  <2>1. /\ n \in Nat /\ n > 0 /\ DOMAIN tables = 1 .. n /\ DOMAIN tables' = 1 .. n - 1
        /\ \A i \in 1 .. n - 1 : tables'[i] = tables[i]
    BY <1>1, <1>2
  <2> HIDE DEF n
  <2>2. 1 .. n = 1 .. n - 1 \cup {n} /\ n \notin 1 .. n - 1
    BY <2>1, SMT
  <2>3. \A i \in 1 .. n - 1 : tables[i] # tables[n]
    BY <2>1, <2>2 DEF IsInjective
  <2>4. Range(tables') = Range(tables) \ {tables[n]}
    BY <2>1, <2>2, <2>3 DEF Range
  <2> QED  BY <2>4 DEF n
<1>6. Len(tables) = 1 => tables' = <<>>
  BY <1>1, <1>2, SMT
<1> QED  BY <1>2, <1>3, <1>4, <1>5, <1>6

-----------------------------------------------------------------------------
(* Spawning, up to the stack. *)

\* The step after the first one.
LEMMA BuildTail ==
  ASSUME Building, Len(todo) > 1, todo' = Tail(todo)
  PROVE  /\ Building' /\ todo'[1] = todo[2]
         /\ todo'[1][1] = "map" => HeapMap(todo'[1]) /\ (todo[1] = <<"frame">> \/ HeapMap(todo[1]))
         /\ todo[1] = <<"frame">> => HeapMap(todo'[1])
<1> DEFINE n == Len(todo)
<1>1. /\ todo' \in Seq(SpawnSteps) /\ Len(todo') = n - 1 /\ n \in Nat /\ n > 1
      /\ DOMAIN todo = 1 .. n /\ DOMAIN todo' = 1 .. n - 1
      /\ \A i \in 1 .. n - 1 : todo'[i] = todo[i + 1]
  BY Pop DEF Building
<1>2. \A i \in 1 .. n : /\ todo[i] = <<"search">> <=> i = n
                        /\ todo[i] = <<"frame">> => i < n /\ HeapMap(todo[i + 1])
                        /\ i > 1 /\ todo[i][1] = "map" =>
                             /\ HeapMap(todo[i])
                             /\ todo[i - 1] = <<"frame">> \/ HeapMap(todo[i - 1])
  BY <1>1 DEF Building
<1>3. todo' # <<>>
  BY <1>1, SMT
<1> HIDE DEF n
<1>4. ASSUME NEW i \in 1 .. n - 1
      PROVE  /\ todo'[i] = <<"search">> <=> i = n - 1
             /\ todo'[i] = <<"frame">> => i < n - 1 /\ HeapMap(todo'[i + 1])
             /\ i > 1 /\ todo'[i][1] = "map" =>
                  /\ HeapMap(todo'[i])
                  /\ todo'[i - 1] = <<"frame">> \/ HeapMap(todo'[i - 1])
  <2>1. i + 1 \in 1 .. n /\ todo'[i] = todo[i + 1] /\ (i + 1) - 1 = i /\ i + 1 > 1
    BY <1>1, <1>4, SMT
  <2>2. i < n - 1 => todo'[i + 1] = todo[(i + 1) + 1]
    BY <1>1, <1>4, SMT
  <2>3. i > 1 => todo'[i - 1] = todo[i]
    BY <1>1, <1>4, SMT
  <2>4. i + 1 = n <=> i = n - 1
    BY <1>1, <1>4, SMT
  <2>5. i + 1 < n <=> i < n - 1
    BY <1>1, <1>4, SMT
  <2> QED  BY <1>2, <2>1, <2>2, <2>3, <2>4, <2>5
<1>5. Building'
  BY <1>1, <1>3, <1>4 DEF Building, HeapMap
<1>6. todo'[1] = todo[2] /\ 1 \in 1 .. n /\ 2 \in 1 .. n /\ 2 > 1 /\ 2 - 1 = 1 /\ 1 + 1 = 2
  BY <1>1, SMT
<1>7. /\ todo[1] = <<"frame">> => HeapMap(todo[2])
      /\ todo[2][1] = "map" => HeapMap(todo[2]) /\ (todo[1] = <<"frame">> \/ HeapMap(todo[1]))
  BY <1>2, <1>6
<1> QED  BY <1>5, <1>6, <1>7

\* The first step becomes one that maps a page.
LEMMA BuildReplace ==
  ASSUME Building, Len(todo) > 1, todo[1][1] \in {"map", "load"},
         NEW p \in HeapPages \cup ProgramPages, NEW k \in Nat,
         HeapMap(todo[1]) => p \in HeapPages,
         todo' = << map_to(p, k) >> \o Tail(todo)
  PROVE  Building' /\ todo'[1] = map_to(p, k)
<1> DEFINE n == Len(todo)
           x == map_to(p, k)
<1>1. x \in SpawnSteps /\ x[1] = "map" /\ x[2] = p /\ x # <<"search">> /\ x # <<"frame">>
  BY DEF map_to, SpawnSteps
<1>2. /\ n \in Nat /\ n > 1 /\ DOMAIN todo = 1 .. n /\ todo \in Seq(SpawnSteps) /\ todo # <<>>
  BY Pop DEF Building
<1> HIDE DEF x
<1>3. /\ todo' \in Seq(SpawnSteps) /\ Len(todo') = n /\ todo' # <<>> /\ todo'[1] = x
      /\ DOMAIN todo' = 1 .. n /\ \A i \in 2 .. n : todo'[i] = todo[i]
  BY <1>1, <1>2, Replace, SMT DEF x
<1>4. \A i \in 1 .. n : /\ todo[i] = <<"search">> <=> i = n
                        /\ todo[i] = <<"frame">> => i < n /\ HeapMap(todo[i + 1])
                        /\ i > 1 /\ todo[i][1] = "map" =>
                             /\ HeapMap(todo[i])
                             /\ todo[i - 1] = <<"frame">> \/ HeapMap(todo[i - 1])
  BY <1>2 DEF Building
<1>5. todo[1] # <<"frame">> /\ (HeapMap(todo[1]) => HeapMap(x))
  BY <1>1, SMT DEF HeapMap
<1> HIDE DEF n
<1>6. ASSUME NEW i \in 1 .. n
      PROVE  /\ todo'[i] = <<"search">> <=> i = n
             /\ todo'[i] = <<"frame">> => i < n /\ HeapMap(todo'[i + 1])
             /\ i > 1 /\ todo'[i][1] = "map" =>
                  /\ HeapMap(todo'[i])
                  /\ todo'[i - 1] = <<"frame">> \/ HeapMap(todo'[i - 1])
  <2>1. CASE i = 1
    <3>1. i # n /\ ~(i > 1) /\ todo'[i] = x
      BY <1>2, <1>3, <2>1, SMT
    <3> QED  BY <1>1, <3>1
  <2>2. CASE i = 2
    <3>1. /\ todo'[i] = todo[i] /\ i > 1 /\ i - 1 = 1 /\ todo'[i - 1] = x
          /\ i < n => todo'[i + 1] = todo[i + 1]
      BY <1>2, <1>3, <2>2, SMT
    <3> QED  BY <1>4, <1>5, <1>6, <3>1
  <2>3. CASE i > 2
    <3>1. /\ todo'[i] = todo[i] /\ i > 1 /\ todo'[i - 1] = todo[i - 1]
          /\ i < n => todo'[i + 1] = todo[i + 1]
      BY <1>2, <1>3, <2>3, SMT
    <3> QED  BY <1>4, <1>6, <3>1
  <2> QED  BY <1>2, <1>6, <2>1, <2>2, <2>3, SMT
<1>7. Building'
  BY <1>3, <1>6 DEF Building, HeapMap
<1> QED  BY <1>3, <1>7 DEF x

\* What is known when a step of spawning takes a frame or maps one.
LEMMA SpawnFacts ==
  ASSUME AInv, todo # <<>>, op \in {"table", "frame", "load", "map", "outside"}
  PROVE  /\ phase = "spawn" /\ Building /\ NoStack(0) /\ id = 3 /\ Len(todo) > 1
         /\ op = todo[1][1] /\ arg = todo[1][2] /\ missing = todo[1][3]
         /\ todo[1] \in SpawnSteps /\ PagesInv /\ InHand
         /\ op \in {"load", "map"} => missing \in Nat
         /\ op = "load" => arg \in ProgramPages
         /\ op = "map" => arg \in HeapPages \cup ProgramPages
         /\ op = "frame" <=> todo[1] = <<"frame">>
<1>1. Progress /\ PagesInv /\ InHand
  BY DEF AInv, ProcessInv, PagesInv, TypeOK
<1>2. phase = "spawn" /\ Building /\ NoStack(0) /\ id = 3 /\ Len(todo) > 1
  BY <1>1, HeadPhase
<1>3. op = todo[1][1] /\ arg = todo[1][2] /\ missing = todo[1][3] /\ todo[1] \in SpawnSteps
  BY <1>2, Pop DEF Building, op, arg, missing
<1> QED  BY <1>1, <1>2, <1>3, SpawnStepForms, SMT

\* create_pagetable.
LEMMA CreateTable ==
  ASSUME AInv, ~panicked, create_pagetable
  PROVE  PagesInv' /\ InHand' /\ Building' /\ phase' = "spawn"
<1> DEFINE f == candidate
<1>1. /\ todo # <<>> /\ op = "table" /\ allocate_frame(Process) /\ todo' = Tail(todo)
      /\ tables' = Append(tables, f)
      /\ UNCHANGED <<stack_vars, phase, leaf, frame>>
  BY DEF create_pagetable, doing, done
<1>2. /\ phase = "spawn" /\ Building /\ Len(todo) > 1 /\ PagesInv /\ InHand
      /\ todo[1][1] = "table" /\ todo[1] # <<"frame">>
  BY <1>1, SpawnFacts
<1>3. /\ f \in Frames /\ f \notin held[Process] /\ held'[Process] = held[Process] \cup {f}
  BY <1>1, Taken, FrameFacts
<1>4. /\ Range(tables) \subseteq held[Process] /\ Mapped \subseteq held[Process]
      /\ held[Process] = Range(tables) \cup Mapped \cup ({frame} \ {None})
  BY <1>2, AllHeld
<1> HIDE DEF f
<1>5. tables' \in Seq(Frames) /\ IsInjective(tables') /\ Range(tables') = Range(tables) \cup {f}
  BY <1>1, <1>2, <1>3, <1>4, NewTable DEF PagesInv
<1>6. MappedPages' = MappedPages /\ Mapped' = Mapped /\ phase' = "spawn"
  BY <1>1, <1>2 DEF MappedPages, Mapped
<1>7. HeldReachable' /\ TablesNotMapped'
  BY <1>1, <1>2, <1>3, <1>4, <1>5, <1>6, SMT DEF HeldReachable, TablesNotMapped, PagesInv
<1>8. PagesInv'
  BY <1>1, <1>2, <1>5, <1>6, <1>7 DEF PagesInv, FreedTwice, stack_vars
<1>9. Building' /\ todo'[1][1] # "map"
  BY <1>1, <1>2, BuildTail DEF HeapMap
<1>10. InHand'
  BY <1>1, <1>2, <1>6, <1>9 DEF InHand
<1> QED  BY <1>6, <1>8, <1>9, <1>10

\* A table that map_to adds.
LEMMA MapTable ==
  ASSUME AInv, ~panicked, map_table
  PROVE  PagesInv' /\ InHand' /\ Building' /\ phase' = "spawn"
<1> DEFINE f == candidate
<1>1. /\ todo # <<>> /\ op = "map" /\ missing > 0 /\ allocate_frame(Process)
      /\ todo' = << map_to(arg, missing - 1) >> \o Tail(todo)
      /\ tables' = Append(tables, f)
      /\ UNCHANGED <<stack_vars, phase, leaf, frame>>
  BY DEF map_table, doing
<1>2. /\ phase = "spawn" /\ Building /\ Len(todo) > 1 /\ PagesInv /\ InHand
      /\ todo[1][1] = "map" /\ arg = todo[1][2]
      /\ arg \in HeapPages \cup ProgramPages /\ missing - 1 \in Nat
  BY <1>1, SpawnFacts, SMT
<1>3. /\ f \in Frames /\ f \notin held[Process] /\ held'[Process] = held[Process] \cup {f}
  BY <1>1, Taken, FrameFacts
<1>4. /\ Range(tables) \subseteq held[Process] /\ Mapped \subseteq held[Process]
      /\ held[Process] = Range(tables) \cup Mapped \cup ({frame} \ {None})
  BY <1>2, AllHeld
<1> HIDE DEF f
<1>5. tables' \in Seq(Frames) /\ IsInjective(tables') /\ Range(tables') = Range(tables) \cup {f}
  BY <1>1, <1>2, <1>3, <1>4, NewTable DEF PagesInv
<1>6. MappedPages' = MappedPages /\ Mapped' = Mapped /\ phase' = "spawn"
  BY <1>1, <1>2 DEF MappedPages, Mapped
<1>7. HeldReachable' /\ TablesNotMapped'
  BY <1>1, <1>2, <1>3, <1>4, <1>5, <1>6, SMT DEF HeldReachable, TablesNotMapped, PagesInv
<1>8. PagesInv'
  BY <1>1, <1>2, <1>5, <1>6, <1>7 DEF PagesInv, FreedTwice, stack_vars
<1>9. Building' /\ todo'[1] = map_to(arg, missing - 1)
  BY <1>1, <1>2, BuildReplace DEF HeapMap
<1>10. todo'[1][1] = "map" /\ todo'[1][2] = todo[1][2]
  BY <1>2, <1>9, SMT DEF map_to
<1>11. InHand'
  BY <1>1, <1>2, <1>3, <1>5, <1>6, <1>10 DEF InHand
<1> QED  BY <1>6, <1>8, <1>9, <1>11

\* The frame of the heap, or of a page of the program.
LEMMA TakeFrame ==
  ASSUME AInv, ~panicked, take_frame
  PROVE  PagesInv' /\ InHand' /\ Building' /\ phase' = "spawn"
<1> DEFINE f == candidate
<1>1. /\ todo # <<>> /\ op \in {"frame", "load"} /\ allocate_frame(Process)
      /\ todo' = IF op = "frame" THEN Tail(todo) ELSE << map_to(arg, missing) >> \o Tail(todo)
      /\ frame' = f
      /\ UNCHANGED <<stack_vars, phase, tables, leaf>>
  BY DEF take_frame, doing
<1>2. /\ phase = "spawn" /\ Building /\ Len(todo) > 1 /\ PagesInv /\ InHand
      /\ todo[1][1] = op /\ (op = "frame" <=> todo[1] = <<"frame">>)
      /\ op = "load" => arg \in ProgramPages /\ missing \in Nat
  BY <1>1, SpawnFacts
<1>3. /\ f \in Frames /\ f # None /\ f \notin held[Process]
      /\ held'[Process] = held[Process] \cup {f}
  BY <1>1, Taken, FrameFacts
<1>4. /\ Range(tables) \subseteq held[Process] /\ Mapped \subseteq held[Process]
      /\ held[Process] = Range(tables) \cup Mapped
  <2>1. frame \in Mapped \cup {None}
    BY <1>1, <1>2 DEF InHand
  <2> QED  BY <1>2, <2>1, AllHeld
<1> HIDE DEF f
<1>5. MappedPages' = MappedPages /\ Mapped' = Mapped /\ phase' = "spawn"
  BY <1>1, <1>2 DEF MappedPages, Mapped
<1>6. HeldReachable' /\ TablesNotMapped'
  BY <1>1, <1>2, <1>3, <1>4, <1>5, SMT DEF HeldReachable, TablesNotMapped, PagesInv
<1>7. PagesInv'
  BY <1>1, <1>2, <1>3, <1>5, <1>6 DEF PagesInv, FreedTwice, stack_vars
<1>8. Building' /\ todo'[1][1] = "map"
  <2>1. CASE op = "frame"
    BY <1>1, <1>2, <2>1, BuildTail DEF HeapMap
  <2>2. CASE op = "load"
    <3>1. todo' = << map_to(arg, missing) >> \o Tail(todo) /\ todo[1][1] = "load" /\ ~HeapMap(todo[1])
      BY <1>1, <1>2, <2>2 DEF HeapMap
    <3>2. Building' /\ todo'[1] = map_to(arg, missing)
      BY <1>2, <2>2, <3>1, BuildReplace
    <3> QED  BY <3>2, SMT DEF map_to
  <2> QED  BY <1>1, <2>1, <2>2
<1>9. \A p \in MappedPages : leaf[p] # f
  BY <1>3, <1>4 DEF Mapped
<1>10. InHand'
  BY <1>1, <1>3, <1>4, <1>5, <1>8, <1>9 DEF InHand
<1> QED  BY <1>5, <1>7, <1>8, <1>10

\* The entry that map_to writes.
LEMMA MapFrame ==
  ASSUME AInv, map_frame
  PROVE  PagesInv' /\ InHand' /\ Building' /\ phase' = "spawn"
<1>1. /\ todo # <<>> /\ op = "map" /\ leaf[arg] = None /\ todo' = Tail(todo)
      /\ leaf' = [leaf EXCEPT ![arg] = frame]
      /\ UNCHANGED <<frame_vars, stack_vars, phase, tables, frame>>
  BY DEF map_frame, doing, done
<1>2. /\ phase = "spawn" /\ Building /\ Len(todo) > 1 /\ PagesInv /\ InHand
      /\ todo[1][1] = "map" /\ arg = todo[1][2]
      /\ arg \in HeapPages \cup ProgramPages
  BY <1>1, SpawnFacts
<1>3. /\ frame \in held[Process] \ Range(tables) /\ frame \in Frames /\ frame # None
      /\ \A p \in MappedPages : leaf[p] = frame => {p, arg} \subseteq HeapPages
      /\ held'[Process] = held[Process]
  BY <1>1, <1>2, FrameFacts DEF InHand, frame_vars
<1>4. /\ held[Process] = Range(tables) \cup Mapped \cup {frame}
  BY <1>2, <1>3, AllHeld
<1>5. arg \in Pages /\ \A i \in Entries : arg # <<"stack", i>> /\ <<"stack", i>> \in Pages
  BY <1>2, PageKinds
<1>6. /\ leaf' \in [Pages -> Frames \cup {None}] /\ leaf'[arg] = frame
      /\ MappedPages' = MappedPages \cup {arg} /\ Mapped' = Mapped \cup {frame}
      /\ \A q \in Pages \ {arg} : leaf'[q] = leaf[q]
  BY <1>1, <1>2, <1>3, <1>5, MapPage DEF PagesInv
<1> HIDE DEF arg
<1>7. HeldReachable'
  BY <1>1, <1>2, <1>3, <1>4, <1>6 DEF HeldReachable
<1>8. \A q \in MappedPages : q \in Pages /\ q # arg /\ leaf'[q] = leaf[q]
  BY <1>1, <1>6 DEF MappedPages
<1>9. TablesNotMapped'
  <2>1. \A p, q \in MappedPages : leaf[p] = leaf[q] => p = q \/ (p[1] = "heap" /\ q[1] = "heap")
    BY <1>2 DEF PagesInv, TablesNotMapped
  <2>2. \A p \in MappedPages : leaf[p] = frame => p[1] = "heap" /\ arg[1] = "heap"
    BY <1>3, PageKinds
  <2>3. \A p, q \in MappedPages' :
          leaf'[p] = leaf'[q] => p = q \/ (p[1] = "heap" /\ q[1] = "heap")
    BY <1>6, <1>8, <2>1, <2>2, SMT
  <2>4. Range(tables) \cap Mapped = {}
    BY <1>2 DEF PagesInv, TablesNotMapped
  <2>5. Range(tables)' \cap Mapped' = {}
    BY <1>1, <1>3, <1>6, <2>4
  <2> QED  BY <2>3, <2>5 DEF TablesNotMapped
<1>10. PagesInv'
  BY <1>1, <1>2, <1>5, <1>6, <1>7, <1>9 DEF PagesInv, FreedTwice, stack_vars
<1>11. /\ Building' /\ phase' = "spawn"
       /\ todo'[1][1] = "map" => todo'[1][2] \in HeapPages /\ arg \in HeapPages
  <2>1. /\ Building'
        /\ todo'[1][1] = "map" => HeapMap(todo'[1]) /\ (todo[1] = <<"frame">> \/ HeapMap(todo[1]))
    BY <1>1, <1>2, BuildTail
  <2>2. todo[1] # <<"frame">>
    BY <1>2, SMT
  <2> QED  BY <1>1, <1>2, <2>1, <2>2 DEF HeapMap
<1>12. InHand'
  <2>1. CASE todo'[1][1] = "map"
    <3>1. \A p \in MappedPages' : leaf'[p] = frame => p \in HeapPages
      BY <1>3, <1>6, <1>8, <1>11, <2>1
    <3> QED  BY <1>1, <1>3, <1>11, <2>1, <3>1 DEF InHand
  <2>2. CASE todo'[1][1] # "map"
    BY <1>1, <1>6, <2>2 DEF InHand
  <2> QED  BY <2>1, <2>2
<1> QED  BY <1>10, <1>11, <1>12

-----------------------------------------------------------------------------
(* Stacks, exit and teardown. *)

\* A page of a stack.
LEMMA MapStackPage ==
  ASSUME AInv, ~panicked, map_stack_page, arg \in Entries, table[arg] = "unused",
         phase \in {"spawn", "fork"}, frame = None
  PROVE  PagesInv'
<1> DEFINE f == candidate
           p == <<"stack", arg>>
<1>1. /\ allocate_frame(Process)
      /\ table' = [table EXCEPT ![arg] = "mapped"]
      /\ leaf' = [leaf EXCEPT ![p] = f]
      /\ UNCHANGED <<phase, tables, frame>>
  BY DEF map_stack_page
<1>2. PagesInv /\ table \in [Entries -> {"unused", "mapped", "cleared"}]
  BY DEF AInv, ProcessInv, PagesInv, TypeOK, StacksTypeOK
<1>3. /\ f \in Frames /\ f # None /\ f \notin held[Process]
      /\ held'[Process] = held[Process] \cup {f}
  BY <1>1, Taken, FrameFacts
<1>4. /\ Range(tables) \subseteq held[Process] /\ Mapped \subseteq held[Process]
      /\ held[Process] = Range(tables) \cup Mapped
  BY <1>2, AllHeld
<1>5. p \in Pages /\ p[1] = "stack" /\ leaf[p] = None
  BY <1>2, PageKinds DEF PagesInv
<1> HIDE DEF f, p
<1>6. /\ leaf' \in [Pages -> Frames \cup {None}] /\ leaf'[p] = f
      /\ MappedPages' = MappedPages \cup {p} /\ Mapped' = Mapped \cup {f}
      /\ \A q \in Pages \ {p} : leaf'[q] = leaf[q]
  BY <1>1, <1>2, <1>3, <1>5, MapPage DEF PagesInv
<1>7. HeldReachable'
  BY <1>1, <1>3, <1>4, <1>6 DEF HeldReachable
<1>8. \A q \in MappedPages : q \in Pages /\ q # p /\ leaf'[q] = leaf[q] /\ leaf[q] # f
  BY <1>3, <1>4, <1>5, <1>6 DEF MappedPages, Mapped
<1>9. TablesNotMapped'
  <2>1. \A q, r \in MappedPages : leaf[q] = leaf[r] => q = r \/ (q[1] = "heap" /\ r[1] = "heap")
    BY <1>2 DEF PagesInv, TablesNotMapped
  <2>2. \A q, r \in MappedPages' :
          leaf'[q] = leaf'[r] => q = r \/ (q[1] = "heap" /\ r[1] = "heap")
    BY <1>6, <1>8, <2>1, SMT
  <2>3. Range(tables) \cap Mapped = {}
    BY <1>2 DEF PagesInv, TablesNotMapped
  <2>4. Range(tables)' \cap Mapped' = {}
    BY <1>1, <1>3, <1>4, <1>6, <2>3
  <2> QED  BY <2>2, <2>4 DEF TablesNotMapped
<1>10. \A i \in Entries : table'[i] = "mapped" <=> leaf'[<<"stack", i>>] # None
  <2> SUFFICES ASSUME NEW i \in Entries
               PROVE  table'[i] = "mapped" <=> leaf'[<<"stack", i>>] # None
    OBVIOUS
  <2>1. CASE i = arg
    BY <1>1, <1>2, <1>3, <1>6, <2>1 DEF p
  <2>2. CASE i # arg
    <3>1. <<"stack", i>> \in Pages \ {p}
      BY <2>2, PageKinds DEF p
    <3>2. table[i] = "mapped" <=> leaf[<<"stack", i>>] # None
      BY <1>2 DEF PagesInv
    <3> QED  BY <1>1, <1>2, <1>6, <2>2, <3>1, <3>2
  <2> QED  BY <2>1, <2>2
<1> QED  BY <1>1, <1>2, <1>6, <1>7, <1>9, <1>10 DEF PagesInv, FreedTwice

\* A page of an exiting thread's stack.
LEMMA UnmapStackPage ==
  ASSUME AInv, ~panicked, unmap_stack_page, arg \in Entries, phase = "exit"
  PROVE  /\ PagesInv' /\ FramesNext /\ FInv' /\ InBounds' /\ LoggerConsistent' /\ CountersOK'
<1> DEFINE p == <<"stack", arg>>
           f == leaf[p]
<1>1. /\ deallocate_frame(f) /\ log_deallocation /\ table[arg] = "mapped"
      /\ held' = [held EXCEPT ![Process] = @ \ {f}]
      /\ table' = [table EXCEPT ![arg] = "cleared"]
      /\ leaf' = [leaf EXCEPT ![p] = None]
      /\ UNCHANGED <<panicked, phase, tables, frame>>
  BY DEF unmap_stack_page
<1>2. /\ PagesInv /\ table \in [Entries -> {"unused", "mapped", "cleared"}] /\ frame = None
  BY DEF AInv, ProcessInv, PagesInv, TypeOK, StacksTypeOK, Progress, Spawned
<1>3. p \in Pages /\ p[1] = "stack" /\ leaf[p] # None /\ p \in MappedPages
  BY <1>1, <1>2, PageKinds DEF PagesInv, MappedPages
<1>4. /\ Range(tables) \subseteq held[Process] /\ Mapped \subseteq held[Process]
      /\ held[Process] = Range(tables) \cup Mapped
  BY <1>2, AllHeld
<1> HIDE DEF p
<1>5. /\ leaf' \in [Pages -> Frames \cup {None}]
      /\ MappedPages' = MappedPages \ {p}
      /\ Mapped' \subseteq Mapped /\ Mapped \subseteq Mapped' \cup {leaf[p]}
      /\ leaf[p] \in Mapped /\ leaf[p] \in Frames
      /\ leaf'[p] = None /\ \A q \in Pages \ {p} : leaf'[q] = leaf[q]
  BY <1>1, <1>2, <1>3, UnmapPage DEF PagesInv
<1>6. /\ FramesNext /\ FInv' /\ InBounds' /\ frame_usage' = frame_usage \ {f} /\ f \in frame_usage
      /\ held'[Process] = held[Process] \ {f} /\ held'[Kernel] = held[Kernel]
  BY <1>1, <1>4, <1>5, Returned
<1>7. LoggerConsistent' /\ CountersOK'
  BY <1>1, <1>5, <1>6, LogReturned
<1>8. \A q, r \in MappedPages : leaf[q] = leaf[r] => q = r \/ (q[1] = "heap" /\ r[1] = "heap")
  BY <1>2 DEF PagesInv, TablesNotMapped
<1>9. \A q \in MappedPages' : q \in Pages /\ q # p /\ q \in MappedPages /\ leaf'[q] = leaf[q]
  BY <1>5 DEF MappedPages
<1>10. f \notin Mapped'
  <2>1. \A q \in MappedPages' : leaf'[q] # f
    BY <1>3, <1>8, <1>9
  <2> QED  BY <2>1 DEF Mapped
<1>11. Range(tables) \cap Mapped = {}
  BY <1>2 DEF PagesInv, TablesNotMapped
<1>12. HeldReachable'
  BY <1>1, <1>2, <1>4, <1>5, <1>6, <1>10, <1>11, SMT DEF HeldReachable
<1>13. TablesNotMapped'
  BY <1>1, <1>5, <1>8, <1>9, <1>11, SMT DEF TablesNotMapped
<1>14. \A i \in Entries : table'[i] = "mapped" <=> leaf'[<<"stack", i>>] # None
  <2> SUFFICES ASSUME NEW i \in Entries
               PROVE  table'[i] = "mapped" <=> leaf'[<<"stack", i>>] # None
    OBVIOUS
  <2>1. CASE i = arg
    BY <1>1, <1>2, <1>5, <2>1 DEF p
  <2>2. CASE i # arg
    <3>1. <<"stack", i>> \in Pages \ {p}
      BY <2>2, PageKinds DEF p
    <3>2. table[i] = "mapped" <=> leaf[<<"stack", i>>] # None
      BY <1>2 DEF PagesInv
    <3> QED  BY <1>1, <1>2, <1>5, <2>2, <3>1, <3>2
  <2> QED  BY <2>1, <2>2
<1>15. PagesInv'
  BY <1>1, <1>2, <1>5, <1>12, <1>13, <1>14 DEF PagesInv, FreedTwice
<1> QED  BY <1>6, <1>7, <1>15

\* A page of the process, perhaps one of several that map the frame.
LEMMA FreePage ==
  ASSUME AInv, ~panicked, NEW p \in Pages, free_page(p)
  PROVE  /\ PagesInv' /\ FInv' /\ InBounds' /\ LoggerConsistent' /\ CountersOK'
         /\ FramesNext \/ UNCHANGED frame_vars
<1> DEFINE f == leaf[p]
<1>1. /\ phase = "teardown" /\ p \in MappedPages
      /\ deallocate_frame(f) /\ log_deallocation
      /\ held' = [held EXCEPT ![Process] = @ \ {f}]
      /\ leaf' = [leaf EXCEPT ![p] = None]
      /\ UNCHANGED <<panicked, phase, tables, frame>>
  BY DEF free_page, user_pages
<1>2. /\ PagesInv /\ next \in Nat
  BY UsableAssumption, SMT DEF AInv, ProcessInv, PagesInv, TypeOK, FInv, FramesTypeOK
<1>3. /\ Range(tables) \subseteq held[Process] /\ held[Process] \subseteq Range(tables) \cup Mapped
      /\ \A g \in Mapped \ held[Process] : g \notin frame_usage /\ next <= g
      /\ Range(tables) \cap Mapped = {}
  BY <1>1, <1>2 DEF PagesInv, FreedTwice, TablesNotMapped
<1>4. /\ leaf' \in [Pages -> Frames \cup {None}]
      /\ MappedPages' = MappedPages \ {p}
      /\ Mapped' \subseteq Mapped /\ Mapped \subseteq Mapped' \cup {f}
      /\ f \in Mapped /\ f \in Frames
      /\ \A q \in Pages \ {p} : leaf'[q] = leaf[q]
  BY <1>1, <1>2, UnmapPage DEF PagesInv
<1>5. \A g \in Mapped : g \in Nat
  BY <1>2, FrameFacts DEF PagesInv, Mapped, MappedPages
<1> HIDE DEF f
<1>6. /\ FramesNext \/ UNCHANGED frame_vars
      /\ FInv' /\ InBounds' /\ frame_usage' \subseteq frame_usage
      /\ held'[Process] = held[Process] \ {f} /\ held'[Kernel] = held[Kernel]
      /\ next' <= next /\ next' \in Nat /\ f \notin frame_usage' /\ next' <= f
  <2>1. CASE f \in held[Process]
    <3>1. /\ FramesNext /\ FInv' /\ InBounds' /\ frame_usage' = frame_usage \ {f}
          /\ held'[Process] = held[Process] \ {f} /\ held'[Kernel] = held[Kernel]
          /\ next' <= f /\ next' <= next
      BY <1>1, <2>1, Returned
    <3>2. next' \in Nat
      BY <3>1, UsableAssumption, SMT DEF FInv, FramesTypeOK
    <3> QED  BY <3>1, <3>2
  <2>2. CASE f \notin held[Process]
    <3>1. f \notin frame_usage /\ next <= f
      BY <1>3, <1>4, <2>2
    <3>2. UNCHANGED frame_vars
      BY <1>1, <1>4, <3>1, ReturnedAgain
    <3>3. FInv' /\ InBounds'
      BY <3>2, FrameNext DEF AInv
    <3> QED  BY <1>2, <2>2, <3>1, <3>2, <3>3, SMT DEF frame_vars
  <2> QED  BY <2>1, <2>2
<1>7. LoggerConsistent' /\ CountersOK'
  BY <1>1, <1>4, <1>6, LogReturned
<1>8. TablesNotMapped'
  <2>1. \A q \in MappedPages' : q \in MappedPages /\ leaf'[q] = leaf[q]
    BY <1>4 DEF MappedPages
  <2> QED  BY <1>1, <1>2, <1>3, <1>4, <2>1, SMT DEF PagesInv, TablesNotMapped
<1>9. FreedTwice'
  <2>1. Range(tables) \subseteq held'[Process] /\ held'[Process] \subseteq Range(tables) \cup Mapped'
    BY <1>3, <1>4, <1>6
  <2>2. ASSUME NEW g \in Mapped' \ held'[Process]
        PROVE  g \notin frame_usage' /\ next' <= g
    <3>1. g \in Mapped /\ (g = f \/ g \notin held[Process])
      BY <1>4, <1>6, <2>2
    <3> QED  BY <1>2, <1>3, <1>5, <1>6, <3>1, SMT
  <2> QED  BY <1>1, <2>1, <2>2 DEF FreedTwice
<1>10. PagesInv'
  BY <1>1, <1>2, <1>4, <1>8, <1>9 DEF PagesInv, HeldReachable
<1> QED  BY <1>6, <1>7, <1>10

\* A page table of the process, when all its pages are gone.
LEMMA FreeTable ==
  ASSUME AInv, ~panicked, free_table
  PROVE  /\ PagesInv' /\ FramesNext /\ FInv' /\ InBounds' /\ LoggerConsistent' /\ CountersOK'
<1> DEFINE f == tables[Len(tables)]
<1>1. /\ phase = "teardown" /\ MappedPages = {} /\ tables # <<>>
      /\ deallocate_frame(f) /\ log_deallocation
      /\ held' = [held EXCEPT ![Process] = @ \ {f}]
      /\ tables' = SubSeq(tables, 1, Len(tables) - 1)
      /\ phase' = IF Len(tables) = 1 THEN "gone" ELSE phase
      /\ UNCHANGED <<panicked, leaf, frame>>
  BY DEF free_table, user_pages
<1>2. PagesInv /\ frame = None
  BY <1>1 DEF AInv, ProcessInv, PagesInv, TypeOK, Progress, Spawned
<1>3. tables \in Seq(Frames) /\ Len(tables) > 0 /\ IsInjective(tables)
  BY <1>1, <1>2, Pop, SMT DEF PagesInv
<1>4. /\ tables' \in Seq(Frames) /\ IsInjective(tables') /\ f \in Frames /\ f \in Range(tables)
      /\ Range(tables') = Range(tables) \ {f} /\ (Len(tables) = 1 => tables' = <<>>)
  BY <1>1, <1>3, LastTable
<1>5. Mapped = {} /\ Mapped' = {} /\ MappedPages' = {} /\ held[Process] = Range(tables)
  BY <1>1, <1>2 DEF PagesInv, FreedTwice, Mapped, MappedPages
<1> HIDE DEF f
<1>6. /\ FramesNext /\ FInv' /\ InBounds'
      /\ held'[Process] = held[Process] \ {f} /\ held'[Kernel] = held[Kernel]
  BY <1>1, <1>4, <1>5, Returned
<1>7. LoggerConsistent' /\ CountersOK'
  BY <1>1, <1>4, <1>6, LogReturned
<1>8. HeldReachable' /\ TablesNotMapped' /\ FreedTwice'
  BY <1>1, <1>2, <1>4, <1>5, <1>6 DEF HeldReachable, TablesNotMapped, FreedTwice
<1>9. PagesInv'
  BY <1>1, <1>2, <1>4, <1>5, <1>8 DEF PagesInv
<1> QED  BY <1>6, <1>7, <1>9

\* Steps that touch neither pages nor tables.
LEMMA PagesKept ==
  ASSUME AInv, held'[Process] = held[Process], UNCHANGED <<tables, leaf, table>>,
         frame' = frame \/ (frame' = None /\ frame \in Mapped \cup {None}),
         phase \notin {"teardown", "gone"}, phase' # "gone", phase' = "teardown" => frame = None
  PROVE  PagesInv'
<1>1. PagesInv
  BY DEF AInv, ProcessInv, PagesInv, TypeOK
<1>2. MappedPages' = MappedPages /\ Mapped' = Mapped
  BY DEF MappedPages, Mapped
<1>3. /\ Range(tables) \subseteq held[Process] /\ Mapped \subseteq held[Process]
      /\ held[Process] = Range(tables) \cup Mapped \cup ({frame} \ {None})
  BY <1>1, AllHeld
<1>4. HeldReachable'
  BY <1>2, <1>3 DEF HeldReachable
<1>5. FreedTwice'
  BY <1>2, <1>3 DEF FreedTwice
<1>6. frame' \in Frames \cup {None}
  BY <1>1 DEF PagesInv
<1> QED  BY <1>1, <1>2, <1>4, <1>5, <1>6, ZenonT(30) DEF PagesInv, TablesNotMapped

-----------------------------------------------------------------------------
(* Every step preserves the invariant and is a step of FrameAllocator. *)

\* The parts of the invariant.
LEMMA Parts ==
  ASSUME AInv, FInv', InBounds', StacksTypeOK', phase' \in Phases, PagesInv', LoggerConsistent',
         CountersOK', Progress', InHand'
  PROVE  AInv'
  BY DEF AInv, ProcessInv, TypeOK, PagesInv, CountersOK, FInv

LEMMA AllParts ==
  ASSUME AInv
  PROVE  /\ FInv /\ InBounds /\ StacksTypeOK /\ phase \in Phases /\ PagesInv
         /\ LoggerConsistent /\ CountersOK /\ Progress /\ InHand
  BY DEF AInv, ProcessInv, TypeOK, PagesInv, CountersOK

\* Frames stay where they are.
LEMMA FramesKept ==
  ASSUME AInv, UNCHANGED frame_vars
  PROVE  FInv' /\ InBounds' /\ UNCHANGED <<frame_usage, held>>
<1>1. FInv' /\ InBounds'
  BY FrameNext DEF AInv
<1> QED  BY <1>1 DEF frame_vars

\* Spawning goes on.
LEMMA StillBuilding ==
  ASSUME AInv, NoStack(0), id = 3, Building', phase' = "spawn", UNCHANGED stack_vars
  PROVE  Progress' /\ StacksTypeOK' /\ phase' \in Phases
<1>1. StacksTypeOK /\ Progress
  BY AllParts
<1>2. StacksTypeOK'
  BY <1>1 DEF stack_vars, StacksTypeOK
<1>3. todo' \in Seq(CallSteps)
  <2>1. SpawnSteps \subseteq CallSteps
    BY DEF CallSteps
  <2> QED  BY <2>1, SMT DEF Building
<1>4. NoStack(0)' /\ id' = 3 /\ live' = {}
  BY DEF NoStack, stack_vars
<1>5. Progress'
  BY <1>3, <1>4 DEF Progress, Spawned
<1> QED  BY <1>2, <1>5 DEF Phases

\* create_pagetable, take_frame, map_table.
LEMMA BuildingStep ==
  ASSUME AInv, ~panicked, create_pagetable \/ take_frame \/ map_table
  PROVE  AInv' /\ FramesNext
<1>1. PagesInv' /\ InHand' /\ Building' /\ phase' = "spawn"
  BY CreateTable, TakeFrame, MapTable
<1>2. /\ todo # <<>> /\ op \in {"table", "frame", "load", "map", "outside"}
      /\ allocate_frame(Process) /\ log_allocation /\ UNCHANGED <<stack_vars, phase>>
  BY DEF create_pagetable, take_frame, map_table, doing
<1>3. phase = "spawn" /\ NoStack(0) /\ id = 3
  BY <1>2, SpawnFacts
<1>4. Process \in Clients /\ Process # Kernel
  BY FrameFacts DEF Process, Kernel
<1>5. FramesNext /\ FInv' /\ InBounds'
  BY <1>2, <1>4, Taken
<1>6. LoggerConsistent' /\ CountersOK'
  BY <1>2, <1>3, <1>4, LogTaken
<1>7. Progress' /\ StacksTypeOK' /\ phase' \in Phases
  BY <1>1, <1>2, <1>3, StillBuilding
<1> QED  BY <1>1, <1>5, <1>6, <1>7, Parts

\* map_frame.
LEMMA MapFrameStep ==
  ASSUME AInv, map_frame
  PROVE  AInv' /\ UNCHANGED frame_vars
<1>1. PagesInv' /\ InHand' /\ Building' /\ phase' = "spawn"
  BY MapFrame
<1>2. /\ todo # <<>> /\ op = "map" /\ log_nothing /\ UNCHANGED frame_vars
      /\ UNCHANGED <<stack_vars, phase>>
  BY DEF map_frame, doing
<1>3. phase = "spawn" /\ NoStack(0) /\ id = 3
  BY <1>2, SpawnFacts
<1>4. FInv' /\ InBounds' /\ UNCHANGED <<frame_usage, held>>
  BY <1>2, FramesKept
<1>5. LoggerConsistent' /\ CountersOK'
  BY <1>2, <1>3, <1>4, LogKept
<1>6. Progress' /\ StacksTypeOK' /\ phase' \in Phases
  BY <1>1, <1>2, <1>3, StillBuilding
<1> QED  BY <1>1, <1>2, <1>4, <1>5, <1>6, Parts

\* load_failed.
LEMMA LoadFailedStep ==
  ASSUME AInv, load_failed
  PROVE  AInv' /\ UNCHANGED frame_vars
<1>1. /\ todo # <<>> /\ op \in {"map", "outside"} /\ phase' = "failed" /\ todo' = <<>> /\ log_nothing
      /\ UNCHANGED frame_vars /\ UNCHANGED <<stack_vars, tables, leaf, frame>>
  BY DEF load_failed, doing
<1>2. phase = "spawn" /\ NoStack(0)
  BY <1>1, SpawnFacts
<1>3. FInv' /\ InBounds' /\ UNCHANGED <<frame_usage, held>>
  BY <1>1, FramesKept
<1>4. LoggerConsistent' /\ CountersOK'
  BY <1>1, <1>2, <1>3, LogKept
<1>5. PagesInv'
  BY <1>1, <1>2, <1>3, PagesKept DEF stack_vars
<1>6. StacksTypeOK' /\ InHand'
  BY <1>1, AllParts DEF stack_vars, StacksTypeOK, InHand
<1>7. Progress' /\ phase' \in Phases
  BY <1>1, <1>2, SMT DEF Progress, Spawned, Phases, NoStack, stack_vars
<1> QED  BY <1>1, <1>3, <1>4, <1>5, <1>6, <1>7, Parts

\* init_heap.
LEMMA InitHeapStep ==
  ASSUME AInv, ~panicked, init_heap
  PROVE  AInv' /\ FramesNext
<1>1. /\ todo # <<>> /\ op = "kernel" /\ allocate_frame(Kernel) /\ log_allocation /\ todo' = Tail(todo)
      /\ UNCHANGED <<stack_vars, phase, tables, leaf, frame>>
  BY DEF init_heap, doing, done
<1>2. Progress
  BY AllParts
<1>3. phase = "boot" /\ Len(todo) > 1
  BY <1>1, <1>2, HeadPhase
<1>4. Kernel \in Clients /\ Process \in Clients \ {Kernel}
  BY FrameFacts DEF Process, Kernel
<1>5. FramesNext /\ FInv' /\ InBounds' /\ held'[Process] = held[Process]
  BY <1>1, <1>4, Taken
<1>6. LoggerConsistent' /\ CountersOK'
  BY <1>1, <1>3, <1>4, LogTaken
<1>7. PagesInv'
  BY <1>1, <1>3, <1>5, PagesKept DEF stack_vars
<1>8. StacksTypeOK' /\ phase' \in Phases
  BY <1>1, <1>3, AllParts DEF stack_vars, StacksTypeOK, Phases
<1>9. /\ NoStack(0) /\ id = 3 /\ tables = <<>> /\ MappedPages = {} /\ frame = None
      /\ \A i \in DOMAIN todo : todo[i] = IF i = Len(todo) THEN <<"total">> ELSE <<"kernel">>
  BY <1>2, <1>3 DEF Progress
<1>10. /\ NoStack(0)' /\ id' = 3 /\ tables' = <<>> /\ MappedPages' = {} /\ frame' = None /\ live' = {}
  BY <1>1, <1>9 DEF NoStack, MappedPages, stack_vars
<1>11. /\ todo' \in Seq(CallSteps) /\ todo' # <<>>
       /\ \A i \in DOMAIN todo' : todo'[i] = IF i = Len(todo') THEN <<"total">> ELSE <<"kernel">>
  <2> DEFINE n == Len(todo)
  <2>1. /\ todo' \in Seq(CallSteps) /\ Len(todo') = n - 1 /\ n \in Nat /\ n > 1
        /\ DOMAIN todo = 1 .. n /\ DOMAIN todo' = 1 .. n - 1
        /\ \A i \in 1 .. n - 1 : todo'[i] = todo[i + 1]
    BY <1>1, <1>2, <1>3, Pop, ZenonT(30) DEF Progress
  <2>2. todo' # <<>>
    BY <2>1, SMT
  <2>3. \A i \in 1 .. n : todo[i] = IF i = n THEN <<"total">> ELSE <<"kernel">>
    BY <1>9, <2>1
  <2> HIDE DEF n
  <2>4. \A i \in 1 .. n - 1 : i + 1 \in 1 .. n /\ (i + 1 = n <=> i = n - 1)
    BY <2>1, SMT
  <2> QED  BY <2>1, <2>2, <2>3, <2>4
<1>12. Progress'
  BY <1>1, <1>3, <1>10, <1>11 DEF Progress, Spawned
<1>13. InHand'
  BY <1>1, <1>3, <1>10 DEF InHand
<1> QED  BY <1>5, <1>6, <1>7, <1>8, <1>12, <1>13, Parts

\* The end of memory::init.
LEMMA InitStep ==
  ASSUME AInv, init
  PROVE  AInv' /\ UNCHANGED frame_vars
<1>1. /\ todo # <<>> /\ op = "total" /\ setTotalMemory /\ todo' = Tail(todo) /\ phase' = "ready"
      /\ UNCHANGED frame_vars /\ UNCHANGED <<stack_vars, tables, leaf, frame>>
  BY DEF init, doing, done
<1>2. Progress /\ CountersOK /\ LoggerConsistent /\ PagesInv /\ StacksTypeOK
  BY AllParts
<1>3. phase = "boot" /\ Len(todo) = 1
  BY <1>1, <1>2, HeadPhase
<1>4. FInv' /\ InBounds' /\ UNCHANGED <<frame_usage, held>>
  BY <1>1, FramesKept
<1>5. PagesInv'
  BY <1>1, <1>3, <1>4, PagesKept DEF stack_vars
<1>6. StacksTypeOK' /\ phase' \in Phases
  BY <1>1, <1>2 DEF stack_vars, StacksTypeOK, Phases
<1>7. NoStack(0) /\ id = 3 /\ tables = <<>> /\ MappedPages = {} /\ frame = None
  BY <1>2, <1>3 DEF Progress
<1>8. /\ NoStack(0)' /\ id' = 3 /\ tables' = <<>> /\ MappedPages' = {} /\ frame' = None /\ live' = {}
  BY <1>1, <1>7 DEF NoStack, MappedPages, stack_vars
<1>9. todo' = <<>> /\ todo' \in Seq(CallSteps)
  <2>1. todo' \in Seq(CallSteps) /\ Len(todo') = 0
    BY <1>1, <1>2, <1>3, Pop, SMT DEF Progress
  <2> QED  BY <2>1, SMT
<1>10. Progress'
  BY <1>1, <1>8, <1>9 DEF Progress, Spawned
<1>11. InHand'
  BY <1>1, <1>8 DEF InHand
<1>12. frame_usage = held[Kernel]
  <2>1. Range(tables) = {} /\ Mapped = {}
    BY <1>7, SMT DEF Range, Mapped
  <2>2. held[Process] = {}
    BY <1>2, <1>3, <1>7, <2>1, AllHeld
  <2> QED  BY <2>2, FrameFacts
<1>13. used_memory' = Cardinality(held[Kernel]) /\ free_memory' = TotalMemory
  BY <1>1, <1>2, <1>3, <1>12 DEF LoggerConsistent, setTotalMemory
<1>14. Cardinality(held[Kernel]) \in Nat
  <2>1. held[Kernel] \in SUBSET Frames
    BY FrameFacts
  <2> QED  BY <2>1 DEF AInv, FramesCounted
<1>15. used_memory' + free_memory' = TotalMemory + Cardinality(held[Kernel])
  BY <1>13, <1>14, WidthAssumption, SMT
<1>16. LoggerConsistent'
  BY <1>1, <1>4, <1>12, <1>13, <1>15 DEF LoggerConsistent
<1>17. CountersOK'
  BY <1>1, <1>2, <1>13, WidthAssumption DEF CountersOK, setTotalMemory
<1> QED  BY <1>1, <1>4, <1>5, <1>6, <1>10, <1>11, <1>16, <1>17, Parts

\* A part of spawning that ends where another may start: the pages of the heap
\* follow its frame, nothing is mapped first, and no stack is searched for.
Segment(s) ==
  /\ s \in Seq(SpawnSteps) /\ (s # <<>> => s[1][1] # "map")
  /\ \A i \in DOMAIN s :
       /\ s[i] # <<"search">>
       /\ s[i] = <<"frame">> => i < Len(s) /\ HeapMap(s[i + 1])
       /\ i > 1 /\ s[i][1] = "map" => HeapMap(s[i]) /\ (s[i - 1] = <<"frame">> \/ HeapMap(s[i - 1]))

\* One part after another.
LEMMA Segments ==
  ASSUME NEW s, NEW t, Segment(s), Segment(t)
  PROVE  Segment(s \o t)
<1> DEFINE u == s \o t
           m == Len(s)
           n == Len(t)
<1>1. /\ s \in Seq(SpawnSteps) /\ t \in Seq(SpawnSteps)
      /\ m \in Nat /\ n \in Nat /\ DOMAIN s = 1 .. m /\ DOMAIN t = 1 .. n
      /\ s # <<>> <=> m > 0
      /\ t # <<>> <=> n > 0
  BY SMT DEF Segment
<1>2. u \in Seq(SpawnSteps) /\ Len(u) = m + n /\ DOMAIN u = 1 .. m + n
  BY <1>1, Joined, SMT
<1>3. /\ \A i \in 1 .. m : u[i] = s[i]
      /\ \A i \in 1 .. n : u[m + i] = t[i]
  <2>1. \A i \in 1 .. m + n : u[i] = IF i <= m THEN s[i] ELSE t[i - m]
    BY <1>1, Joined
  <2>2. \A i \in 1 .. m : i \in 1 .. m + n /\ i <= m
    BY <1>1, SMT
  <2>3. \A i \in 1 .. n : m + i \in 1 .. m + n /\ ~(m + i <= m) /\ (m + i) - m = i
    BY <1>1, SMT
  <2> HIDE DEF u, m, n
  <2> QED  BY <2>1, <2>2, <2>3
<1>4. \A i \in 1 .. m :
        /\ s[i] # <<"search">>
        /\ s[i] = <<"frame">> => i < m /\ HeapMap(s[i + 1])
        /\ i > 1 /\ s[i][1] = "map" => HeapMap(s[i]) /\ (s[i - 1] = <<"frame">> \/ HeapMap(s[i - 1]))
  BY <1>1 DEF Segment
<1>5. \A i \in 1 .. n :
        /\ t[i] # <<"search">>
        /\ t[i] = <<"frame">> => i < n /\ HeapMap(t[i + 1])
        /\ i > 1 /\ t[i][1] = "map" => HeapMap(t[i]) /\ (t[i - 1] = <<"frame">> \/ HeapMap(t[i - 1]))
  BY <1>1 DEF Segment
<1>6. (m > 0 => s[1][1] # "map") /\ (n > 0 => t[1][1] # "map")
  BY <1>1 DEF Segment
<1>7. u # <<>> <=> m + n > 0
  BY <1>1, <1>2, SMT
<1> HIDE DEF u, m, n
<1>8. ASSUME NEW i \in 1 .. m
      PROVE  /\ u[i] # <<"search">>
             /\ u[i] = <<"frame">> => i < m + n /\ HeapMap(u[i + 1])
             /\ i > 1 /\ u[i][1] = "map" =>
                  HeapMap(u[i]) /\ (u[i - 1] = <<"frame">> \/ HeapMap(u[i - 1]))
  <2>1. /\ u[i] = s[i] /\ (i > 1 => u[i - 1] = s[i - 1])
        /\ i < m => u[i + 1] = s[i + 1] /\ i < m + n
    BY <1>1, <1>3, SMT
  <2> QED  BY <1>4, <2>1
<1>9. ASSUME NEW i \in 1 .. n
      PROVE  /\ u[m + i] # <<"search">>
             /\ u[m + i] = <<"frame">> => m + i < m + n /\ HeapMap(u[m + i + 1])
             /\ m + i > 1 /\ u[m + i][1] = "map" =>
                  HeapMap(u[m + i]) /\ (u[(m + i) - 1] = <<"frame">> \/ HeapMap(u[(m + i) - 1]))
  <2>1. /\ u[m + i] = t[i] /\ (i > 1 => u[(m + i) - 1] = t[i - 1])
        /\ i < n => u[m + i + 1] = t[i + 1] /\ m + i < m + n
        /\ ~(i > 1) => t[i][1] # "map"
    <3>1. i > 1 => i - 1 \in 1 .. n /\ (m + i) - 1 = m + (i - 1)
      BY <1>1, SMT
    <3>2. i < n => i + 1 \in 1 .. n /\ m + i + 1 = m + (i + 1) /\ m + i < m + n
      BY <1>1, SMT
    <3>3. ~(i > 1) => i = 1 /\ n > 0
      BY <1>1, SMT
    <3> QED  BY <1>3, <1>6, <3>1, <3>2, <3>3
  <2> QED  BY <1>5, <2>1
<1>10. \A i \in 1 .. m + n : i \in 1 .. m \/ \E j \in 1 .. n : i = m + j
  <2>1. \A i \in 1 .. m + n : i \in 1 .. m \/ (i - m \in 1 .. n /\ i = m + (i - m))
    BY <1>1, SMT
  <2> QED  BY <2>1
<1> DEFINE P(i) ==
             /\ u[i] # <<"search">>
             /\ u[i] = <<"frame">> => i < m + n /\ HeapMap(u[i + 1])
             /\ i > 1 /\ u[i][1] = "map" =>
                  HeapMap(u[i]) /\ (u[i - 1] = <<"frame">> \/ HeapMap(u[i - 1]))
<1>11. \A i \in 1 .. m + n : P(i)
  <2>1. \A i \in 1 .. m : P(i)
    BY <1>8
  <2>2. \A i \in 1 .. n : P(m + i)
    BY <1>9
  <2> HIDE DEF P
  <2> QED  BY <1>10, <2>1, <2>2
<1>12. u # <<>> => u[1][1] # "map"
  <2>1. CASE m > 0
    <3>1. 1 \in 1 .. m
      BY <1>1, <2>1, SMT
    <3> QED  BY <1>3, <1>6, <2>1, <3>1
  <2>2. CASE ~(m > 0)
    <3>1. u # <<>> => n > 0 /\ 1 \in 1 .. n /\ m + 1 = 1
      BY <1>1, <1>7, <2>2, SMT
    <3>2. \A i \in 1 .. n : u[m + i] = t[i]
      BY <1>3
    <3> QED  BY <1>6, <3>1, <3>2
  <2> QED  BY <2>1, <2>2
<1> QED  BY <1>2, <1>11, <1>12 DEF Segment, u

\* Page tables that are created, and the segments of a program.
LEMMA PlainSegment ==
  ASSUME NEW s \in Seq(SpawnSteps),
         \A i \in DOMAIN s : s[i][1] \in {"table", "load", "outside"}
  PROVE  Segment(s)
<1>1. DOMAIN s = 1 .. Len(s) /\ Len(s) \in Nat
  BY SMT
<1>2. s # <<>> => 1 \in DOMAIN s
  BY <1>1, SMT
<1>3. s # <<>> => s[1][1] # "map"
  BY <1>2
<1>4. \A i \in DOMAIN s : s[i] # <<"search">> /\ s[i] # <<"frame">> /\ s[i][1] # "map"
  BY SMT
<1> QED  BY <1>3, <1>4 DEF Segment

LEMMA TableSegment ==
  ASSUME NEW k \in Nat
  PROVE  Segment(Repeat(k, <<"table">>))
<1> DEFINE x == <<"table">>
           s == Repeat(k, x)
<1>1. x \in SpawnSteps /\ x[1] = "table"
  BY DEF SpawnSteps
<1> HIDE DEF x
<1>2. s \in Seq(SpawnSteps) /\ DOMAIN s = 1 .. k /\ \A i \in 1 .. k : s[i] = x
  BY <1>1, Repeats DEF Repeat
<1> HIDE DEF s
<1>3. \A i \in DOMAIN s : s[i][1] \in {"table", "load", "outside"}
  BY <1>1, <1>2
<1>4. Segment(s)
  BY <1>2, <1>3, PlainSegment
<1> QED  BY <1>4 DEF s, x

LEMMA ProgramSegment ==
  ASSUME NEW binary \in Binaries
  PROVE  Segment(load_binary_into_memory(binary))
<1> DEFINE s == load_binary_into_memory(binary)
           step(i) == IF binary[i] = Outside
                      THEN <<"outside">>
                      ELSE <<"load", <<"code", binary[i].page>>, binary[i].tables>>
<1>1. binary \in Seq([page : CodePages, tables : Nat] \cup {Outside})
  BY TablesAssumption
<1>2. DOMAIN binary = 1 .. Len(binary) /\ Len(binary) \in Nat
  BY <1>1, SMT
<1>3. \A i \in 1 .. Len(binary) : binary[i] \in [page : CodePages, tables : Nat] \cup {Outside}
  BY <1>1, SMT
<1>4. \A i \in 1 .. Len(binary) : step(i) \in SpawnSteps /\ step(i)[1] \in {"table", "load", "outside"}
  <2> SUFFICES ASSUME NEW i \in 1 .. Len(binary)
               PROVE  step(i) \in SpawnSteps /\ step(i)[1] \in {"table", "load", "outside"}
    OBVIOUS
  <2>1. CASE binary[i] = Outside
    <3>1. step(i) = <<"outside">>
      BY <2>1
    <3> QED  BY <3>1 DEF SpawnSteps
  <2>2. CASE binary[i] # Outside
    <3>1. binary[i].page \in CodePages /\ binary[i].tables \in Nat
      BY <1>3, <2>2
    <3>2. step(i) = <<"load", <<"code", binary[i].page>>, binary[i].tables>>
      BY <2>2
    <3>3. <<"code", binary[i].page>> \in ProgramPages
      BY <3>1 DEF ProgramPages
    <3> HIDE DEF step
    <3> QED  BY <3>1, <3>2, <3>3, SMT DEF SpawnSteps
  <2> QED  BY <2>1, <2>2
<1>5. s = [i \in 1 .. Len(binary) |-> step(i)]
  BY <1>2 DEF load_binary_into_memory
<1> HIDE DEF s, step
<1>6. s \in Seq(SpawnSteps) /\ DOMAIN s = 1 .. Len(binary) /\ \A i \in 1 .. Len(binary) : s[i] = step(i)
  BY <1>2, <1>4, <1>5, SMT
<1>7. \A i \in DOMAIN s : s[i][1] \in {"table", "load", "outside"}
  BY <1>4, <1>6
<1>8. Segment(s)
  BY <1>6, <1>7, PlainSegment
<1> QED  BY <1>8 DEF s

\* The heap: its frame, then its pages.
LEMMA HeapSegment == Segment(create_user_ondemand_pages)
<1> DEFINE n == Len(HeapTables)
           f == <<"frame">>
           x(i) == map_to(<<"heap", i>>, HeapTables[i])
           h == [i \in 1 .. n |-> x(i)]
           s == << f >> \o h
<1>1. DOMAIN HeapTables = 1 .. n /\ n \in Nat /\ n > 0 /\ \A i \in 1 .. n : HeapTables[i] \in Nat
  BY TablesAssumption, SMT
<1>2. create_user_ondemand_pages = s
  BY <1>1 DEF create_user_ondemand_pages
<1>3. f \in SpawnSteps /\ f[1] = "frame" /\ f # <<"search">> /\ << f >> \in Seq(SpawnSteps)
      /\ Len(<< f >>) = 1 /\ << f >>[1] = f
  BY SMT DEF SpawnSteps
<1>4. \A i \in 1 .. n : x(i) \in SpawnSteps /\ HeapMap(x(i)) /\ x(i) # f /\ x(i) # <<"search">>
  <2> SUFFICES ASSUME NEW i \in 1 .. n
               PROVE  x(i) \in SpawnSteps /\ HeapMap(x(i)) /\ x(i) # f /\ x(i) # <<"search">>
    OBVIOUS
  <2>1. <<"heap", i>> \in HeapPages /\ HeapTables[i] \in Nat
    BY <1>1 DEF HeapPages
  <2> QED  BY <2>1 DEF map_to, HeapMap, SpawnSteps
<1> HIDE DEF f, x, n
<1>5. h \in Seq(SpawnSteps) /\ Len(h) = n /\ \A i \in 1 .. n : h[i] = x(i)
  BY <1>1, <1>4, SMT
<1> HIDE DEF h
<1>6. s \in Seq(SpawnSteps) /\ Len(s) = n + 1 /\ DOMAIN s = 1 .. n + 1
  BY <1>1, <1>3, <1>5, Joined, SMT
<1>7. s[1] = f /\ \A i \in 2 .. n + 1 : s[i] = x(i - 1) /\ i - 1 \in 1 .. n
  <2>1. \A i \in 1 .. 1 + n : s[i] = IF i <= 1 THEN << f >>[i] ELSE h[i - 1]
    BY <1>3, <1>5, Joined, ZenonT(30)
  <2>2. 1 \in 1 .. 1 + n /\ \A i \in 2 .. n + 1 : i \in 1 .. 1 + n /\ ~(i <= 1) /\ i - 1 \in 1 .. n
    BY <1>1, SMT
  <2> HIDE DEF s
  <2> QED  BY <1>3, <1>5, <2>1, <2>2, SMT
<1> HIDE DEF s
<1>8. \A i \in 2 .. n + 1 : HeapMap(s[i]) /\ s[i] # f /\ s[i] # <<"search">>
  BY <1>4, <1>7
<1>9. \A i \in 1 .. n + 1 :
        /\ s[i] # <<"search">>
        /\ s[i] = <<"frame">> => i < n + 1 /\ HeapMap(s[i + 1])
        /\ i > 1 /\ s[i][1] = "map" => HeapMap(s[i]) /\ (s[i - 1] = <<"frame">> \/ HeapMap(s[i - 1]))
  <2> SUFFICES ASSUME NEW i \in 1 .. n + 1
               PROVE  /\ s[i] # <<"search">>
                      /\ s[i] = f => i < n + 1 /\ HeapMap(s[i + 1])
                      /\ i > 1 => HeapMap(s[i]) /\ (s[i - 1] = f \/ HeapMap(s[i - 1]))
    BY DEF f
  <2>1. CASE i = 1
    <3>1. 2 \in 2 .. n + 1 /\ i < n + 1 /\ i + 1 = 2 /\ ~(i > 1)
      BY <1>1, <2>1, SMT
    <3> QED  BY <1>3, <1>7, <1>8, <2>1, <3>1
  <2>2. CASE i > 1
    <3>1. i \in 2 .. n + 1 /\ (i - 1 = 1 \/ i - 1 \in 2 .. n + 1)
      BY <1>1, <2>2, SMT
    <3> QED  BY <1>7, <1>8, <3>1
  <2> QED  BY <1>1, <2>1, <2>2, SMT
<1>10. s[1][1] # "map"
  BY <1>3, <1>7
<1> QED  BY <1>2, <1>6, <1>9, <1>10 DEF Segment

\* After the last part only the search for a stack is left.
LEMMA SearchLast ==
  ASSUME NEW s, Segment(s), todo' = s \o << <<"search">> >>
  PROVE  Building' /\ todo'[1][1] # "map"
<1> DEFINE x == <<"search">>
           n == Len(s)
<1>1. /\ s \in Seq(SpawnSteps) /\ n \in Nat /\ DOMAIN s = 1 .. n
      /\ s # <<>> <=> n > 0
  BY SMT DEF Segment
<1>2. /\ x \in SpawnSteps /\ x[1] = "search" /\ x # <<"frame">>
      /\ << x >> \in Seq(SpawnSteps) /\ Len(<< x >>) = 1 /\ << x >>[1] = x
  BY SMT DEF SpawnSteps
<1>3. \A i \in 1 .. n :
        /\ s[i] # x
        /\ s[i] = <<"frame">> => i < n /\ HeapMap(s[i + 1])
        /\ i > 1 /\ s[i][1] = "map" => HeapMap(s[i]) /\ (s[i - 1] = <<"frame">> \/ HeapMap(s[i - 1]))
  BY <1>1 DEF Segment
<1>4. n > 0 => s[1][1] # "map"
  BY <1>1 DEF Segment
<1>5. todo' = s \o << x >>
  OBVIOUS
<1> HIDE DEF x, n
<1>6. todo' \in Seq(SpawnSteps) /\ Len(todo') = n + 1 /\ DOMAIN todo' = 1 .. n + 1
  BY <1>1, <1>2, <1>5, Joined, SMT DEF n
<1>7. (\A i \in 1 .. n : todo'[i] = s[i]) /\ todo'[n + 1] = x
  <2>1. \A i \in 1 .. n + 1 : todo'[i] = IF i <= n THEN s[i] ELSE << x >>[i - n]
    BY <1>1, <1>2, <1>5, Joined, SMT DEF n
  <2>2. /\ n + 1 \in 1 .. n + 1 /\ ~(n + 1 <= n) /\ (n + 1) - n = 1
        /\ \A i \in 1 .. n : i \in 1 .. n + 1 /\ i <= n
    BY <1>1, SMT
  <2> QED  BY <1>2, <2>1, <2>2
<1> DEFINE P(i) ==
             /\ todo'[i] = x <=> i = n + 1
             /\ todo'[i] = <<"frame">> => i < n + 1 /\ HeapMap(todo'[i + 1])
             /\ i > 1 /\ todo'[i][1] = "map" =>
                  HeapMap(todo'[i]) /\ (todo'[i - 1] = <<"frame">> \/ HeapMap(todo'[i - 1]))
<1>8. ASSUME NEW i \in 1 .. n PROVE P(i)
  <2>1. /\ i # n + 1 /\ todo'[i] = s[i] /\ i < n + 1 /\ (i < n => todo'[i + 1] = s[i + 1])
        /\ i > 1 => todo'[i - 1] = s[i - 1]
    BY <1>1, <1>7, <1>8, SMT
  <2> QED  BY <1>3, <1>8, <2>1
<1>9. P(n + 1)
  BY <1>2, <1>7
<1>10. \A i \in 1 .. n + 1 : P(i)
  <2>1. \A i \in 1 .. n + 1 : i \in 1 .. n \/ i = n + 1
    BY <1>1, SMT
  <2> HIDE DEF P
  <2> QED  BY <1>8, <1>9, <2>1
<1>11. todo' # <<>>
  BY <1>1, <1>6, SMT
<1>12. Building'
  BY <1>6, <1>10, <1>11 DEF Building, HeapMap, x
<1>13. todo'[1][1] # "map"
  <2>1. CASE n > 0
    <3>1. 1 \in 1 .. n
      BY <1>1, <2>1, SMT
    <3> QED  BY <1>4, <1>7, <2>1, <3>1
  <2>2. CASE ~(n > 0)
    <3>1. n + 1 = 1
      BY <1>1, <2>2, SMT
    <3> QED  BY <1>2, <1>7, <3>1
  <2> QED  BY <2>1, <2>2
<1> QED  BY <1>12, <1>13

\* spawn_user_thread.
LEMMA SpawnStep ==
  ASSUME AInv, NEW binary \in Binaries, spawn_user_thread(binary)
  PROVE  AInv' /\ UNCHANGED frame_vars
<1>1. /\ phase = "ready" /\ phase' = "spawn" /\ log_nothing
      /\ UNCHANGED frame_vars /\ UNCHANGED <<stack_vars, tables, leaf, frame>>
  BY DEF spawn_user_thread
<1>2. Progress
  BY AllParts
<1>3. NoStack(0) /\ id = 3 /\ MappedPages = {} /\ frame = None
  BY <1>1, <1>2 DEF Progress
<1>4. FInv' /\ InBounds' /\ UNCHANGED <<frame_usage, held>>
  BY <1>1, FramesKept
<1>5. LoggerConsistent' /\ CountersOK'
  BY <1>1, <1>4, LogKept
<1>6. PagesInv'
  BY <1>1, <1>4, PagesKept DEF stack_vars
<1>7. Building' /\ todo'[1][1] # "map"
  <2> DEFINE a == copy_pagetables
             b == create_user_ondemand_pages
             c == load_binary_into_memory(binary)
             d == Repeat(StackTables, <<"table">>)
             e == << <<"search">> >>
  <2>1. Segment(a) /\ Segment(d)
    BY TableSegment, TablesAssumption DEF copy_pagetables
  <2>2. Segment(b) /\ Segment(c)
    BY HeapSegment, ProgramSegment
  <2>3. todo' = ((a \o b) \o c) \o (d \o e)
    BY DEF spawn_user_thread, first_user_stack
  <2>4. e \in Seq(SpawnSteps)
    BY SMT DEF SpawnSteps
  <2> HIDE DEF a, b, c, d, e
  <2>5. Segment((a \o b) \o c)
    BY <2>1, <2>2, Segments
  <2>6. Segment(((a \o b) \o c) \o d)
    BY <2>1, <2>5, Segments
  <2>7. (a \o b) \o c \in Seq(SpawnSteps) /\ d \in Seq(SpawnSteps)
    BY <2>1, <2>5 DEF Segment
  <2>8. todo' = (((a \o b) \o c) \o d) \o e
    <3> DEFINE s == (a \o b) \o c
    <3>1. s \in Seq(SpawnSteps) /\ d \in Seq(SpawnSteps)
      BY <2>7
    <3> HIDE DEF s
    <3>2. \A x, y, z \in Seq(SpawnSteps) : (x \o y) \o z = x \o (y \o z)
      BY SMT
    <3>3. (s \o d) \o e = s \o (d \o e)
      BY <2>4, <3>1, <3>2
    <3> QED  BY <2>3, <3>3 DEF s
  <2> QED  BY <2>6, <2>8, SearchLast DEF e
<1>8. Progress' /\ StacksTypeOK' /\ phase' \in Phases
  BY <1>1, <1>3, <1>7, StillBuilding
<1>9. InHand'
  BY <1>1, <1>3, <1>7 DEF InHand
<1> QED  BY <1>1, <1>4, <1>5, <1>6, <1>8, <1>9, Parts
=============================================================================
