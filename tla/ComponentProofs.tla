-------------------------- MODULE ComponentProofs ---------------------------
(***************************************************************************)
(* Theorems about two components that stand alone, for every value of      *)
(* their constants: the kernel heap, and the keyboard with its screen.     *)
(*                                                                         *)
(* Heap: every allocator implements the contract of Heap.  Blocks are      *)
(* handed out apart from one another because held blocks, with the room    *)
(* they really take, and what the lists hold are apart; nothing is lost    *)
(* because whole blocks move between the two.                              *)
(*                                                                         *)
(* Keyboard: a waker is registered whenever the task may go to sleep, only *)
(* the statements that lock WRITER themselves can be waited for, and only  *)
(* the vertical arrows can take the cursor off the screen.  Until a key    *)
(* moves the cursor the screen shows the lines of the text printed, by     *)
(* induction over the bytes of a text.                                     *)
(***************************************************************************)
EXTENDS KernelHeap, Keyboard, FiniteSetTheorems, WellFoundedInduction, TLAPS

\* Zenon proves the steps, but for those that cite SMT.
USE Zenon

\* The m units from p on and the n units from q on have none in common.
Apart(p, m, q, n) == p + m <= q \/ q + n <= p

\* What is behind a block of class i.
Size(i) == align_layout(BLOCK_SIZES[i])

HeldOK == held \in [Owners -> Blocks \cup {Nothing}]

\* Everything held lies below next_free, and the counter counts the holders.
BumpInv ==
  /\ next_free \in 0 .. HeapSize
  /\ allocation_count = Cardinality(Holders)
  /\ \A o \in Holders : held[o].ptr + held[o].layout.size <= next_free
  /\ \A o, q \in Holders : o # q =>
       Apart(held[o].ptr, held[o].layout.size, held[q].ptr, held[q].layout.size)

\* There is at most one free region, and it and the padded blocks are apart.
LinkedInv ==
  /\ free_list \in Seq([start : Nat, size : Nat]) /\ Len(free_list) <= 1
  /\ \A i \in DOMAIN free_list :
       /\ free_list[i].size >= NodeSize
       /\ free_list[i].start + free_list[i].size <= HeapSize
       /\ \A o \in Holders : Apart(free_list[i].start, free_list[i].size,
                                   held[o].ptr, adjusted(held[o].layout))
  /\ \A o \in Holders : held[o].ptr + adjusted(held[o].layout) <= HeapSize
  /\ \A o, q \in Holders : o # q =>
       Apart(held[o].ptr, adjusted(held[o].layout), held[q].ptr, adjusted(held[q].layout))

\* Listed blocks, whole held blocks and the fallback heap are apart, and the
\* blocks of a class, listed or held, are aligned to its size.
ListsOK ==
  /\ list_heads \in [Indices -> Seq(Nat)]
  /\ \A i \in Indices : \A k \in DOMAIN list_heads[i] :
       /\ list_heads[i][k] + Size(i) <= HeapSize
       /\ list_heads[i][k] % BLOCK_SIZES[i] = 0
       /\ \A u \in fallback : Apart(u, 1, list_heads[i][k], Size(i))
       /\ \A o \in Holders : Apart(list_heads[i][k], Size(i),
                                   held[o].ptr, Room(held[o].layout))
  /\ \A i, j \in Indices : \A k \in DOMAIN list_heads[i], m \in DOMAIN list_heads[j] :
       <<i, k>> # <<j, m>> =>
         Apart(list_heads[i][k], Size(i), list_heads[j][m], Size(j))

FixedInv ==
  /\ fallback \subseteq Units
  /\ ListsOK
  /\ \A o \in Holders :
       /\ held[o].ptr + Room(held[o].layout) <= HeapSize
       /\ \A i \in find_block_index(held[o].layout) : held[o].ptr % BLOCK_SIZES[i] = 0
       /\ \A u \in fallback : Apart(u, 1, held[o].ptr, Room(held[o].layout))
  /\ \A o, q \in Holders : o # q =>
       Apart(held[o].ptr, Room(held[o].layout), held[q].ptr, Room(held[q].layout))

HInv ==
  /\ HeldOK
  /\ ALLOCATOR \in {"bump", "linked_list", "fixed_size_block"}
  /\ ALLOCATOR = "bump" => BumpInv
  /\ ALLOCATOR = "linked_list" => LinkedInv
  /\ ALLOCATOR = "fixed_size_block" => FixedInv

-----------------------------------------------------------------------------
(* Arithmetic *)

\* The elements of a sequence.
LEMMA ElementIn ==
  ASSUME NEW S, NEW s \in Seq(S), NEW i \in 1 .. Len(s)
  PROVE  s[i] \in S
BY SMT

\* align_up rounds up to a multiple of the alignment, by less than it.
LEMMA AlignUp ==
  ASSUME NEW n \in Nat, NEW a \in Nat \ {0}
  PROVE  /\ align_up(n, a) \in Nat
         /\ n <= align_up(n, a)
         /\ align_up(n, a) % a = 0
<1> DEFINE m == n + a - 1
           d == m \div a
<1>1. m \in Nat
  BY SMT
<1>2. d \in Nat /\ m = a * d + (m % a) /\ m % a \in 0 .. a - 1
  BY <1>1, Z3
<1>3. align_up(n, a) = d * a
  BY DEF align_up
<1>4. d * a \in Nat /\ d * a = a * d
  BY <1>2, SMT
<1>5. n <= d * a
  BY <1>2, <1>4, SMT
<1>6. (d * a) % a = 0
  BY <1>2, Z3
<1> QED  BY <1>3, <1>4, <1>5, <1>6

\* Divisibility is transitive.
LEMMA Multiple ==
  ASSUME NEW p \in Nat, NEW b \in Nat \ {0}, NEW a \in Nat \ {0}, p % b = 0, b % a = 0
  PROVE  p % a = 0
<1> DEFINE k == p \div b
           m == b \div a
<1>1. k \in Nat /\ p = b * k + (p % b)
  BY Z3
<1>2. m \in Nat /\ b = a * m + (b % a)
  BY Z3
<1>3. p = b * k /\ b = a * m
  BY <1>1, <1>2, SMT
<1> HIDE DEF k, m
<1>4. p = (k * m) * a
  BY <1>1, <1>2, <1>3, Z3
<1>5. k * m \in Nat
  BY <1>1, <1>2, SMT
<1>6. \A x \in Nat : (x * a) % a = 0
  BY Z3
<1> QED  BY <1>4, <1>5, <1>6

\* A layout's size and alignment.
LEMMA LayoutOK ==
  ASSUME NEW l \in Layouts
  PROVE  l.size \in Nat \ {0} /\ l.align \in Nat \ {0}
BY LayoutsAssumption

\* adjust_layout leaves room for the block and for a node.
LEMMA AdjustedOK ==
  ASSUME NEW l \in Layouts
  PROVE  adjusted(l) \in Nat /\ adjusted(l) >= l.size /\ adjusted(l) >= NodeSize
<1>1. align_up(l.size, l.align) \in Nat /\ align_up(l.size, l.align) >= l.size
  BY LayoutOK, AlignUp
<1> QED  BY <1>1, LayoutOK, SMT DEF adjusted, NodeSize

\* The fallback heap never gives less than it is asked for.
LEMMA AlignLayout ==
  ASSUME NEW size \in Nat \ {0}
  PROVE  align_layout(size) \in Nat \ {0} /\ align_layout(size) >= size
BY SMT DEF align_layout, MinHole

\* A block size, and what is behind a block of it.
LEMMA SizeOK ==
  ASSUME NEW i \in Indices
  PROVE  /\ i \in Nat /\ BLOCK_SIZES[i] \in Nat \ {0}
         /\ Size(i) \in Nat \ {0} /\ Size(i) >= BLOCK_SIZES[i]
<1>1. i \in Nat /\ BLOCK_SIZES[i] \in Nat \ {0}
  BY BlockSizesAssumption, SMT DEF Indices
<1> QED  BY <1>1, AlignLayout DEF Size

\* find_block_index finds at most one class.
LEMMA OneClass ==
  ASSUME NEW l, NEW i \in find_block_index(l), NEW j \in find_block_index(l)
  PROVE  i = j
<1>1. i \in Indices /\ j \in Indices
  BY DEF find_block_index
<1>2. i \in Nat /\ j \in Nat
  BY <1>1, SizeOK
<1>3. i <= j /\ j <= i
  BY DEF find_block_index
<1> QED  BY <1>2, <1>3, SMT

\* The class is large enough and a multiple of the alignment.
LEMMA RoomOK ==
  ASSUME NEW l \in Layouts
  PROVE  /\ Room(l) \in Nat \ {0} /\ Room(l) >= l.size
         /\ find_block_index(l) = {} => Room(l) = align_layout(l.size)
         /\ \A i \in find_block_index(l) :
              /\ i \in Indices /\ BLOCK_SIZES[i] \in Nat \ {0} /\ Size(i) \in Nat \ {0}
              /\ Room(l) = Size(i) /\ BLOCK_SIZES[i] % l.align = 0
<1> DEFINE c == CHOOSE i \in find_block_index(l) : TRUE
<1>1. \A i \in find_block_index(l) :
        i \in Indices /\ BLOCK_SIZES[i] >= l.size /\ BLOCK_SIZES[i] % l.align = 0
  BY BlockSizesAssumption DEF find_block_index, fits, Indices
<1>2. \A i \in find_block_index(l) :
        /\ i \in Nat /\ BLOCK_SIZES[i] \in Nat \ {0}
        /\ Size(i) \in Nat \ {0} /\ Size(i) >= BLOCK_SIZES[i]
  BY <1>1, SizeOK
<1>3. \A i, j \in find_block_index(l) : i = j
  BY OneClass
<1>4. CASE find_block_index(l) = {}
  <2>1. Room(l) = align_layout(l.size)
    BY <1>4 DEF Room
  <2> QED  BY <1>4, <2>1, LayoutOK, AlignLayout
<1>5. CASE find_block_index(l) # {}
  <2>1. c \in find_block_index(l)
    BY <1>5
  <2>2. Room(l) = Size(c)
    BY <1>5 DEF Room, Size
  <2> HIDE DEF c
  <2>3. Size(c) >= l.size
    BY <1>1, <1>2, <2>1, LayoutOK, SMT
  <2> QED  BY <1>1, <1>2, <1>3, <1>5, <2>1, <2>2, <2>3
<1> QED  BY <1>4, <1>5

-----------------------------------------------------------------------------
(* The caller's side *)

\* What is held has a place and a layout.
LEMMA HeldBlock ==
  ASSUME HeldOK, NEW o \in Holders
  PROVE  /\ o \in Owners /\ held[o].ptr \in Nat /\ held[o].layout \in Layouts
         /\ held[o].layout.size \in Nat \ {0}
<1>1. o \in Owners /\ held[o] \in Blocks
  BY DEF HeldOK, Holders
<1> QED  BY <1>1, LayoutOK, SMT DEF Blocks, Units

\* An owner of nothing has no grant.
LEMMA NothingGranted ==
  [units |-> Extent(Nothing), align |-> Nothing.layout.align] = Contract!NoGrant
<1>1. Nothing.ptr = -1 /\ Nothing.layout.size = 0 /\ Nothing.layout.align = 1
  BY DEF Nothing
<1>2. Extent(Nothing) = {}
  BY <1>1, SMT DEF Extent
<1> QED  BY <1>1, <1>2 DEF Contract!NoGrant

\* Handing out p is a step of the contract if the block is in the heap,
\* aligned, and apart from everything held.
LEMMA GiveStep ==
  ASSUME HeldOK, NEW o \in Owners, NEW l \in Layouts, NEW p \in Nat,
         p + l.size <= HeapSize, p % l.align = 0,
         \A q \in Holders : Apart(p, l.size, held[q].ptr, held[q].layout.size),
         give(o, p, l)
  PROVE  /\ HeldOK' /\ Contract!HeapNext
         /\ o \notin Holders /\ Holders' = Holders \cup {o}
         /\ held'[o] = [ptr |-> p, layout |-> l]
         /\ \A q \in Holders : held'[q] = held[q]
<1> DEFINE b == [ptr |-> p, layout |-> l]
           G(h) == [units |-> Extent(h), align |-> h.layout.align]
<1>0. l.size \in Nat \ {0} /\ l.align \in Nat \ {0} /\ HeapSize \in Nat
  BY LayoutOK, HeapSizeAssumption
<1>1. held[o] = Nothing /\ held' = [held EXCEPT ![o] = b]
  BY DEF give
<1>2. b \in Blocks /\ b # Nothing
  BY <1>0, SMT DEF Blocks, Units, Nothing
<1>3. HeldOK' /\ held'[o] = b /\ \A q \in Owners \ {o} : held'[q] = held[q]
  BY <1>1, <1>2 DEF HeldOK
<1>4. /\ o \notin Holders /\ Holders' = Holders \cup {o}
      /\ \A q \in Holders : held'[q] = held[q]
  BY <1>1, <1>2, <1>3 DEF Holders
<1>5. G(Nothing) = Contract!NoGrant
  BY NothingGranted
<1>6. G(b) = [units |-> p .. p + l.size - 1, align |-> l.align]
  BY DEF Extent
<1>7. \A q \in Owners : Extent(held[q]) \cap (p .. p + l.size - 1) = {}
  <2> SUFFICES ASSUME NEW q \in Owners PROVE Extent(held[q]) \cap (p .. p + l.size - 1) = {}
    OBVIOUS
  <2>1. CASE held[q] = Nothing
    BY <2>1, SMT DEF Extent, Nothing
  <2>2. CASE held[q] # Nothing
    <3>1. q \in Holders
      BY <2>2 DEF Holders
    <3> QED  BY <3>1, <1>0, HeldBlock, SMT DEF Extent, Apart
  <2> QED  BY <2>1, <2>2
<1>8. Contract!alloc(o, l)
  <2>1. p \in 0 .. HeapSize - l.size
    BY <1>0, SMT
  <2>2. Grants[o] = Contract!NoGrant
    BY <1>1, <1>5 DEF Grants
  <2>3. \A q \in Owners : Grants[q].units \cap (p .. p + l.size - 1) = {}
    BY <1>7 DEF Grants
  <2>4. Grants' = [Grants EXCEPT ![o] = [units |-> p .. p + l.size - 1, align |-> l.align]]
    BY <1>3, <1>6 DEF Grants
  <2> QED  BY <2>1, <2>2, <2>3, <2>4 DEF Contract!alloc
<1> QED  BY <1>3, <1>4, <1>8 DEF Contract!HeapNext

\* Returning a block is a step of the contract.
LEMMA ReturnStep ==
  ASSUME HeldOK, NEW o \in Owners, return(o)
  PROVE  /\ HeldOK' /\ Contract!HeapNext
         /\ o \in Holders /\ Holders' = Holders \ {o}
         /\ \A q \in Holders' : held'[q] = held[q]
<1> DEFINE G(h) == [units |-> Extent(h), align |-> h.layout.align]
<1>1. held[o] # Nothing /\ held' = [held EXCEPT ![o] = Nothing]
  BY DEF return
<1>2. HeldOK' /\ held'[o] = Nothing /\ \A q \in Owners \ {o} : held'[q] = held[q]
  BY <1>1 DEF HeldOK
<1>3. /\ o \in Holders /\ Holders' = Holders \ {o}
      /\ \A q \in Holders' : held'[q] = held[q]
  BY <1>1, <1>2 DEF Holders
<1>4. G(Nothing) = Contract!NoGrant
  BY NothingGranted
<1>5. G(held[o]) # Contract!NoGrant
  <2>1. held[o].ptr \in Extent(held[o])
    BY <1>3, HeldBlock, SMT DEF Extent
  <2> QED  BY <2>1 DEF Contract!NoGrant
<1>6. Contract!dealloc(o)
  <2>1. Grants' = [Grants EXCEPT ![o] = Contract!NoGrant]
    BY <1>2, <1>4 DEF Grants
  <2>2. Grants[o] # Contract!NoGrant
    BY <1>5 DEF Grants
  <2> QED  BY <2>1, <2>2 DEF Contract!dealloc
<1> QED  BY <1>2, <1>3, <1>6 DEF Contract!HeapNext

-----------------------------------------------------------------------------
(* The bump allocator *)

\* alloc takes what is above next_free.
LEMMA BumpAlloc ==
  ASSUME HeldOK, BumpInv, NEW o \in Owners, NEW l \in Layouts, bump_alloc(o, l)
  PROVE  HeldOK' /\ BumpInv' /\ Contract!HeapNext
<1> DEFINE p == bump_start(l)
<1>0. l.size \in Nat \ {0} /\ l.align \in Nat \ {0} /\ HeapSize \in Nat
  BY LayoutOK, HeapSizeAssumption
<1>1. p \in Nat /\ next_free <= p /\ p % l.align = 0
  BY <1>0, AlignUp, SMT DEF BumpInv, bump_start
<1>2. /\ p + l.size <= HeapSize /\ give(o, p, l)
      /\ next_free' = p + l.size /\ allocation_count' = allocation_count + 1
  BY DEF bump_alloc
<1> HIDE DEF p
<1>3. \A q \in Holders : Apart(p, l.size, held[q].ptr, held[q].layout.size)
  BY <1>0, <1>1, HeldBlock, SMT DEF BumpInv, Apart
<1>4. /\ HeldOK' /\ Contract!HeapNext
      /\ o \notin Holders /\ Holders' = Holders \cup {o}
      /\ held'[o] = [ptr |-> p, layout |-> l]
      /\ \A q \in Holders : held'[q] = held[q]
  BY <1>1, <1>2, <1>3, GiveStep
<1>5. allocation_count' = Cardinality(Holders')
  <2>1. IsFiniteSet(Holders)
    BY OwnersAssumption, FS_Subset DEF Holders
  <2> QED  BY <1>2, <1>4, <2>1, FS_AddElement DEF BumpInv
<1>6. next_free' \in 0 .. HeapSize
  BY <1>0, <1>1, <1>2, SMT
<1>7. \A q \in Holders' : held'[q].ptr + held'[q].layout.size <= next_free'
  BY <1>0, <1>1, <1>2, <1>4, HeldBlock, SMT DEF BumpInv
<1>8. \A q, r \in Holders' : q # r =>
        Apart(held'[q].ptr, held'[q].layout.size, held'[r].ptr, held'[r].layout.size)
  <2>1. \A q \in Holders : Apart(held[q].ptr, held[q].layout.size, p, l.size)
    BY <1>3 DEF Apart
  <2> QED  BY <1>3, <1>4, <2>1, SMT DEF BumpInv
<1> QED  BY <1>4, <1>5, <1>6, <1>7, <1>8 DEF BumpInv

\* dealloc resets next_free when the last block is back.
LEMMA BumpDealloc ==
  ASSUME HeldOK, BumpInv, NEW o \in Owners, bump_dealloc(o)
  PROVE  HeldOK' /\ BumpInv' /\ Contract!HeapNext
<1>1. /\ HeldOK' /\ Contract!HeapNext
      /\ o \in Holders /\ Holders' = Holders \ {o}
      /\ \A q \in Holders' : held'[q] = held[q]
  BY ReturnStep DEF bump_dealloc
<1>2. /\ allocation_count' = allocation_count - 1
      /\ next_free' = IF allocation_count' = 0 THEN 0 ELSE next_free
  BY DEF bump_dealloc
<1>3. IsFiniteSet(Holders) /\ IsFiniteSet(Holders')
  BY <1>1, OwnersAssumption, FS_Subset DEF Holders
<1>4. allocation_count' = Cardinality(Holders')
  BY <1>1, <1>2, <1>3, FS_RemoveElement DEF BumpInv
<1>5. allocation_count' = 0 => Holders' = {}
  BY <1>3, <1>4, FS_EmptySet
<1>6. next_free' \in 0 .. HeapSize
  BY <1>2, HeapSizeAssumption, SMT DEF BumpInv
<1>7. \A q \in Holders' : held'[q].ptr + held'[q].layout.size <= next_free'
  BY <1>1, <1>2, <1>5 DEF BumpInv
<1>8. \A q, r \in Holders' : q # r =>
        Apart(held'[q].ptr, held'[q].layout.size, held'[r].ptr, held'[r].layout.size)
  BY <1>1 DEF BumpInv
<1> QED  BY <1>1, <1>4, <1>6, <1>7, <1>8 DEF BumpInv

-----------------------------------------------------------------------------
(* The linked list *)

\* alloc from the first region that is large enough.
LEMMA LinkedAlloc ==
  ASSUME HeldOK, LinkedInv, NEW o \in Owners, NEW l \in Layouts, linked_alloc(o, l)
  PROVE  HeldOK' /\ LinkedInv' /\ Contract!HeapNext
<1>1. PICK i \in DOMAIN free_list :
        LET n == free_list[i]
            rest == n.start + n.size - block_end(n, l)
        IN  /\ allocate_from_block(n, l)
            /\ free_list' = IF rest > 0 THEN add_free_block(block_end(n, l), rest)
                            ELSE SubSeq(free_list, 1, i - 1)
                                   \o SubSeq(free_list, i + 1, Len(free_list))
            /\ give(o, align_up(n.start, l.align), l)
  BY DEF linked_alloc
<1> DEFINE n == free_list[i]
           p == align_up(n.start, l.align)
           a == adjusted(l)
           rest == n.start + n.size - (p + a)
<1>2. /\ l.size \in Nat \ {0} /\ l.align \in Nat \ {0} /\ HeapSize \in Nat
      /\ a \in Nat /\ a >= l.size /\ a >= NodeSize
  BY LayoutOK, AdjustedOK, HeapSizeAssumption
<1>3. /\ n.start \in Nat /\ n.size \in Nat /\ n.start + n.size <= HeapSize
      /\ \A q \in Holders : Apart(n.start, n.size, held[q].ptr, adjusted(held[q].layout))
      /\ i = 1 /\ Len(free_list) = 1
  <2>1. free_list \in Seq([start : Nat, size : Nat]) /\ Len(free_list) <= 1
    BY DEF LinkedInv
  <2>2. i \in DOMAIN free_list
    BY <1>1
  <2>3. i = 1 /\ Len(free_list) = 1 /\ free_list[i] \in [start : Nat, size : Nat]
    <3>1. Len(free_list) \in Nat /\ DOMAIN free_list = 1 .. Len(free_list)
      BY <2>1, SMT
    <3>2. i = 1 /\ Len(free_list) = 1
      BY <2>1, <2>2, <3>1, SMT
    <3>3. free_list[i] \in [start : Nat, size : Nat]
      <4>1. i \in 1 .. Len(free_list)
        BY <3>2, SMT
      <4> QED  BY <2>1, <4>1, ElementIn
    <3> QED  BY <3>2, <3>3
  <2>4. /\ n.start + n.size <= HeapSize
        /\ \A q \in Holders : Apart(n.start, n.size, held[q].ptr, adjusted(held[q].layout))
    BY <2>2 DEF LinkedInv
  <2>5. n.start \in Nat /\ n.size \in Nat
    BY <2>3
  <2> QED  BY <2>3, <2>4, <2>5
<1>4. p \in Nat /\ n.start <= p /\ p % l.align = 0
  BY <1>2, <1>3, AlignUp
<1>5. /\ rest = 0 \/ rest >= NodeSize
      /\ free_list' = IF rest > 0 THEN <<[start |-> p + a, size |-> rest]>>
                      ELSE SubSeq(free_list, 1, 0) \o SubSeq(free_list, 2, 1)
      /\ give(o, p, l)
  BY <1>1, <1>3, SMT DEF block_end, allocate_from_block, add_free_block
<1> HIDE DEF n, p, a
<1>6. rest \in Nat /\ p + a <= n.start + n.size /\ p + l.size <= HeapSize
  <2>1. n.start \in Nat /\ n.size \in Nat /\ n.start + n.size <= HeapSize /\ p \in Nat
    BY <1>3, <1>4
  <2>2. rest = 0 \/ rest >= 2
    BY <1>5 DEF NodeSize
  <2> QED  BY <1>2, <2>1, <2>2, SMT
<1>7. \A q \in Holders :
        /\ held[q].ptr \in Nat /\ adjusted(held[q].layout) \in Nat
        /\ held[q].layout.size \in Nat /\ held[q].layout.size <= adjusted(held[q].layout)
  BY HeldBlock, AdjustedOK
<1>8. \A q \in Holders :
        /\ Apart(p, l.size, held[q].ptr, held[q].layout.size)
        /\ Apart(p, a, held[q].ptr, adjusted(held[q].layout))
        /\ Apart(held[q].ptr, adjusted(held[q].layout), p, a)
        /\ Apart(p + a, rest, held[q].ptr, adjusted(held[q].layout))
  BY <1>2, <1>3, <1>4, <1>6, <1>7, SMT DEF Apart
<1>9. /\ HeldOK' /\ Contract!HeapNext
      /\ o \notin Holders /\ Holders' = Holders \cup {o}
      /\ held'[o] = [ptr |-> p, layout |-> l]
      /\ \A q \in Holders : held'[q] = held[q]
  BY <1>4, <1>5, <1>6, <1>8, GiveStep
<1>10. \A q \in Holders' : held'[q].ptr + adjusted(held'[q].layout) <= HeapSize
  <2>1. p + a <= HeapSize
    BY <1>2, <1>3, <1>4, <1>6, SMT
  <2> QED  BY <1>9, <2>1, SMT DEF LinkedInv, a
<1>11. \A q, r \in Holders' : q # r =>
         Apart(held'[q].ptr, adjusted(held'[q].layout), held'[r].ptr, adjusted(held'[r].layout))
  BY <1>8, <1>9, SMT DEF LinkedInv, a
<1>12. /\ free_list' \in Seq([start : Nat, size : Nat]) /\ Len(free_list') <= 1
       /\ \A j \in DOMAIN free_list' : free_list'[j] = [start |-> p + a, size |-> rest] /\ rest >= NodeSize
  <2>1. CASE rest > 0
    BY <1>2, <1>4, <1>5, <1>6, <2>1, SMT DEF NodeSize
  <2>2. CASE ~(rest > 0)
    <3>1. free_list \in Seq([start : Nat, size : Nat])
      BY DEF LinkedInv
    <3>2. free_list' = <<>>
      BY <1>3, <1>5, <2>2, <3>1, SMT
    <3> QED  BY <3>2, SMT
  <2> QED  BY <2>1, <2>2
<1>13. \A j \in DOMAIN free_list' :
         /\ free_list'[j].size >= NodeSize
         /\ free_list'[j].start + free_list'[j].size <= HeapSize
         /\ \A q \in Holders' : Apart(free_list'[j].start, free_list'[j].size,
                                      held'[q].ptr, adjusted(held'[q].layout))
  <2>1. Apart(p + a, rest, p, a)
    BY <1>2, <1>4, <1>6, SMT DEF Apart
  <2>2. p + a + rest <= HeapSize
    BY <1>2, <1>3, <1>4, <1>6, SMT
  <2> HIDE DEF rest
  <2> QED  BY <1>8, <1>9, <1>12, <2>1, <2>2, SMT DEF a
<1> QED  BY <1>9, <1>10, <1>11, <1>12, <1>13 DEF LinkedInv

\* dealloc makes the block the only region.
LEMMA LinkedDealloc ==
  ASSUME HeldOK, LinkedInv, NEW o \in Owners, linked_dealloc(o)
  PROVE  HeldOK' /\ LinkedInv' /\ Contract!HeapNext
<1> DEFINE p == held[o].ptr
           a == adjusted(held[o].layout)
<1>1. /\ HeldOK' /\ Contract!HeapNext
      /\ o \in Holders /\ Holders' = Holders \ {o}
      /\ \A q \in Holders' : held'[q] = held[q]
  BY ReturnStep DEF linked_dealloc
<1>2. free_list' = <<[start |-> p, size |-> a]>>
  BY DEF linked_dealloc, add_free_block
<1>3. p \in Nat /\ a \in Nat /\ a >= NodeSize /\ p + a <= HeapSize
  BY <1>1, HeldBlock, AdjustedOK DEF LinkedInv
<1>4. \A q \in Holders' : Apart(p, a, held'[q].ptr, adjusted(held'[q].layout))
  BY <1>1 DEF LinkedInv
<1>5. /\ \A q \in Holders' : held'[q].ptr + adjusted(held'[q].layout) <= HeapSize
      /\ \A q, r \in Holders' : q # r =>
           Apart(held'[q].ptr, adjusted(held'[q].layout), held'[r].ptr, adjusted(held'[r].layout))
  BY <1>1 DEF LinkedInv
<1> HIDE DEF p, a
<1>6. /\ free_list' \in Seq([start : Nat, size : Nat]) /\ Len(free_list') <= 1
      /\ \A j \in DOMAIN free_list' : free_list'[j] = [start |-> p, size |-> a]
  BY <1>2, <1>3, SMT
<1> QED  BY <1>1, <1>3, <1>4, <1>5, <1>6, SMT DEF LinkedInv

-----------------------------------------------------------------------------
(* The fixed size blocks *)

\* Handing out a block that has the room of its layout's class and is apart from
\* what is held keeps the held blocks as they should be.
LEMMA FixedGive ==
  ASSUME HeldOK, FixedInv, NEW o \in Owners, NEW l \in Layouts, NEW p \in Nat,
         p + Room(l) <= HeapSize, p % l.align = 0,
         \A i \in find_block_index(l) : p % BLOCK_SIZES[i] = 0,
         \A q \in Holders : Apart(p, Room(l), held[q].ptr, Room(held[q].layout)),
         give(o, p, l), fallback' \subseteq fallback,
         \A u \in fallback' : Apart(u, 1, p, Room(l))
  PROVE  /\ HeldOK' /\ Contract!HeapNext /\ fallback' \subseteq Units
         /\ Holders' = Holders \cup {o} /\ o \notin Holders
         /\ held'[o] = [ptr |-> p, layout |-> l]
         /\ \A q \in Holders : held'[q] = held[q]
         /\ \A q \in Holders' :
              /\ held'[q].ptr + Room(held'[q].layout) <= HeapSize
              /\ \A i \in find_block_index(held'[q].layout) : held'[q].ptr % BLOCK_SIZES[i] = 0
              /\ \A u \in fallback' : Apart(u, 1, held'[q].ptr, Room(held'[q].layout))
         /\ \A q, r \in Holders' : q # r =>
              Apart(held'[q].ptr, Room(held'[q].layout), held'[r].ptr, Room(held'[r].layout))
<1>1. l.size \in Nat \ {0} /\ Room(l) \in Nat /\ l.size <= Room(l) /\ HeapSize \in Nat
  BY LayoutOK, RoomOK, HeapSizeAssumption
<1>2. \A q \in Holders :
        /\ held[q].ptr \in Nat /\ held[q].layout.size \in Nat
        /\ Room(held[q].layout) \in Nat /\ held[q].layout.size <= Room(held[q].layout)
  BY HeldBlock, RoomOK
<1>3. \A q \in Holders : Apart(p, l.size, held[q].ptr, held[q].layout.size)
  BY <1>1, <1>2, SMT DEF Apart
<1>4. p + l.size <= HeapSize
  BY <1>1, SMT
<1>5. /\ HeldOK' /\ Contract!HeapNext
      /\ o \notin Holders /\ Holders' = Holders \cup {o}
      /\ held'[o] = [ptr |-> p, layout |-> l]
      /\ \A q \in Holders : held'[q] = held[q]
  BY <1>3, <1>4, GiveStep
<1>6. /\ held'[o].ptr = p /\ held'[o].layout = l
  BY <1>5, SMT
<1>7. \A q \in Holders' :
        /\ held'[q].ptr + Room(held'[q].layout) <= HeapSize
        /\ \A i \in find_block_index(held'[q].layout) : held'[q].ptr % BLOCK_SIZES[i] = 0
        /\ \A u \in fallback' : Apart(u, 1, held'[q].ptr, Room(held'[q].layout))
  <2> SUFFICES ASSUME NEW q \in Holders'
               PROVE  /\ held'[q].ptr + Room(held'[q].layout) <= HeapSize
                      /\ \A i \in find_block_index(held'[q].layout) :
                           held'[q].ptr % BLOCK_SIZES[i] = 0
                      /\ \A u \in fallback' : Apart(u, 1, held'[q].ptr, Room(held'[q].layout))
    OBVIOUS
  <2>1. CASE q = o
    BY <1>6, <2>1
  <2>2. CASE q \in Holders
    BY <1>5, <2>2, SMT DEF FixedInv
  <2> QED  BY <1>5, <2>1, <2>2
<1>8. \A q \in Holders : Apart(held[q].ptr, Room(held[q].layout), p, Room(l))
  BY DEF Apart
<1>9. \A q, r \in Holders' : q # r =>
        Apart(held'[q].ptr, Room(held'[q].layout), held'[r].ptr, Room(held'[r].layout))
  BY <1>5, <1>6, <1>8 DEF FixedInv
<1> QED  BY <1>5, <1>7, <1>9 DEF FixedInv

\* A new block of the fallback heap is in it, aligned, and apart from all else.
LEMMA FirstFit ==
  ASSUME NEW size, NEW room \in Nat \ {0}, room = align_layout(size),
         NEW align \in Nat \ {0}, fallback \subseteq Units,
         NEW p \in first_fit(size, align)
  PROVE  /\ p \in Nat /\ p % align = 0 /\ p + room <= HeapSize
         /\ \A u \in fallback \ Taken(p, size) : u \in Nat /\ Apart(u, 1, p, room)
         /\ \A q \in Nat, n \in Nat \ {0} :
              (\A u \in fallback : Apart(u, 1, q, n)) => Apart(p, room, q, n)
<1>0. Taken(p, size) = p .. p + room - 1
  BY DEF Taken
<1>1. p \in Nat /\ p % align = 0 /\ p .. p + room - 1 \subseteq fallback /\ HeapSize \in Nat
  <2>1. p \in Places(size, align)
    BY DEF first_fit
  <2>2. PICK hole \in fallback : splits(hole, p, size, align)
    BY <2>1 DEF Places
  <2>3. p = aligned_addr(hole, align) /\ Taken(p, size) \subseteq fallback
    BY <2>2 DEF splits
  <2>4. hole \in Nat /\ hole + MinHole \in Nat /\ p \in Nat
    BY <2>1, HeapSizeAssumption, SMT DEF Places, Units, MinHole
  <2>5. p % align = 0
    BY <2>3, <2>4, AlignUp DEF aligned_addr
  <2> QED  BY <1>0, <2>3, <2>4, <2>5, HeapSizeAssumption
<1>2. p + room <= HeapSize
  <2>1. p + room - 1 \in p .. p + room - 1
    BY <1>1, SMT
  <2> QED  BY <1>1, <2>1, SMT DEF Units
<1>3. \A u \in fallback \ (p .. p + room - 1) : u \in Nat /\ Apart(u, 1, p, room)
  BY <1>1, SMT DEF Apart, Units
<1>4. ASSUME NEW q \in Nat, NEW n \in Nat \ {0}, \A u \in fallback : Apart(u, 1, q, n)
      PROVE  Apart(p, room, q, n)
  <2> SUFFICES ASSUME ~(p + room <= q), ~(q + n <= p)
               PROVE  FALSE
    BY DEF Apart
  <2> DEFINE u == IF q <= p THEN p ELSE q
  <2>1. u \in p .. p + room - 1
    BY <1>1, SMT
  <2>2. u \in fallback
    BY <1>1, <2>1
  <2>3. ~Apart(u, 1, q, n)
    BY <1>1, SMT DEF Apart
  <2> QED  BY <1>4, <2>2, <2>3
<1> QED  BY <1>0, <1>1, <1>2, <1>3, <1>4

\* A listed block and its size.
LEMMA ListedBlock ==
  ASSUME ListsOK, NEW i \in Indices, NEW k \in DOMAIN list_heads[i]
  PROVE  Size(i) \in Nat \ {0} /\ list_heads[i][k] \in Nat /\ k \in Nat \ {0}
<1>1. Size(i) \in Nat \ {0}
  BY SizeOK
<1>2. list_heads[i] \in Seq(Nat)
  BY DEF ListsOK
<1>3. k \in 1 .. Len(list_heads[i])
  BY <1>2, SMT
<1> QED  BY <1>1, <1>2, <1>3, SMT

\* alloc of a block from the list of its class.
LEMMA AllocListed ==
  ASSUME HeldOK, FixedInv, NEW o \in Owners, NEW l \in Layouts, alloc_listed(o, l)
  PROVE  HeldOK' /\ FixedInv' /\ Contract!HeapNext
<1>1. PICK i \in find_block_index(l) :
        /\ list_heads[i] # <<>>
        /\ list_heads' = [list_heads EXCEPT ![i] = Tail(@)]
        /\ give(o, Head(list_heads[i]), l)
        /\ UNCHANGED fallback
  BY DEF alloc_listed
<1> DEFINE p == Head(list_heads[i])
           K(j, k) == IF j = i THEN k + 1 ELSE k
<1>2. /\ i \in Indices /\ BLOCK_SIZES[i] \in Nat \ {0}
      /\ Size(i) \in Nat \ {0} /\ Room(l) = Size(i)
      /\ BLOCK_SIZES[i] % l.align = 0 /\ l.align \in Nat \ {0}
      /\ \A j \in find_block_index(l) : j = i
  BY <1>1, RoomOK, LayoutOK, OneClass
<1>3. list_heads \in [Indices -> Seq(Nat)] /\ ListsOK
  BY DEF FixedInv, ListsOK
<1>4. /\ list_heads[i] \in Seq(Nat) /\ 1 \in DOMAIN list_heads[i] /\ p = list_heads[i][1]
      /\ Tail(list_heads[i]) \in Seq(Nat)
      /\ DOMAIN list_heads[i] = 1 .. Len(list_heads[i])
      /\ DOMAIN Tail(list_heads[i]) = 1 .. Len(list_heads[i]) - 1
      /\ Len(list_heads[i]) \in Nat
      /\ \A k \in 1 .. Len(list_heads[i]) - 1 : Tail(list_heads[i])[k] = list_heads[i][k + 1]
  BY <1>1, <1>2, <1>3, SMT
<1>5. /\ list_heads' \in [Indices -> Seq(Nat)]
      /\ \A j \in Indices : \A k \in DOMAIN list_heads'[j] :
           /\ k \in Nat \ {0} /\ K(j, k) \in DOMAIN list_heads[j]
           /\ list_heads'[j][k] = list_heads[j][K(j, k)]
           /\ <<j, K(j, k)>> # <<i, 1>>
  <2>1. list_heads'[i] = Tail(list_heads[i]) /\ \A j \in Indices \ {i} : list_heads'[j] = list_heads[j]
    BY <1>1, <1>2, <1>3
  <2>2. list_heads' \in [Indices -> Seq(Nat)]
    BY <1>1, <1>2, <1>3, <1>4
  <2>3. ASSUME NEW j \in Indices, NEW k \in DOMAIN list_heads'[j]
        PROVE  /\ k \in Nat \ {0} /\ K(j, k) \in DOMAIN list_heads[j]
               /\ list_heads'[j][k] = list_heads[j][K(j, k)]
               /\ <<j, K(j, k)>> # <<i, 1>>
    <3>1. CASE j = i
      <4>1. k \in 1 .. Len(list_heads[i]) - 1 /\ list_heads'[i][k] = list_heads[i][k + 1]
        BY <1>4, <2>1, <2>3, <3>1
      <4>2. k \in Nat \ {0} /\ k + 1 \in DOMAIN list_heads[i] /\ k + 1 # 1
        BY <1>4, <4>1, SMT
      <4> QED  BY <3>1, <4>1, <4>2
    <3>2. CASE j # i
      <4>1. list_heads'[j] = list_heads[j] /\ k \in DOMAIN list_heads[j]
        BY <2>1, <2>3, <3>2
      <4>2. k \in Nat \ {0}
        BY <1>3, <4>1, ListedBlock, ZenonT(30)
      <4> QED  BY <3>2, <4>1, <4>2
    <3> QED  BY <3>1, <3>2
  <2> QED  BY <2>2, <2>3
<1>6. /\ p \in Nat /\ p + Room(l) <= HeapSize /\ p % BLOCK_SIZES[i] = 0
      /\ \A u \in fallback : Apart(u, 1, p, Room(l))
      /\ \A q \in Holders : Apart(p, Room(l), held[q].ptr, Room(held[q].layout))
  BY <1>2, <1>3, <1>4, ListedBlock, SMT DEF ListsOK
<1>7. p % l.align = 0
  BY <1>2, <1>6, Multiple
<1>8. /\ HeldOK' /\ Contract!HeapNext /\ fallback' \subseteq Units
      /\ Holders' = Holders \cup {o} /\ o \notin Holders
      /\ held'[o] = [ptr |-> p, layout |-> l]
      /\ \A q \in Holders : held'[q] = held[q]
      /\ \A q \in Holders' :
           /\ held'[q].ptr + Room(held'[q].layout) <= HeapSize
           /\ \A j \in find_block_index(held'[q].layout) : held'[q].ptr % BLOCK_SIZES[j] = 0
           /\ \A u \in fallback' : Apart(u, 1, held'[q].ptr, Room(held'[q].layout))
      /\ \A q, r \in Holders' : q # r =>
           Apart(held'[q].ptr, Room(held'[q].layout), held'[r].ptr, Room(held'[r].layout))
  BY <1>1, <1>2, <1>6, <1>7, FixedGive
<1> HIDE DEF p, K
<1>9. ListsOK'
  <2>1. ASSUME NEW j \in Indices, NEW k \in DOMAIN list_heads'[j]
        PROVE  /\ list_heads'[j][k] + Size(j) <= HeapSize
               /\ list_heads'[j][k] % BLOCK_SIZES[j] = 0
               /\ \A u \in fallback' : Apart(u, 1, list_heads'[j][k], Size(j))
               /\ \A q \in Holders' : Apart(list_heads'[j][k], Size(j),
                                            held'[q].ptr, Room(held'[q].layout))
    <3>1. Apart(list_heads[j][K(j, k)], Size(j), p, Room(l))
      BY <1>2, <1>3, <1>4, <1>5, <2>1, SMT DEF ListsOK
    <3>2. \A q \in Holders : Apart(list_heads[j][K(j, k)], Size(j),
                                   held[q].ptr, Room(held[q].layout))
      BY <1>3, <1>5, <2>1, ZenonT(30) DEF ListsOK
    <3>3. \A q \in Holders' : Apart(list_heads'[j][k], Size(j),
                                    held'[q].ptr, Room(held'[q].layout))
      <4>1. list_heads'[j][k] = list_heads[j][K(j, k)]
        BY <1>5, <2>1
      <4>2. held'[o].ptr = p /\ held'[o].layout = l
        BY <1>8, SMT
      <4>3. \A q \in Holders' : q = o \/ (q \in Holders /\ held'[q] = held[q])
        BY <1>8
      <4> QED  BY <3>1, <3>2, <4>1, <4>2, <4>3
    <3> QED  BY <1>1, <1>3, <1>5, <2>1, <3>3, SMTT(30) DEF ListsOK
  <2>2. ASSUME NEW j \in Indices, NEW h \in Indices,
               NEW k \in DOMAIN list_heads'[j], NEW m \in DOMAIN list_heads'[h],
               <<j, k>> # <<h, m>>
        PROVE  Apart(list_heads'[j][k], Size(j), list_heads'[h][m], Size(h))
    <3>1. <<j, K(j, k)>> # <<h, K(h, m)>>
      BY <1>5, <2>2, SMT DEF K
    <3> QED  BY <1>3, <1>5, <2>2, <3>1, SMT DEF ListsOK
  <2> QED  BY <1>5, <2>1, <2>2, ZenonT(30) DEF ListsOK
<1> QED  BY <1>8, <1>9 DEF FixedInv

\* A block out of the fallback heap, for a class or for a layout above them all.
LEMMA AllocFresh ==
  ASSUME HeldOK, FixedInv, NEW o \in Owners, NEW l \in Layouts,
         NEW align \in Nat \ {0}, align % l.align = 0,
         \A i \in find_block_index(l) : align = BLOCK_SIZES[i],
         NEW size, Room(l) = align_layout(size), NEW p \in first_fit(size, align),
         fallback' = fallback \ Taken(p, size),
         give(o, p, l), UNCHANGED list_heads
  PROVE  HeldOK' /\ FixedInv' /\ Contract!HeapNext
<1>1. Room(l) \in Nat \ {0} /\ l.align \in Nat \ {0} /\ fallback \subseteq Units /\ ListsOK
  BY RoomOK, LayoutOK DEF FixedInv
<1>2. /\ p \in Nat /\ p % align = 0 /\ p + Room(l) <= HeapSize
      /\ \A u \in fallback' : u \in Nat /\ Apart(u, 1, p, Room(l))
      /\ \A q \in Nat, n \in Nat \ {0} :
           (\A u \in fallback : Apart(u, 1, q, n)) => Apart(p, Room(l), q, n)
  BY <1>1, FirstFit
<1>3. p % l.align = 0
  BY <1>1, <1>2, Multiple
<1>4. \A q \in Holders : Apart(p, Room(l), held[q].ptr, Room(held[q].layout))
  <2>1. \A q \in Holders : held[q].ptr \in Nat /\ Room(held[q].layout) \in Nat \ {0}
    BY HeldBlock, RoomOK, ZenonT(30)
  <2> QED  BY <1>2, <2>1 DEF FixedInv
<1>5. /\ HeldOK' /\ Contract!HeapNext /\ fallback' \subseteq Units
      /\ Holders' = Holders \cup {o} /\ o \notin Holders
      /\ held'[o] = [ptr |-> p, layout |-> l]
      /\ \A q \in Holders : held'[q] = held[q]
      /\ \A q \in Holders' :
           /\ held'[q].ptr + Room(held'[q].layout) <= HeapSize
           /\ \A j \in find_block_index(held'[q].layout) : held'[q].ptr % BLOCK_SIZES[j] = 0
           /\ \A u \in fallback' : Apart(u, 1, held'[q].ptr, Room(held'[q].layout))
      /\ \A q, r \in Holders' : q # r =>
           Apart(held'[q].ptr, Room(held'[q].layout), held'[r].ptr, Room(held'[r].layout))
  BY <1>2, <1>3, <1>4, FixedGive
<1>6. ListsOK'
  <2>1. ASSUME NEW j \in Indices, NEW k \in DOMAIN list_heads[j]
        PROVE  \A q \in Holders' : Apart(list_heads[j][k], Size(j),
                                         held'[q].ptr, Room(held'[q].layout))
    <3>1. Apart(p, Room(l), list_heads[j][k], Size(j))
      <4>1. list_heads[j][k] \in Nat /\ Size(j) \in Nat \ {0}
        BY <1>1, <2>1, ListedBlock
      <4>2. \A u \in fallback : Apart(u, 1, list_heads[j][k], Size(j))
        BY <1>1, <2>1 DEF ListsOK
      <4> QED  BY <1>2, <4>1, <4>2
    <3>2. Apart(list_heads[j][k], Size(j), p, Room(l))
      BY <3>1 DEF Apart
    <3>3. ASSUME NEW q \in Holders
          PROVE  Apart(list_heads[j][k], Size(j), held'[q].ptr, Room(held'[q].layout))
      <4>1. held'[q] = held[q]
        BY <1>5
      <4>2. Apart(list_heads[j][k], Size(j), held[q].ptr, Room(held[q].layout))
        BY <1>1, <2>1, ZenonT(30) DEF ListsOK
      <4> QED  BY <4>1, <4>2
    <3>4. held'[o].ptr = p /\ held'[o].layout = l
      BY <1>5, SMT
    <3> QED  BY <1>5, <3>2, <3>3, <3>4
  <2> QED  BY <1>1, <2>1 DEF ListsOK
<1> QED  BY <1>5, <1>6 DEF FixedInv

\* dealloc to the list of its class.
LEMMA DeallocListed ==
  ASSUME HeldOK, FixedInv, NEW o \in Owners, dealloc_listed(o)
  PROVE  HeldOK' /\ FixedInv' /\ Contract!HeapNext
<1>1. PICK i \in find_block_index(held[o].layout) :
        /\ list_heads' = [list_heads EXCEPT ![i] = <<held[o].ptr>> \o @]
        /\ return(o)
        /\ UNCHANGED fallback
  BY DEF dealloc_listed
<1> DEFINE p == held[o].ptr
           K(j, k) == IF j = i THEN k - 1 ELSE k
<1>2. /\ HeldOK' /\ Contract!HeapNext
      /\ o \in Holders /\ Holders' = Holders \ {o}
      /\ \A q \in Holders' : held'[q] = held[q]
  BY <1>1, ReturnStep
<1>3. /\ i \in Indices /\ Size(i) \in Nat \ {0} /\ p \in Nat
      /\ Room(held[o].layout) = Size(i)
  BY <1>1, <1>2, HeldBlock, RoomOK
<1>4. list_heads \in [Indices -> Seq(Nat)] /\ ListsOK
  BY DEF FixedInv, ListsOK
<1>5. /\ p + Size(i) <= HeapSize /\ p % BLOCK_SIZES[i] = 0
      /\ \A u \in fallback : Apart(u, 1, p, Size(i))
      /\ \A q \in Holders' : Apart(p, Size(i), held'[q].ptr, Room(held'[q].layout))
  BY <1>1, <1>2, <1>3 DEF FixedInv
<1>6. /\ list_heads' \in [Indices -> Seq(Nat)]
      /\ \A j \in Indices : \A k \in DOMAIN list_heads'[j] :
           \/ j = i /\ k = 1 /\ list_heads'[j][k] = p
           \/ /\ <<j, k>> # <<i, 1>> /\ k \in Nat \ {0} /\ K(j, k) \in DOMAIN list_heads[j]
              /\ list_heads'[j][k] = list_heads[j][K(j, k)]
  <2> DEFINE s == list_heads[i]
             t == <<p>> \o s
  <2>1. list_heads'[i] = t /\ \A j \in Indices \ {i} : list_heads'[j] = list_heads[j]
    BY <1>1, <1>3, <1>4, ZenonT(30)
  <2>2. s \in Seq(Nat) /\ <<p>> \in Seq(Nat)
    BY <1>3, <1>4, SMT
  <2>3. t \in Seq(Nat) /\ Len(t) = Len(s) + 1 /\ Len(s) \in Nat
    BY <2>2, SMT
  <2>4. t[1] = p /\ \A k \in 2 .. Len(s) + 1 : t[k] = s[k - 1]
    BY <2>2, SMT
  <2>5. list_heads' \in [Indices -> Seq(Nat)]
    BY <1>1, <1>3, <1>4, <2>3
  <2>6. DOMAIN t = 1 .. Len(s) + 1 /\ DOMAIN s = 1 .. Len(s)
    BY <2>2, <2>3, SMT
  <2> HIDE DEF s, t
  <2>7. ASSUME NEW j \in Indices, NEW k \in DOMAIN list_heads'[j]
        PROVE  \/ j = i /\ k = 1 /\ list_heads'[j][k] = p
               \/ /\ <<j, k>> # <<i, 1>> /\ k \in Nat \ {0} /\ K(j, k) \in DOMAIN list_heads[j]
                  /\ list_heads'[j][k] = list_heads[j][K(j, k)]
    <3>1. CASE j = i /\ k = 1
      BY <2>1, <2>4, <3>1
    <3>2. CASE j = i /\ k # 1
      <4>1. k \in 2 .. Len(s) + 1
        BY <2>1, <2>3, <2>6, <2>7, <3>2, SMT
      <4>2. k \in Nat \ {0} /\ k - 1 \in DOMAIN s /\ list_heads'[i][k] = s[k - 1]
        BY <2>1, <2>3, <2>4, <2>6, <4>1, SMT
      <4> QED  BY <3>2, <4>2 DEF s
    <3>3. CASE j # i
      <4>1. list_heads'[j] = list_heads[j] /\ k \in DOMAIN list_heads[j]
        BY <2>1, <2>7, <3>3
      <4>2. k \in Nat \ {0}
        BY <1>4, <4>1, ListedBlock
      <4> QED  BY <3>3, <4>1, <4>2
    <3> QED  BY <3>1, <3>2, <3>3
  <2> QED  BY <2>5, <2>7
<1> HIDE DEF p, K
<1>7. ListsOK'
  <2>1. ASSUME NEW j \in Indices, NEW k \in DOMAIN list_heads'[j]
        PROVE  /\ list_heads'[j][k] + Size(j) <= HeapSize
               /\ list_heads'[j][k] % BLOCK_SIZES[j] = 0
               /\ \A u \in fallback' : Apart(u, 1, list_heads'[j][k], Size(j))
               /\ \A q \in Holders' : Apart(list_heads'[j][k], Size(j),
                                            held'[q].ptr, Room(held'[q].layout))
    <3>1. CASE j = i /\ k = 1 /\ list_heads'[j][k] = p
      BY <1>1, <1>5, <3>1
    <3>2. CASE K(j, k) \in DOMAIN list_heads[j] /\ list_heads'[j][k] = list_heads[j][K(j, k)]
      BY <1>1, <1>2, <1>4, <3>2 DEF ListsOK
    <3> QED  BY <1>6, <2>1, <3>1, <3>2
  <2>2. ASSUME NEW j \in Indices, NEW k \in DOMAIN list_heads[j]
        PROVE  Apart(list_heads[j][k], Size(j), p, Size(i))
    BY <1>2, <1>3, <1>4, <2>2 DEF ListsOK, p
  <2>3. ASSUME NEW j \in Indices, NEW h \in Indices,
               NEW k \in DOMAIN list_heads'[j], NEW m \in DOMAIN list_heads'[h],
               <<j, k>> # <<h, m>>
        PROVE  Apart(list_heads'[j][k], Size(j), list_heads'[h][m], Size(h))
    <3>1. CASE j = i /\ k = 1 /\ list_heads'[j][k] = p
      <4>1. K(h, m) \in DOMAIN list_heads[h] /\ list_heads'[h][m] = list_heads[h][K(h, m)]
        BY <1>6, <2>3, <3>1
      <4>2. Apart(list_heads'[h][m], Size(h), p, Size(i))
        BY <2>2, <4>1
      <4> QED  BY <3>1, <4>2 DEF Apart
    <3>2. CASE h = i /\ m = 1 /\ list_heads'[h][m] = p
      BY <1>6, <2>2, <2>3, <3>2, SMT
    <3>3. CASE /\ <<j, k>> # <<i, 1>> /\ <<h, m>> # <<i, 1>>
               /\ k \in Nat \ {0} /\ m \in Nat \ {0}
               /\ K(j, k) \in DOMAIN list_heads[j] /\ K(h, m) \in DOMAIN list_heads[h]
               /\ list_heads'[j][k] = list_heads[j][K(j, k)]
               /\ list_heads'[h][m] = list_heads[h][K(h, m)]
      <4>1. <<j, K(j, k)>> # <<h, K(h, m)>>
        BY <2>3, <3>3, SMT DEF K
      <4> QED  BY <1>4, <3>3, <4>1 DEF ListsOK
    <3> QED  BY <1>6, <2>3, <3>1, <3>2, <3>3
  <2> QED  BY <1>6, <2>1, <2>3 DEF ListsOK
<1> QED  BY <1>1, <1>2, <1>7 DEF FixedInv

\* dealloc to the fallback heap.
LEMMA DeallocLarge ==
  ASSUME HeldOK, FixedInv, NEW o \in Owners, dealloc_large(o)
  PROVE  HeldOK' /\ FixedInv' /\ Contract!HeapNext
<1> DEFINE p == held[o].ptr
           n == align_layout(held[o].layout.size)
<1>1. /\ HeldOK' /\ Contract!HeapNext
      /\ o \in Holders /\ Holders' = Holders \ {o}
      /\ \A q \in Holders' : held'[q] = held[q]
  BY ReturnStep DEF dealloc_large
<1>2. fallback' = fallback \cup (p .. p + n - 1) /\ list_heads' = list_heads
  BY DEF dealloc_large, Taken
<1>3. p \in Nat /\ n \in Nat \ {0} /\ Room(held[o].layout) = n /\ HeapSize \in Nat
  BY <1>1, HeldBlock, RoomOK, AlignLayout, HeapSizeAssumption DEF dealloc_large
<1>4. p + n <= HeapSize /\ fallback \subseteq Units /\ ListsOK
  BY <1>1, <1>3 DEF FixedInv
<1> HIDE DEF p, n
<1>5. fallback' \subseteq Units
  BY <1>2, <1>3, <1>4, SMT DEF Units
\* What is apart from the block is apart from each of its units.
<1>6. ASSUME NEW q \in Nat, NEW m \in Nat, Apart(p, n, q, m),
             NEW u \in p .. p + n - 1
      PROVE  Apart(u, 1, q, m)
  BY <1>3, <1>6, SMT DEF Apart
<1>7. \A q \in Holders' :
        /\ held'[q].ptr + Room(held'[q].layout) <= HeapSize
        /\ \A i \in find_block_index(held'[q].layout) : held'[q].ptr % BLOCK_SIZES[i] = 0
        /\ \A u \in fallback' : Apart(u, 1, held'[q].ptr, Room(held'[q].layout))
  <2>1. \A q \in Holders' :
          /\ held[q].ptr \in Nat /\ Room(held[q].layout) \in Nat
          /\ Apart(p, n, held[q].ptr, Room(held[q].layout))
    BY <1>1, <1>3, HeldBlock, RoomOK DEF FixedInv, p
  <2>2. \A q \in Holders' : \A u \in p .. p + n - 1 :
          Apart(u, 1, held[q].ptr, Room(held[q].layout))
    BY <1>6, <2>1
  <2> QED  BY <1>1, <1>2, <2>2 DEF FixedInv
<1>8. \A q, r \in Holders' : q # r =>
        Apart(held'[q].ptr, Room(held'[q].layout), held'[r].ptr, Room(held'[r].layout))
  BY <1>1 DEF FixedInv
<1>9. ListsOK'
  <2>1. ASSUME NEW j \in Indices, NEW k \in DOMAIN list_heads[j]
        PROVE  \A u \in fallback' : Apart(u, 1, list_heads[j][k], Size(j))
    <3>1. Apart(list_heads[j][k], Size(j), p, n)
      BY <1>1, <1>3, <1>4, <2>1 DEF ListsOK, p
    <3>2. Apart(p, n, list_heads[j][k], Size(j))
      BY <3>1 DEF Apart
    <3>3. list_heads[j][k] \in Nat /\ Size(j) \in Nat
      BY <1>4, <2>1, ListedBlock
    <3>4. \A u \in p .. p + n - 1 : Apart(u, 1, list_heads[j][k], Size(j))
      BY <1>6, <3>2, <3>3
    <3> QED  BY <1>2, <1>4, <2>1, <3>4 DEF ListsOK
  <2>2. \A j \in Indices : \A k \in DOMAIN list_heads[j] : \A q \in Holders' :
          Apart(list_heads[j][k], Size(j), held'[q].ptr, Room(held'[q].layout))
    BY <1>1, <1>4 DEF ListsOK
  <2>3. ASSUME NEW i \in Indices, NEW k \in DOMAIN list_heads'[i]
        PROVE  /\ list_heads'[i][k] + Size(i) <= HeapSize
               /\ list_heads'[i][k] % BLOCK_SIZES[i] = 0
               /\ \A u \in fallback' : Apart(u, 1, list_heads'[i][k], Size(i))
               /\ \A q \in Holders' : Apart(list_heads'[i][k], Size(i),
                                            held'[q].ptr, Room(held'[q].layout))
    <3>1. k \in DOMAIN list_heads[i] /\ list_heads'[i][k] = list_heads[i][k]
      BY <1>2, <2>3
    <3> QED  BY <1>4, <2>1, <2>2, <3>1 DEF ListsOK
  <2>4. list_heads \in [Indices -> Seq(Nat)]
    BY <1>4 DEF ListsOK
  <2>5. \A i, j \in Indices : \A k \in DOMAIN list_heads[i], m \in DOMAIN list_heads[j] :
          <<i, k>> # <<j, m>> =>
            Apart(list_heads[i][k], Size(i), list_heads[j][m], Size(j))
    BY <1>4 DEF ListsOK
  <2> QED  BY <1>2, <2>3, <2>4, <2>5 DEF ListsOK
<1> QED  BY <1>1, <1>5, <1>7, <1>8, <1>9 DEF FixedInv

-----------------------------------------------------------------------------
(* All of them *)

\* The empty heap.
LEMMA HInvStart == KernelHeapInit => HInv /\ Contract!HeapInit
<1> SUFFICES ASSUME KernelHeapInit
             PROVE  HInv /\ Contract!HeapInit
  OBVIOUS
<1> USE DEF KernelHeapInit
<1>1. held = [o \in Owners |-> Nothing] /\ Holders = {} /\ HeldOK
  BY DEF AllocationInit, Holders, HeldOK
<1>2. Contract!HeapInit
  <2>1. \A o \in Owners : held[o] = Nothing
    BY <1>1
  <2> QED  BY <2>1, NothingGranted DEF Contract!HeapInit, Grants
<1>3. BumpInv
  BY <1>1, HeapSizeAssumption, FS_EmptySet, SMT DEF BumpInit, BumpInv
<1>4. LinkedInv
  BY <1>1, HeapSizeAssumption, SMT DEF LinkedInit, add_free_block, LinkedInv, NodeSize
<1>5. FixedInv
  <2>1. list_heads \in [Indices -> Seq(Nat)] /\ \A i \in Indices : DOMAIN list_heads[i] = {}
    BY SMT DEF FixedInit
  <2>2. ListsOK
    BY <2>1 DEF ListsOK
  <2> QED  BY <1>1, <2>2 DEF FixedInit, FixedInv
<1> QED  BY <1>1, <1>2, <1>3, <1>4, <1>5 DEF HInv

\* Every step of the fixed size blocks.
LEMMA FixedStep ==
  ASSUME HeldOK, FixedInv, FixedNext
  PROVE  HeldOK' /\ FixedInv' /\ Contract!HeapNext
<1>1. PICK o \in Owners :
        \/ dealloc_listed(o)
        \/ dealloc_large(o)
        \/ \E l \in Layouts : alloc_listed(o, l) \/ alloc_block(o, l) \/ alloc_large(o, l)
  BY DEF FixedNext
<1>2. CASE dealloc_listed(o)
  BY <1>2, DeallocListed
<1>3. CASE dealloc_large(o)
  BY <1>3, DeallocLarge
<1>4. ASSUME NEW l \in Layouts, alloc_listed(o, l)
      PROVE  HeldOK' /\ FixedInv' /\ Contract!HeapNext
  BY <1>4, AllocListed
<1>5. ASSUME NEW l \in Layouts, alloc_block(o, l)
      PROVE  HeldOK' /\ FixedInv' /\ Contract!HeapNext
  <2>1. PICK i \in find_block_index(l) :
          /\ \E p \in first_fit(BLOCK_SIZES[i], BLOCK_SIZES[i]) :
               fallback' = fallback \ Taken(p, BLOCK_SIZES[i]) /\ give(o, p, l)
          /\ UNCHANGED list_heads
    BY <1>5 DEF alloc_block
  <2>2. PICK p \in first_fit(BLOCK_SIZES[i], BLOCK_SIZES[i]) :
          fallback' = fallback \ Taken(p, BLOCK_SIZES[i]) /\ give(o, p, l)
    BY <2>1
  <2>3. /\ BLOCK_SIZES[i] \in Nat \ {0} /\ Room(l) = align_layout(BLOCK_SIZES[i])
        /\ BLOCK_SIZES[i] % l.align = 0
    BY RoomOK DEF Size
  <2>4. \A j \in find_block_index(l) : BLOCK_SIZES[i] = BLOCK_SIZES[j]
    BY OneClass
  <2> QED  BY <2>1, <2>2, <2>3, <2>4, AllocFresh
<1>6. ASSUME NEW l \in Layouts, alloc_large(o, l)
      PROVE  HeldOK' /\ FixedInv' /\ Contract!HeapNext
  <2>1. /\ find_block_index(l) = {} /\ Room(l) = align_layout(l.size)
        /\ l.align \in Nat \ {0} /\ UNCHANGED list_heads
    BY <1>6, RoomOK, LayoutOK DEF alloc_large
  <2>2. PICK p \in first_fit(l.size, l.align) :
          fallback' = fallback \ Taken(p, l.size) /\ give(o, p, l)
    BY <1>6 DEF alloc_large
  <2>3. l.align % l.align = 0
    BY <2>1, Z3
  <2> QED  BY <2>1, <2>2, <2>3, AllocFresh
<1> QED  BY <1>1, <1>2, <1>3, <1>4, <1>5, <1>6

\* Every step of the heap.
LEMMA HInvStep ==
  ASSUME HInv, [KernelHeapNext]_heap_vars
  PROVE  HInv' /\ (Contract!HeapNext \/ UNCHANGED held)
<1>1. CASE UNCHANGED heap_vars
  <2>1. UNCHANGED <<held, next_free, allocation_count, free_list, list_heads, fallback, ALLOCATOR>>
    BY <1>1 DEF heap_vars
  <2>2. (HeldOK <=> HeldOK') /\ Holders' = Holders
    BY <2>1 DEF HeldOK, Holders
  <2>3. (BumpInv => BumpInv') /\ (LinkedInv => LinkedInv')
    BY <2>1, <2>2 DEF BumpInv, LinkedInv
  <2>4. FixedInv => FixedInv'
    BY <2>1, <2>2 DEF FixedInv, ListsOK
  <2> QED  BY <2>1, <2>2, <2>3, <2>4 DEF HInv
<1>2. CASE ALLOCATOR = "bump" /\ BumpNext /\ UNCHANGED ALLOCATOR
  <2>1. HeldOK /\ BumpInv
    BY <1>2 DEF HInv
  <2>2. HeldOK' /\ BumpInv' /\ Contract!HeapNext
    BY <1>2, <2>1, BumpAlloc, BumpDealloc DEF BumpNext
  <2> QED  BY <1>2, <2>2 DEF HInv
<1>3. CASE ALLOCATOR = "linked_list" /\ LinkedNext /\ UNCHANGED ALLOCATOR
  <2>1. HeldOK /\ LinkedInv
    BY <1>3 DEF HInv
  <2>2. HeldOK' /\ LinkedInv' /\ Contract!HeapNext
    BY <1>3, <2>1, LinkedAlloc, LinkedDealloc DEF LinkedNext
  <2> QED  BY <1>3, <2>2 DEF HInv
<1>4. CASE ALLOCATOR = "fixed_size_block" /\ FixedNext /\ UNCHANGED ALLOCATOR
  <2>1. HeldOK /\ FixedInv
    BY <1>4 DEF HInv
  <2>2. HeldOK' /\ FixedInv' /\ Contract!HeapNext
    BY <1>4, <2>1, FixedStep
  <2> QED  BY <1>4, <2>2 DEF HInv
<1> QED  BY <1>1, <1>2, <1>3, <1>4 DEF KernelHeapNext

\* Every reachable state of the heap satisfies the invariant of the allocator
\* that serves it.
THEOREM HeapInvariant == KernelHeapSpec => []HInv
BY HInvStart, HInvStep, PTL DEF KernelHeapSpec

\* Each of the three allocators of mem/allocator implements the contract of
\* GlobalAlloc: what alloc hands out lies in the heap, is aligned as its layout
\* asks, and is disjoint from all that is held.
THEOREM AllocatorsFulfilContract == KernelHeapSpec => FulfilsContract
<1>1. KernelHeapInit => Contract!HeapInit
  BY HInvStart
<1>2. HInv /\ [KernelHeapNext]_heap_vars => [Contract!HeapNext]_Grants
  BY HInvStep DEF Grants
<1> QED  BY <1>1, <1>2, HeapInvariant, PTL DEF KernelHeapSpec, FulfilsContract, Contract!HeapSpec

\* Neither alloc nor dealloc writes a list node into memory that somebody holds.
THEOREM NodesStayOutside == KernelHeapSpec => []NodesOutsideLive
<1>1. HInv => NodesOutsideLive
  <2> SUFFICES ASSUME HInv
               PROVE  NodesOutsideLive
    OBVIOUS
  <2>1. ASSUME ALLOCATOR = "linked_list", NEW i \in DOMAIN free_list
        PROVE  (Region(free_list[i]) \cup Node(free_list[i])) \cap Live = {}
    <3>1. HeldOK /\ LinkedInv
      BY <2>1 DEF HInv
    <3>2. free_list[i].start \in Nat /\ free_list[i].size \in Nat /\ free_list[i].size >= NodeSize
      <4>1. free_list \in Seq([start : Nat, size : Nat]) /\ i \in 1 .. Len(free_list)
        BY <2>1, <3>1, SMT DEF LinkedInv
      <4>2. free_list[i] \in [start : Nat, size : Nat]
        BY <4>1, ElementIn
      <4> QED  BY <2>1, <3>1, <4>2 DEF LinkedInv
    <3>3. Node(free_list[i]) \subseteq Region(free_list[i])
      BY <3>2, SMT DEF Node, Region, NodeSize
    <3>4. ASSUME NEW o \in Holders
          PROVE  Region(free_list[i]) \cap Extent(held[o]) = {}
      <4>1. /\ held[o].ptr \in Nat /\ held[o].layout.size \in Nat
            /\ adjusted(held[o].layout) \in Nat /\ held[o].layout.size <= adjusted(held[o].layout)
        BY <3>1, <3>4, HeldBlock, AdjustedOK
      <4>2. Apart(free_list[i].start, free_list[i].size, held[o].ptr, adjusted(held[o].layout))
        BY <2>1, <3>1, <3>4 DEF LinkedInv
      <4> QED  BY <3>2, <4>1, <4>2, SMT DEF Region, Extent, Apart
    <3> QED  BY <3>3, <3>4 DEF Live
  <2>2. ASSUME ALLOCATOR = "fixed_size_block", NEW o \in Holders
        PROVE  (Listed \cup fallback) \cap Extent(held[o]) = {}
    <3>1. HeldOK /\ FixedInv /\ ListsOK
      BY <2>2 DEF HInv, FixedInv
    <3>2. /\ held[o].ptr \in Nat /\ held[o].layout.size \in Nat
          /\ Room(held[o].layout) \in Nat /\ held[o].layout.size <= Room(held[o].layout)
      BY <2>2, <3>1, HeldBlock, RoomOK
    <3>3. fallback \cap Extent(held[o]) = {}
      <4>1. \A u \in fallback : u \in Nat /\ Apart(u, 1, held[o].ptr, Room(held[o].layout))
        BY <2>2, <3>1, HeapSizeAssumption, SMT DEF FixedInv, Units
      <4> QED  BY <3>2, <4>1, SMT DEF Extent, Apart
    <3>4. ASSUME NEW x \in ListedBlocks
          PROVE  Block(x[1], list_heads[x[1]][x[2]]) \cap Extent(held[o]) = {}
      <4>1. x[1] \in Indices /\ x[2] \in DOMAIN list_heads[x[1]]
        <5>1. x[1] \in Indices /\ x[2] \in 1 .. HeapSize /\ x[2] <= Len(list_heads[x[1]])
          BY <3>4 DEF ListedBlocks
        <5>2. list_heads[x[1]] \in Seq(Nat)
          BY <3>1, <5>1 DEF ListsOK
        <5> QED  BY <5>1, <5>2, HeapSizeAssumption, SMT
      <4>2. list_heads[x[1]][x[2]] \in Nat /\ Size(x[1]) \in Nat
        BY <3>1, <4>1, ListedBlock
      <4>3. Apart(list_heads[x[1]][x[2]], Size(x[1]), held[o].ptr, Room(held[o].layout))
        BY <2>2, <3>1, <4>1 DEF ListsOK
      <4> QED  BY <3>2, <4>2, <4>3, SMT DEF Block, Taken, Size, Extent, Apart
    <3> QED  BY <3>3, <3>4 DEF Listed
  <2> QED  BY <2>1, <2>2, SMT DEF NodesOutsideLive, Live
<1> QED  BY <1>1, HeapInvariant, PTL

-----------------------------------------------------------------------------
(* Nothing is lost. *)

\* Unit u is in the fallback heap, in a listed block or in a held one.
InList(u) == \E i \in Indices : \E k \in DOMAIN list_heads[i] : u \in Block(i, list_heads[i][k])
InHeld(u) == \E o \in Holders : u \in Backing(held[o])
Somewhere(u) == u \in fallback \/ InList(u) \/ InHeld(u)

\* The inductive invariant behind NothingLost.
KeepsAll ==
  /\ ALLOCATOR = "bump" /\ Holders = {} => next_free = 0
  /\ ALLOCATOR = "fixed_size_block" => \A u \in Units : Somewhere(u)

\* give adds a holder.
LEMMA GiveHolder ==
  ASSUME HeldOK, NEW o \in Owners, NEW l, NEW p \in Nat, give(o, p, l)
  PROVE  /\ Holders' = Holders \cup {o}
         /\ held'[o].ptr = p /\ held'[o].layout = l
         /\ \A q \in Holders : held'[q] = held[q]
<1>1. held[o] = Nothing /\ held' = [held EXCEPT ![o] = [ptr |-> p, layout |-> l]]
  BY DEF give
<1>2. [ptr |-> p, layout |-> l] # Nothing
  BY SMT DEF Nothing
<1>3. held'[o] = [ptr |-> p, layout |-> l] /\ \A q \in Owners \ {o} : held'[q] = held[q]
  BY <1>1 DEF HeldOK
<1> QED  BY <1>1, <1>2, <1>3, SMT DEF Holders

\* What is held stays held when another block is given.
LEMMA GiveKeeps ==
  ASSUME HeldOK, NEW o \in Owners, NEW l, NEW p \in Nat, give(o, p, l), NEW u
  PROVE  /\ InHeld(u) => InHeld(u)'
         /\ u \in p .. p + Room(l) - 1 => InHeld(u)'
<1>1. /\ Holders' = Holders \cup {o}
      /\ held'[o].ptr = p /\ held'[o].layout = l
      /\ \A q \in Holders : held'[q] = held[q]
  BY GiveHolder
<1>2. InHeld(u) => InHeld(u)'
  BY <1>1 DEF InHeld, Backing
<1>3. Backing(held'[o]) = p .. p + Room(l) - 1
  BY <1>1 DEF Backing
<1> QED  BY <1>1, <1>2, <1>3 DEF InHeld

\* A new block out of the fallback heap is held afterwards.
LEMMA FreshKeeps ==
  ASSUME HeldOK, NEW o \in Owners, NEW l, NEW p \in Nat, give(o, p, l),
         fallback' = fallback \ (p .. p + Room(l) - 1), UNCHANGED list_heads,
         NEW u, Somewhere(u)
  PROVE  Somewhere(u)'
<1>1. (InHeld(u) => InHeld(u)') /\ (u \in p .. p + Room(l) - 1 => InHeld(u)')
  BY GiveKeeps
<1>2. InList(u) => InList(u)'
  BY DEF InList
<1> QED  BY <1>1, <1>2 DEF Somewhere

\* A list without its first element.
LEMMA HeadTail ==
  ASSUME NEW s \in Seq(Nat), s # <<>>
  PROVE  /\ Head(s) = s[1] /\ s[1] \in Nat /\ DOMAIN s = 1 .. Len(s) /\ Len(s) \in Nat \ {0}
         /\ DOMAIN Tail(s) = 1 .. Len(s) - 1
         /\ \A k \in 1 .. Len(s) - 1 : Tail(s)[k] = s[k + 1]
BY SMT

\* The first block of a list is held afterwards, the others move up.
LEMMA ListedKeeps ==
  ASSUME HeldOK, ListsOK, NEW o \in Owners, NEW l \in Layouts, alloc_listed(o, l),
         NEW u, Somewhere(u)
  PROVE  Somewhere(u)'
<1>1. PICK i \in find_block_index(l) :
        /\ list_heads[i] # <<>>
        /\ list_heads' = [list_heads EXCEPT ![i] = Tail(@)]
        /\ give(o, Head(list_heads[i]), l)
        /\ UNCHANGED fallback
  BY DEF alloc_listed
<1>2. i \in Indices /\ Room(l) = Size(i) /\ list_heads[i] \in Seq(Nat)
  BY RoomOK DEF ListsOK
<1> DEFINE s == list_heads[i]
           t == Tail(s)
<1>3. /\ Head(s) = s[1] /\ s[1] \in Nat /\ DOMAIN s = 1 .. Len(s) /\ Len(s) \in Nat \ {0}
      /\ DOMAIN t = 1 .. Len(s) - 1 /\ \A k \in 1 .. Len(s) - 1 : t[k] = s[k + 1]
  <2>1. s \in Seq(Nat) /\ s # <<>>
    BY <1>1, <1>2
  <2> HIDE DEF s
  <2> QED  BY <2>1, HeadTail
<1>4. list_heads'[i] = t /\ \A j \in Indices \ {i} : list_heads'[j] = list_heads[j]
  BY <1>1, <1>2 DEF ListsOK
<1>5. (InHeld(u) => InHeld(u)') /\ (u \in s[1] .. s[1] + Room(l) - 1 => InHeld(u)')
  BY <1>1, <1>3, GiveKeeps
<1> HIDE DEF s, t
<1>6. ASSUME NEW j \in Indices, NEW k \in DOMAIN list_heads[j], u \in Block(j, list_heads[j][k])
      PROVE  InList(u)' \/ InHeld(u)'
  <2>1. CASE j # i
    BY <1>4, <1>6, <2>1 DEF InList
  <2>2. CASE j = i /\ k = 1
    BY <1>2, <1>5, <1>6, <2>2 DEF Block, Taken, Size, s
  <2>3. CASE j = i /\ k # 1
    <3>1. k - 1 \in 1 .. Len(s) - 1 /\ k \in 1 .. Len(s)
      BY <1>3, <1>6, <2>3, SMT DEF s
    <3>2. k - 1 \in DOMAIN t /\ t[k - 1] = s[k]
      BY <1>3, <3>1, SMT
    <3>3. u \in Block(i, t[k - 1])
      BY <1>6, <2>3, <3>2 DEF s
    <3> QED  BY <1>2, <1>4, <3>2, <3>3, ZenonT(30) DEF InList
  <2> QED  BY <2>1, <2>2, <2>3
<1>7. InList(u) => InList(u)' \/ InHeld(u)'
  BY <1>6 DEF InList
<1> QED  BY <1>1, <1>5, <1>7 DEF Somewhere

\* Only what is returned is no longer held.
LEMMA ReturnKeeps ==
  ASSUME HeldOK, NEW o \in Owners, return(o), NEW u, InHeld(u)
  PROVE  InHeld(u)' \/ u \in Backing(held[o])
<1>1. Holders' = Holders \ {o} /\ \A q \in Holders' : held'[q] = held[q]
  BY ReturnStep
<1> QED  BY <1>1 DEF InHeld

\* A block that is returned is the first of its list.
LEMMA DeallocListedKeeps ==
  ASSUME HeldOK, ListsOK, NEW o \in Owners, dealloc_listed(o), NEW u, Somewhere(u)
  PROVE  Somewhere(u)'
<1>1. PICK i \in find_block_index(held[o].layout) :
        /\ list_heads' = [list_heads EXCEPT ![i] = <<held[o].ptr>> \o @]
        /\ return(o)
        /\ UNCHANGED fallback
  BY DEF dealloc_listed
<1>2. o \in Holders
  BY <1>1, ReturnStep
<1>3. held[o].ptr \in Nat /\ held[o].layout \in Layouts
  BY <1>2, HeldBlock
<1>4. i \in Indices /\ Room(held[o].layout) = Size(i) /\ list_heads[i] \in Seq(Nat)
  BY <1>3, RoomOK DEF ListsOK
<1> DEFINE p == held[o].ptr
           s == list_heads[i]
           t == <<p>> \o s
<1>5. /\ DOMAIN s = 1 .. Len(s) /\ Len(s) \in Nat
      /\ DOMAIN t = 1 .. Len(s) + 1 /\ t[1] = p /\ \A k \in 1 .. Len(s) : t[k + 1] = s[k]
  BY <1>3, <1>4, SMT
<1>6. list_heads'[i] = t /\ \A j \in Indices \ {i} : list_heads'[j] = list_heads[j]
  BY <1>1, <1>4 DEF ListsOK
<1>7. Backing(held[o]) = Block(i, p)
  BY <1>4 DEF Backing, Block, Taken, Size
<1> HIDE DEF p, s, t
<1>8. u \in Backing(held[o]) => InList(u)'
  <2>1. 1 \in DOMAIN list_heads'[i] /\ list_heads'[i][1] = p
    BY <1>5, <1>6, SMT
  <2> QED  BY <1>4, <1>7, <2>1 DEF InList
<1>9. ASSUME NEW j \in Indices, NEW k \in DOMAIN list_heads[j], u \in Block(j, list_heads[j][k])
      PROVE  InList(u)'
  <2>1. CASE j # i
    BY <1>6, <1>9, <2>1 DEF InList
  <2>2. CASE j = i
    <3>1. k \in 1 .. Len(s) /\ k + 1 \in 1 .. Len(s) + 1
      BY <1>5, <1>9, <2>2, SMT DEF s
    <3>2. k + 1 \in DOMAIN t /\ t[k + 1] = s[k]
      BY <1>5, <3>1
    <3>3. u \in Block(i, t[k + 1])
      BY <1>9, <2>2, <3>2 DEF s
    <3> QED  BY <1>4, <1>6, <3>2, <3>3, ZenonT(30) DEF InList
  <2> QED  BY <2>1, <2>2
<1>10. InList(u) => InList(u)'
  BY <1>9 DEF InList
<1>11. InHeld(u) => InHeld(u)' \/ InList(u)'
  BY <1>1, <1>8, ReturnKeeps
<1> QED  BY <1>1, <1>10, <1>11 DEF Somewhere

\* A large block goes back to the fallback heap.
LEMMA DeallocLargeKeeps ==
  ASSUME HeldOK, NEW o \in Owners, dealloc_large(o), NEW u, Somewhere(u)
  PROVE  Somewhere(u)'
<1>1. /\ return(o) /\ list_heads' = list_heads
      /\ fallback' = fallback \cup Taken(held[o].ptr, held[o].layout.size)
  BY DEF dealloc_large
<1>2. o \in Holders
  BY <1>1, ReturnStep
<1>3. Room(held[o].layout) = align_layout(held[o].layout.size)
  BY <1>2, HeldBlock, RoomOK DEF dealloc_large
<1>4. Backing(held[o]) = Taken(held[o].ptr, held[o].layout.size)
  BY <1>3 DEF Backing, Taken
<1>5. InHeld(u) => InHeld(u)' \/ u \in fallback'
  BY <1>1, <1>4, ReturnKeeps
<1>6. InList(u) => InList(u)'
  BY <1>1 DEF InList
<1> QED  BY <1>1, <1>5, <1>6 DEF Somewhere

\* A list of blocks is no longer than the heap, as the blocks are apart.
LEMMA ListBounded ==
  ASSUME ListsOK, NEW i \in Indices
  PROVE  /\ list_heads[i] \in Seq(Nat) /\ Len(list_heads[i]) \in Nat
         /\ DOMAIN list_heads[i] = 1 .. Len(list_heads[i])
         /\ Len(list_heads[i]) <= HeapSize
<1> DEFINE s == list_heads[i]
           n == Len(s)
<1>1. s \in Seq(Nat) /\ n \in Nat /\ DOMAIN s = 1 .. n /\ HeapSize \in Nat
  BY HeapSizeAssumption, SMT DEF ListsOK
<1>2. \A k \in 1 .. n : s[k] \in Units
  <2> SUFFICES ASSUME NEW k \in 1 .. n PROVE s[k] \in Units
    OBVIOUS
  <2>1. Size(i) \in Nat \ {0} /\ s[k] \in Nat
    BY <1>1, ListedBlock
  <2>2. s[k] + Size(i) <= HeapSize
    BY <1>1 DEF ListsOK
  <2> QED  BY <1>1, <2>1, <2>2, SMTT(30) DEF Units
<1>3. \A k, m \in 1 .. n : s[k] = s[m] => k = m
  <2> SUFFICES ASSUME NEW k \in 1 .. n, NEW m \in 1 .. n, k # m PROVE s[k] # s[m]
    OBVIOUS
  <2>1. Size(i) \in Nat \ {0} /\ s[k] \in Nat /\ s[m] \in Nat
    BY <1>1, ListedBlock
  <2>2. <<i, k>> # <<i, m>>
    OBVIOUS
  <2>3. Apart(s[k], Size(i), s[m], Size(i))
    BY <1>1, <2>2 DEF ListsOK
  <2> QED  BY <2>1, <2>3, SMT DEF Apart
<1>4. s \in Injection(1 .. n, Units)
  <2>1. s \in [1 .. n -> Units]
    <3>1. s \in [1 .. n -> Nat]
      BY <1>1, SMT
    <3> QED  BY <1>2, <3>1
  <2> HIDE DEF s, n
  <2> QED  BY <1>3, <2>1 DEF Injection, IsInjective
<1>5. /\ IsFiniteSet(Units) /\ Cardinality(Units) = HeapSize
      /\ IsFiniteSet(1 .. n) /\ Cardinality(1 .. n) = n
  <2>1. HeapSize - 1 \in Int /\ 0 \in Int /\ 1 \in Int /\ n \in Int
    BY <1>1, SMT
  <2>2. /\ IsFiniteSet(Units) /\ Cardinality(Units) = IF 0 > HeapSize - 1 THEN 0 ELSE HeapSize - 1 - 0 + 1
        /\ IsFiniteSet(1 .. n) /\ Cardinality(1 .. n) = IF 1 > n THEN 0 ELSE n - 1 + 1
    BY <2>1, FS_Interval DEF Units
  <2> QED  BY <1>1, <2>2, SMT
<1>6. Cardinality(1 .. n) <= Cardinality(Units)
  BY <1>4, <1>5, FS_Injection
<1> QED  BY <1>1, <1>5, <1>6

\* No operation of the fixed size blocks loses a unit.
LEMMA FixedKeeps ==
  ASSUME HeldOK, FixedInv, FixedNext, \A u \in Units : Somewhere(u)
  PROVE  \A u \in Units : Somewhere(u)'
<1> SUFFICES ASSUME NEW u \in Units
             PROVE  Somewhere(u)'
  OBVIOUS
<1>1. Somewhere(u) /\ ListsOK /\ fallback \subseteq Units
  BY DEF FixedInv
<1>2. PICK o \in Owners :
        \/ dealloc_listed(o)
        \/ dealloc_large(o)
        \/ \E l \in Layouts : alloc_listed(o, l) \/ alloc_block(o, l) \/ alloc_large(o, l)
  BY DEF FixedNext
<1>3. CASE dealloc_listed(o)
  BY <1>1, <1>3, DeallocListedKeeps
<1>4. CASE dealloc_large(o)
  BY <1>1, <1>4, DeallocLargeKeeps
<1>5. ASSUME NEW l \in Layouts, alloc_listed(o, l)
      PROVE  Somewhere(u)'
  BY <1>1, <1>5, ListedKeeps
<1>6. ASSUME NEW l \in Layouts, alloc_block(o, l)
      PROVE  Somewhere(u)'
  <2>1. PICK i \in find_block_index(l) :
          /\ \E p \in first_fit(BLOCK_SIZES[i], BLOCK_SIZES[i]) :
               fallback' = fallback \ Taken(p, BLOCK_SIZES[i]) /\ give(o, p, l)
          /\ UNCHANGED list_heads
    BY <1>6 DEF alloc_block
  <2>2. PICK p \in first_fit(BLOCK_SIZES[i], BLOCK_SIZES[i]) :
          fallback' = fallback \ Taken(p, BLOCK_SIZES[i]) /\ give(o, p, l)
    BY <2>1
  <2>3. Taken(p, BLOCK_SIZES[i]) = p .. p + Room(l) - 1
    BY RoomOK DEF Taken, Size
  <2>4. p \in Nat
    BY SMT DEF first_fit, Places, Units
  <2> QED  BY <1>1, <2>1, <2>2, <2>3, <2>4, FreshKeeps
<1>7. ASSUME NEW l \in Layouts, alloc_large(o, l)
      PROVE  Somewhere(u)'
  <2>1. Room(l) = align_layout(l.size) /\ UNCHANGED list_heads
    BY <1>7, RoomOK DEF alloc_large
  <2>2. PICK p \in first_fit(l.size, l.align) :
          fallback' = fallback \ Taken(p, l.size) /\ give(o, p, l)
    BY <1>7 DEF alloc_large
  <2>3. p \in Nat
    BY SMT DEF first_fit, Places, Units
  <2>4. Taken(p, l.size) = p .. p + Room(l) - 1
    BY <2>1 DEF Taken
  <2> QED  BY <1>1, <2>1, <2>2, <2>3, <2>4, FreshKeeps
<1> QED  BY <1>2, <1>3, <1>4, <1>5, <1>6, <1>7

\* The bump allocator has its heap back when nobody holds a block.
LEMMA BumpKeeps ==
  ASSUME HeldOK, BumpInv, BumpNext
  PROVE  Holders' = {} => next_free' = 0
<1>1. PICK o \in Owners : bump_dealloc(o) \/ \E l \in Layouts : bump_alloc(o, l)
  BY DEF BumpNext
<1>2. CASE bump_dealloc(o)
  <2>1. return(o) /\ allocation_count' = allocation_count - 1
        /\ next_free' = IF allocation_count' = 0 THEN 0 ELSE next_free
    BY <1>2 DEF bump_dealloc
  <2>2. BumpInv'
    BY <1>2, BumpDealloc
  <2>3. Holders' = {} => allocation_count' = 0
    BY <2>2, FS_EmptySet DEF BumpInv
  <2> QED  BY <2>1, <2>3
<1>3. ASSUME NEW l \in Layouts, bump_alloc(o, l)
      PROVE  Holders' # {}
  <2>1. held[o] = Nothing /\ held' = [held EXCEPT ![o] = [ptr |-> bump_start(l), layout |-> l]]
    BY <1>3 DEF bump_alloc, give
  <2>2. l.size # 0
    BY LayoutOK
  <2>3. held'[o] = [ptr |-> bump_start(l), layout |-> l]
    BY <2>1 DEF HeldOK
  <2>4. held'[o].layout = l /\ Nothing.layout.size = 0
    BY <2>3, SMT DEF Nothing
  <2>5. held'[o] # Nothing
    BY <2>2, <2>4
  <2> QED  BY <2>5 DEF Holders
<1> QED  BY <1>1, <1>2, <1>3

\* No operation loses anything.
LEMMA KeepsAllStep ==
  ASSUME HInv, KeepsAll, [KernelHeapNext]_heap_vars
  PROVE  KeepsAll'
<1>1. CASE UNCHANGED heap_vars
  BY <1>1 DEF heap_vars, KeepsAll, Holders, Somewhere, InList, InHeld
<1>2. CASE ALLOCATOR = "bump" /\ BumpNext /\ UNCHANGED ALLOCATOR
  BY <1>2, BumpKeeps DEF HInv, KeepsAll
<1>3. CASE ALLOCATOR = "linked_list" /\ UNCHANGED ALLOCATOR
  BY <1>3 DEF KeepsAll
<1>4. CASE ALLOCATOR = "fixed_size_block" /\ FixedNext /\ UNCHANGED ALLOCATOR
  <2>1. \A u \in Units : Somewhere(u)'
    BY <1>4, FixedKeeps DEF HInv, KeepsAll
  <2>2. ALLOCATOR' # "bump" /\ Units' = Units
    BY <1>4 DEF Units
  <2> QED  BY <2>1, <2>2 DEF KeepsAll
<1> QED  BY <1>1, <1>2, <1>3, <1>4 DEF KernelHeapNext

\* At the start all of the heap is in the fallback heap.
LEMMA KeepsAllStart == KernelHeapInit => KeepsAll
BY DEF KernelHeapInit, BumpInit, FixedInit, KeepsAll, Somewhere

\* The lists, the fallback heap and the held blocks are the heap.
LEMMA HeapCovered ==
  ASSUME HeldOK, FixedInv, \A u \in Units : Somewhere(u)
  PROVE  Units = Listed \cup fallback \cup UNION {Backing(held[o]) : o \in Holders}
<1>0. ListsOK /\ fallback \subseteq Units /\ HeapSize \in Nat
  BY HeapSizeAssumption DEF FixedInv
<1>1. ASSUME NEW i \in Indices, NEW k \in DOMAIN list_heads[i]
      PROVE  Block(i, list_heads[i][k]) \subseteq Units /\ Block(i, list_heads[i][k]) \subseteq Listed
  <2>1. Size(i) \in Nat /\ list_heads[i][k] \in Nat /\ k \in Nat \ {0}
    BY <1>0, <1>1, ListedBlock
  <2>2. list_heads[i][k] + Size(i) <= HeapSize
    BY <1>0, <1>1 DEF ListsOK
  <2>3. k <= Len(list_heads[i]) /\ k \in 1 .. HeapSize
    BY <1>0, <1>1, <2>1, ListBounded, SMT
  <2>4. Block(i, list_heads[i][k]) \subseteq Units
    BY <1>0, <2>1, <2>2, SMT DEF Block, Taken, Size, Units
  <2>5. <<i, k>> \in ListedBlocks
    BY <2>3 DEF ListedBlocks
  <2> QED  BY <2>4, <2>5, SMT DEF Listed
<1>2. Listed \subseteq Units
  <2> SUFFICES ASSUME NEW x \in ListedBlocks
               PROVE  Block(x[1], list_heads[x[1]][x[2]]) \subseteq Units
    BY DEF Listed
  <2>1. x[1] \in Indices /\ x[2] \in 1 .. HeapSize /\ x[2] <= Len(list_heads[x[1]])
    BY DEF ListedBlocks
  <2>2. x[2] \in DOMAIN list_heads[x[1]]
    BY <1>0, <2>1, ListBounded, SMT
  <2> QED  BY <1>1, <2>1, <2>2
<1>3. \A o \in Holders : Backing(held[o]) \subseteq Units
  <2> SUFFICES ASSUME NEW o \in Holders PROVE Backing(held[o]) \subseteq Units
    OBVIOUS
  <2>1. held[o].ptr \in Nat /\ Room(held[o].layout) \in Nat
    BY HeldBlock, RoomOK
  <2>2. held[o].ptr + Room(held[o].layout) <= HeapSize
    BY DEF FixedInv
  <2> QED  BY <1>0, <2>1, <2>2, SMT DEF Backing, Units
<1>4. ASSUME NEW u \in Units
      PROVE  u \in Listed \/ u \in fallback \/ \E o \in Holders : u \in Backing(held[o])
  BY <1>1 DEF Somewhere, InList, InHeld
<1> QED  BY <1>0, <1>2, <1>3, <1>4

\* With the fixed size blocks no unit of the heap is ever lost, and no block is
\* in two lists or twice in one; the bump allocator starts over once every block
\* has been returned.
THEOREM NoMemoryLost == KernelHeapSpec => []NothingLost
<1>1. HInv /\ KeepsAll => NothingLost
  <2> SUFFICES ASSUME HInv, KeepsAll
               PROVE  NothingLost
    OBVIOUS
  <2>1. ALLOCATOR = "bump" /\ Holders = {} => next_free = 0
    BY DEF KeepsAll
  <2>2. ASSUME ALLOCATOR = "fixed_size_block"
        PROVE  Units = Listed \cup fallback \cup UNION {Backing(held[o]) : o \in Holders}
    BY <2>2, HeapCovered DEF HInv, KeepsAll
  <2>3. ASSUME ALLOCATOR = "fixed_size_block", NEW x \in ListedBlocks, NEW y \in ListedBlocks, x # y
        PROVE  Block(x[1], list_heads[x[1]][x[2]]) \cap Block(y[1], list_heads[y[1]][y[2]]) = {}
    <3>1. ListsOK
      BY <2>3 DEF HInv, FixedInv
    <3>2. /\ x[1] \in Indices /\ x[2] \in 1 .. HeapSize /\ x[2] <= Len(list_heads[x[1]])
          /\ y[1] \in Indices /\ y[2] \in 1 .. HeapSize /\ y[2] <= Len(list_heads[y[1]])
          /\ x = <<x[1], x[2]>> /\ y = <<y[1], y[2]>>
      BY SMT DEF ListedBlocks
    <3>3. x[2] \in DOMAIN list_heads[x[1]] /\ y[2] \in DOMAIN list_heads[y[1]]
      BY <3>1, <3>2, ListBounded, SMT
    <3>4. /\ Size(x[1]) \in Nat /\ list_heads[x[1]][x[2]] \in Nat
          /\ Size(y[1]) \in Nat /\ list_heads[y[1]][y[2]] \in Nat
      BY <3>1, <3>2, <3>3, ListedBlock
    <3>5. <<x[1], x[2]>> # <<y[1], y[2]>>
      BY <2>3, <3>2
    <3>6. Apart(list_heads[x[1]][x[2]], Size(x[1]), list_heads[y[1]][y[2]], Size(y[1]))
      BY <3>1, <3>2, <3>3, <3>5 DEF ListsOK
    <3> QED  BY <3>4, <3>6, SMT DEF Block, Taken, Size, Apart
  <2> QED  BY <2>1, <2>2, <2>3 DEF NothingLost
<1> QED  BY <1>1, KeepsAllStart, KeepsAllStep, HeapInvariant, PTL DEF KernelHeapSpec

-----------------------------------------------------------------------------
\* A registered waker stays until an interrupt uses it: from register on the
\* task is woken or will be.  WRITER is locked in statements of the task only.
KInv ==
  /\ WAKER \in BOOLEAN /\ woken \in BOOLEAN
  /\ pc \in {"again", "pending"} => WAKER \/ woken
  /\ NoLostWakeup
  /\ lock => pc \in Locking
  /\ SpinsOnlyBehindTask

USE DEF goto, screen_vars, task_vars, queue_vars

\* Whoever prints with interrupts off waits for nobody but the task.
LEMMA PrintWaits ==
  ASSUME KInv, NEW s, print(s), cpu = "on", UNCHANGED pc
  PROVE  (lock' => pc' \in Locking) /\ SpinsOnlyBehindTask' /\ UNCHANGED lock
BY SMT DEF KInv, print, _print, SpinsOnlyBehindTask

LEMMA InterruptStep ==
  ASSUME KInv, cpu = "on", interrupt
  PROVE  KInv'
<1>1. PICK scancode \in Keys : add_scancode(scancode)
  BY DEF interrupt
<1>2. UNCHANGED pc
  BY DEF interrupt
<1>3. CASE UNCHANGED <<SCANCODE_QUEUE, WAKER, woken>> /\ \E s : print(s)
  BY <1>2, <1>3, PrintWaits DEF KInv, NoLostWakeup
<1>4. CASE /\ woken' = (woken \/ WAKER) /\ WAKER' = FALSE
           /\ UNCHANGED <<lock, cpu>>
  BY <1>2, <1>4 DEF KInv, NoLostWakeup, SpinsOnlyBehindTask
<1> QED  BY <1>1, <1>3, <1>4 DEF add_scancode, print

LEMMA OthersStep ==
  ASSUME KInv, cpu = "on", others
  PROVE  KInv'
BY PrintWaits DEF KInv, others, NoLostWakeup

LEMMA StreamStep ==
  ASSUME KInv, cpu = "on", UNCHANGED cpu, new_stream \/ poll_next \/ executor
  PROVE  KInv'
<1>1. CASE new_stream
  BY <1>1 DEF KInv, new_stream, NoLostWakeup, SpinsOnlyBehindTask, Locking
<1>2. CASE poll_next
  BY <1>2 DEF KInv, poll_next, pop, NoLostWakeup, SpinsOnlyBehindTask, Locking
<1>3. CASE executor
  BY <1>3 DEF KInv, executor, NoLostWakeup, SpinsOnlyBehindTask, Locking
<1> QED  BY <1>1, <1>2, <1>3

LEMMA KeyStep ==
  ASSUME KInv, cpu = "on",
         ((decode \/ take_lock) /\ UNCHANGED cpu) \/ print_key \/ locked_statement
  PROVE  KInv'
<1>1. UNCHANGED <<SCANCODE_QUEUE, WAKER, woken>>
  BY DEF decode, take_lock, print_key, locked_statement
<1>2. CASE decode /\ UNCHANGED cpu
  BY <1>1, <1>2 DEF KInv, decode, NoLostWakeup, SpinsOnlyBehindTask, Locking
<1>3. CASE take_lock /\ UNCHANGED cpu
  BY <1>1, <1>3 DEF KInv, take_lock, NoLostWakeup, SpinsOnlyBehindTask, Locking
<1>4. CASE print_key
  <2>1. /\ pc' \notin {"again", "pending"}
        /\ ~lock /\ UNCHANGED <<lock, cpu>>
    BY <1>4 DEF print_key, _print
  <2> QED  BY <1>1, <2>1 DEF KInv, NoLostWakeup, SpinsOnlyBehindTask
<1>5. CASE locked_statement /\ UNCHANGED cpu /\ lock' = FALSE
  <2>1. pc' \notin {"again", "pending"}
    <3>1. pc \in Locking
      BY <1>5 DEF KInv, locked_statement
    <3>2. get_pos \/ backspace \/ delete \/ arrow
      BY <1>5 DEF locked_statement
    <3> QED  BY <3>1, <3>2 DEF get_pos, after_pos, backspace, delete, arrow, read_position
  <2> QED  BY <1>1, <1>5, <2>1 DEF KInv, NoLostWakeup, SpinsOnlyBehindTask
<1>6. CASE locked_statement /\ cpu' = "panic" /\ UNCHANGED <<pc, lock>>
  BY <1>1, <1>6 DEF KInv, NoLostWakeup, SpinsOnlyBehindTask
<1> QED  BY <1>2, <1>3, <1>4, <1>5, <1>6 DEF locked_statement

\* The invariant holds in every reachable state.
THEOREM KeyboardInvariant == KeyboardSpec => []KInv
<1>1. KeyboardInit => KInv
  BY DEF KeyboardInit, KInv, NoLostWakeup, SpinsOnlyBehindTask
<1>2. KInv /\ [KeyboardNext]_kvars => KInv'
  <2> SUFFICES ASSUME KInv, [KeyboardNext]_kvars
               PROVE  KInv'
    OBVIOUS
  <2>1. CASE UNCHANGED kvars
    BY <2>1 DEF kvars, KInv, NoLostWakeup, SpinsOnlyBehindTask
  <2>2. CASE cpu = "on" /\ task
    BY <2>2, StreamStep, KeyStep DEF task
  <2>3. CASE cpu = "on" /\ interrupt
    BY <2>3, InterruptStep
  <2>4. CASE cpu = "on" /\ others
    BY <2>4, OthersStep
  <2> QED  BY <2>1, <2>2, <2>3, <2>4 DEF KeyboardNext
<1> QED  BY <1>1, <1>2, PTL DEF KeyboardSpec

\* poll_next answers Pending only if the queue is empty and a scancode that
\* comes later wakes the task.
THEOREM WakeupsKept == KeyboardSpec => []NoLostWakeup
<1>1. KInv => NoLostWakeup
  BY DEF KInv
<1> QED  BY <1>1, KeyboardInvariant, PTL

\* The CPU waits for the lock of WRITER only behind a statement of the task that
\* holds it with interrupts enabled, never behind print!.
THEOREM PrintNeverWaitsForPrint == KeyboardSpec => []SpinsOnlyBehindTask
<1>1. KInv => SpinsOnlyBehindTask
  BY DEF KInv
<1> QED  BY <1>1, KeyboardInvariant, PTL

-----------------------------------------------------------------------------
\* Induction over the natural numbers, for sets of them: the least number
\* outside a set is 0 or follows one inside.
LEMMA NatSet ==
  ASSUME NEW T, 0 \in T, \A n \in Nat : n \in T => n + 1 \in T
  PROVE  Nat \subseteq T
<1> DEFINE Less == {ss \in Nat \X Nat : ss[1] < ss[2]}
           Out == Nat \ T
<1> SUFFICES ASSUME Out # {}
             PROVE  FALSE
  OBVIOUS
<1>1. IsWellFoundedOn(Less, Nat)
  BY NatLessThanWellFounded DEF OpToRel
<1>2. PICK x \in Out : \A y \in Out : <<y, x>> \notin Less
  <2>1. Out \subseteq Nat
    OBVIOUS
  <2> HIDE DEF Less, Out
  <2> QED  BY <1>1, <2>1, WFMin
<1>3. x \in Nat /\ x # 0
  OBVIOUS
<1>4. x - 1 \in Nat /\ x - 1 < x
  BY <1>3, SMT
<1>5. x - 1 \in T
  <2>1. <<x - 1, x>> \in Less
    BY <1>3, <1>4
  <2> QED  BY <1>2, <1>4, <2>1
<1>6. (x - 1) + 1 \in T
  BY <1>4, <1>5
<1> QED  BY <1>3, <1>6, SMT

\* written is the function its recursive definition describes.
LEMMA WrittenDef ==
  ASSUME NEW w, NEW s, Len(s) \in Nat
  PROVE  written(w, s) = [n \in 0 .. Len(s) |->
            IF n = 0 THEN w ELSE write_byte(written(w, s)[n - 1], shown(s[n]))]
<1> DEFINE Is(f, m) == f = [n \in 0 .. m |-> IF n = 0 THEN w ELSE write_byte(f[n - 1], shown(s[n]))]
           T == {m \in Nat : \E f : Is(f, m)}
<1>1. 0 \in T
  <2> DEFINE f == [n \in 0 .. 0 |-> w]
  <2>1. Is(f, 0)
    BY SMT
  <2> QED  BY <2>1
<1>2. ASSUME NEW m \in Nat, m \in T
      PROVE  m + 1 \in T
  <2>1. PICK f : Is(f, m)
    BY <1>2
  <2> DEFINE g == [n \in 0 .. m + 1 |->
                     IF n = 0 THEN w
                     ELSE IF n = m + 1 THEN write_byte(f[m], shown(s[m + 1])) ELSE f[n]]
  <2>2. \A n \in 0 .. m : g[n] = f[n]
    BY <2>1, SMT
  <2>3. ASSUME NEW n \in 0 .. m + 1, n # 0
        PROVE  g[n] = write_byte(g[n - 1], shown(s[n]))
    <3>1. n - 1 \in 0 .. m /\ g[n - 1] = f[n - 1]
      BY <2>2, <2>3, SMT
    <3>2. CASE n = m + 1
      BY <2>3, <3>1, <3>2, SMT
    <3>3. CASE n # m + 1
      <4>1. n \in 0 .. m
        BY <3>3, SMT
      <4>2. f[n] = write_byte(f[n - 1], shown(s[n]))
        BY <2>1, <2>3, <4>1
      <4> QED  BY <2>2, <3>1, <4>1, <4>2
    <3> QED  BY <3>2, <3>3
  <2>4. Is(g, m + 1)
    <3>1. g[0] = w
      BY SMT
    <3> HIDE DEF g
    <3>2. g = [n \in 0 .. m + 1 |-> g[n]]
      BY DEF g
    <3> QED  BY <2>3, <3>1, <3>2
  <2>5. \E h : Is(h, m + 1)
    <3> HIDE DEF g, Is
    <3> QED  BY <2>4
  <2> QED  BY <2>5, SMT
<1>3. Len(s) \in T
  <2> HIDE DEF T
  <2> QED  BY <1>1, <1>2, NatSet
<1>4. PICK f : Is(f, Len(s))
  BY <1>3
<1> QED  BY <1>4 DEF written

Writers == [chars : [Rows -> [Columns -> Chars]], column : 0 .. BUFFER_WIDTH, row : Rows]

\* The task's locals are what its statements need.
TaskInv ==
  /\ KeyboardTypeOK
  /\ pc \in {"back", "blank", "back2"} => pos[1] > 0
  /\ pc = "del_read" => pos[1] + 1 + Len(chars_to_right) <= BUFFER_WIDTH - 1
  /\ pc = "del_write" => Len(chars_to_right) \in 1 .. BUFFER_WIDTH - 1 - pos[1]
  /\ pc \notin {"del_read", "del_write"} => chars_to_right = <<>>
  /\ pc \in {"arrow_pos", "arrow"} => key \in Arrows
  /\ pc = "arrow" => arrow_moves(pos)
  /\ OnlyVerticalPanics

\* A character at the cursor.
LEMMA PutChar ==
  ASSUME NEW w \in Writers, NEW byte
  PROVE  [w EXCEPT !.chars[LastRow][w.column] = byte, !.column = w.column + 1]
           = [chars |-> [w.chars EXCEPT ![LastRow] = [w.chars[LastRow] EXCEPT ![w.column] = byte]],
              column |-> w.column + 1, row |-> w.row]
<1>1. /\ w.chars \in [Rows -> [Columns -> Chars]] /\ w.row \in Rows
      /\ w = [chars |-> w.chars, column |-> w.column, row |-> w.row]
  BY DEF Writers
<1>2. PICK v : v = [w EXCEPT !.chars[LastRow][w.column] = byte, !.column = w.column + 1]
  OBVIOUS
<1>3. v = [chars |-> [w.chars EXCEPT ![LastRow] = [w.chars[LastRow] EXCEPT ![w.column] = byte]],
           column |-> w.column + 1, row |-> w.row]
  BY <1>1, <1>2
<1> QED  BY <1>2, <1>3

\* write_byte keeps the screen a screen and the cursor on it.
LEMMA WriteByteType ==
  ASSUME NEW w \in Writers, NEW byte \in Chars \cup {"newline"}
  PROVE  write_byte(w, byte) \in Writers
<1>1. /\ 0 \in 0 .. BUFFER_WIDTH /\ LastRow \in Rows /\ Blank \in Chars
      /\ \A r \in Rows : r # LastRow => r + 1 \in Rows
  BY BufferAssumption, SMT DEF Rows, LastRow, Chars
<1>2. new_line(w) \in Writers /\ new_line(w).column = 0
  <2> DEFINE scrolled == [w EXCEPT !.chars = [r \in Rows |-> IF r = LastRow THEN w.chars[r]
                                                             ELSE w.chars[r + 1]]]
  <2>1. scrolled \in Writers
    BY <1>1 DEF Writers
  <2>2. clear_row(scrolled, LastRow) \in Writers
    <3> HIDE DEF scrolled
    <3> QED  BY <1>1, <2>1 DEF Writers, clear_row
  <2>3. new_line(w) = [clear_row(scrolled, LastRow) EXCEPT !.column = 0]
    BY DEF new_line
  <2> HIDE DEF scrolled
  <2> QED  BY <1>1, <2>2, <2>3 DEF Writers
<1>3. CASE byte = "newline"
  BY <1>2, <1>3 DEF write_byte
<1>4. CASE byte # "newline"
  <2> DEFINE v == IF w.column >= BUFFER_WIDTH THEN new_line(w) ELSE w
  <2>1. v \in Writers /\ v.column \in Columns
    BY <1>2, BufferAssumption, SMT DEF Writers, Columns
  <2>2. write_byte(w, byte) = [v EXCEPT !.chars[LastRow][v.column] = byte,
                                        !.column = v.column + 1]
    BY <1>4 DEF write_byte
  <2>3. byte \in Chars /\ v.column + 1 \in 0 .. BUFFER_WIDTH
    BY <1>4, <2>1, BufferAssumption, SMT DEF Columns
  <2> HIDE DEF v
  <2> DEFINE line == [v.chars[LastRow] EXCEPT ![v.column] = byte]
             rows == [v.chars EXCEPT ![LastRow] = line]
  <2>4. /\ v.chars \in [Rows -> [Columns -> Chars]] /\ v.row \in Rows
        /\ v = [chars |-> v.chars, column |-> v.column, row |-> v.row]
    BY <2>1 DEF Writers
  <2>5. line \in [Columns -> Chars]
    BY <1>1, <2>3, <2>4
  <2>6. rows \in [Rows -> [Columns -> Chars]]
    <3> HIDE DEF line
    <3> QED  BY <1>1, <2>4, <2>5
  <2>7. write_byte(w, byte) = [chars |-> rows, column |-> v.column + 1, row |-> v.row]
    BY <2>2, <2>4
  <2> HIDE DEF line, rows
  <2> QED  BY <2>3, <2>4, <2>6, <2>7, SMT DEF Writers
<1> QED  BY <1>3, <1>4

\* So does write_string.
LEMMA WriteStringType ==
  ASSUME NEW w \in Writers, NEW s, Len(s) \in Nat
  PROVE  write_string(w, s) \in Writers
<1> DEFINE T == {n \in Nat : n <= Len(s) => written(w, s)[n] \in Writers}
<1>1. 0 \in T
  <2>1. written(w, s)[0] = w
    BY WrittenDef, SMT
  <2> QED  BY <2>1
<1>2. ASSUME NEW n \in Nat, n \in T
      PROVE  n + 1 \in T
  <2> SUFFICES ASSUME n + 1 <= Len(s)
               PROVE  written(w, s)[n + 1] \in Writers
    BY SMT
  <2>1. n + 1 \in 0 .. Len(s) /\ n + 1 # 0 /\ (n + 1) - 1 = n
    BY SMT
  <2>2. written(w, s)[n + 1] = write_byte(written(w, s)[n], shown(s[n + 1]))
    BY <2>1, WrittenDef, SMT
  <2>3. written(w, s)[n] \in Writers
    BY <1>2, SMT
  <2>4. shown(s[n + 1]) \in Chars \cup {"newline"}
    BY DEF shown, Chars
  <2> QED  BY <2>2, <2>3, <2>4, WriteByteType
<1>3. Len(s) \in T
  <2> HIDE DEF T
  <2> QED  BY <1>1, <1>2, NatSet
<1> QED  BY <1>3, SMT DEF write_string

\* What _print leaves of the screen.
LEMMA PrintType ==
  ASSUME writer \in Writers, NEW s, Len(s) \in Nat, _print(s)
  PROVE  writer' \in Writers /\ UNCHANGED <<moved, lock, cpu>>
BY WriteStringType DEF _print

\* The messages that are printed are sequences.
LEMMA TextLengths ==
  /\ Len(FULL) \in Nat /\ Len(UNINITIALISED) \in Nat
  /\ \A s \in Texts : Len(s) \in Nat
  /\ \A k \in RawKeys : Len(Name[k]) \in Nat
  /\ \A k : Len(<<k>>) \in Nat
<1>1. /\ FULL \in Seq(STRING) /\ UNINITIALISED \in Seq(STRING)
      /\ \A s \in Texts : s \in Seq(STRING)
      /\ \A k \in RawKeys : Name[k] \in Seq(STRING)
  BY TextsAssumption
<1> QED  BY <1>1, SMT

\* A step that leaves the task where it is.
LEMMA TaskStays ==
  ASSUME TaskInv, UNCHANGED task_vars, writer' \in Writers, lock' \in BOOLEAN,
         cpu' \in {"on", "spin"},
         SCANCODE_QUEUE' \in Seq(Keys), Len(SCANCODE_QUEUE') <= Capacity,
         {initialised', WAKER', woken', moved'} \subseteq BOOLEAN
  PROVE  TaskInv'
<1>1. KeyboardTypeOK'
  BY DEF TaskInv, KeyboardTypeOK, Writers
<1>2. OnlyVerticalPanics'
  BY DEF OnlyVerticalPanics
<1> QED  BY <1>1, <1>2 DEF TaskInv, arrow_moves

LEMMA TaskInterrupt ==
  ASSUME TaskInv, cpu = "on", interrupt \/ others
  PROVE  TaskInv'
<1>0. /\ writer \in Writers /\ lock \in BOOLEAN /\ SCANCODE_QUEUE \in Seq(Keys)
      /\ Len(SCANCODE_QUEUE) <= Capacity
      /\ {initialised, WAKER, woken, moved} \subseteq BOOLEAN
  BY DEF TaskInv, KeyboardTypeOK, Writers
<1>1. ASSUME NEW s, Len(s) \in Nat, print(s)
      PROVE  writer' \in Writers /\ lock' \in BOOLEAN /\ cpu' \in {"on", "spin"} /\ moved' = moved
  BY <1>0, <1>1, PrintType DEF print
<1>2. UNCHANGED task_vars
  BY DEF interrupt, others
<1>3. CASE others
  <2>1. PICK s \in Texts : print(s)
    BY <1>3 DEF others
  <2> QED  BY <1>0, <1>1, <1>2, <1>3, <2>1, TextLengths, TaskStays DEF others
<1>4. CASE interrupt
  <2>1. PICK scancode \in Keys : add_scancode(scancode)
    BY <1>4 DEF interrupt
  <2>2. CASE print(UNINITIALISED) /\ UNCHANGED queue_vars
    BY <1>0, <1>1, <1>2, <2>2, TextLengths, TaskStays
  <2>3. CASE print(FULL) /\ UNCHANGED queue_vars
    BY <1>0, <1>1, <1>2, <2>3, TextLengths, TaskStays
  <2>4. CASE /\ Len(SCANCODE_QUEUE) < Capacity
             /\ SCANCODE_QUEUE' = Append(SCANCODE_QUEUE, scancode)
             /\ woken' = (woken \/ WAKER) /\ WAKER' = FALSE
             /\ UNCHANGED <<initialised, screen_vars, lock, cpu>>
    <3>1. SCANCODE_QUEUE' \in Seq(Keys) /\ Len(SCANCODE_QUEUE') <= Capacity
      BY <1>0, <2>4, KeysAssumption, SMT
    <3>2. {initialised', WAKER', woken', moved'} \subseteq BOOLEAN
      BY <1>0, <2>4
    <3> QED  BY <1>0, <1>2, <2>4, <3>1, <3>2, TaskStays, ZenonT(30)
  <2> QED  BY <2>1, <2>2, <2>3, <2>4 DEF add_scancode, print
<1> QED  BY <1>3, <1>4

LEMMA TaskStream ==
  ASSUME TaskInv, cpu = "on", UNCHANGED cpu,
         new_stream \/ poll_next \/ executor \/ decode \/ take_lock
  PROVE  TaskInv'
<1>0. /\ writer' = writer /\ moved' = moved /\ pos' = pos /\ chars_to_right' = chars_to_right
      /\ writer \in Writers /\ lock \in BOOLEAN /\ SCANCODE_QUEUE \in Seq(Keys)
      /\ Len(SCANCODE_QUEUE) <= Capacity /\ key \in Keys /\ pc \in Steps
      /\ {initialised, WAKER, woken, moved} \subseteq BOOLEAN
      /\ pos \in (0 .. BUFFER_WIDTH) \X Rows /\ chars_to_right \in Seq(Chars)
  BY DEF TaskInv, KeyboardTypeOK, Writers, new_stream, poll_next, executor, decode, take_lock
<1>1. lock' \in BOOLEAN /\ {initialised', WAKER', woken', moved'} \subseteq BOOLEAN
  BY <1>0 DEF new_stream, poll_next, pop, executor, decode, take_lock
<1>2. SCANCODE_QUEUE' \in Seq(Keys) /\ Len(SCANCODE_QUEUE') <= Capacity /\ key' \in Keys
  <2>1. CASE UNCHANGED <<SCANCODE_QUEUE, key>>
    BY <1>0, <2>1
  <2>2. CASE /\ SCANCODE_QUEUE # <<>>
             /\ key' = Head(SCANCODE_QUEUE) /\ SCANCODE_QUEUE' = Tail(SCANCODE_QUEUE)
    BY <1>0, <2>2, KeysAssumption, SMT
  <2> QED  BY <2>1, <2>2 DEF new_stream, poll_next, pop, executor, decode, take_lock
<1>3. CASE take_lock
  BY <1>0, <1>1, <1>2, <1>3, TaskStays DEF take_lock
<1>4. CASE ~take_lock
  <2>1. /\ pc \in {"new", "poll", "register", "again", "pending", "decode"}
        /\ pc' \in {"poll", "register", "again", "pending", "decode", "pos"}
    BY <1>4 DEF new_stream, poll_next, pop, executor, decode
  <2>2. KeyboardTypeOK'
    <3>1. pc' \in Steps
      BY <2>1 DEF Steps, Locking
    <3> QED  BY <1>0, <1>1, <1>2, <3>1 DEF KeyboardTypeOK, Writers
  <2>3. chars_to_right = <<>>
    BY <2>1 DEF TaskInv
  <2>4. OnlyVerticalPanics'
    BY DEF OnlyVerticalPanics
  <2> QED  BY <1>0, <2>1, <2>2, <2>3, <2>4 DEF TaskInv
<1> QED  BY <1>3, <1>4

LEMMA TaskPrints ==
  ASSUME TaskInv, cpu = "on", print_key
  PROVE  TaskInv'
<1>0. /\ writer \in Writers /\ lock \in BOOLEAN /\ SCANCODE_QUEUE \in Seq(Keys)
      /\ Len(SCANCODE_QUEUE) <= Capacity /\ key \in Keys /\ pc \in Steps
      /\ {initialised, WAKER, woken, moved} \subseteq BOOLEAN
      /\ pos \in (0 .. BUFFER_WIDTH) \X Rows /\ chars_to_right \in Seq(Chars)
  BY DEF TaskInv, KeyboardTypeOK, Writers
<1>1. UNCHANGED <<key, pos, chars_to_right, queue_vars>>
  BY DEF print_key
<1>2. writer' \in Writers /\ UNCHANGED <<moved, lock, cpu>>
  <2>1. \E s : Len(s) \in Nat /\ _print(s)
    BY TextLengths DEF print_key
  <2> QED  BY <1>0, <2>1, PrintType
<1>3. (pc = "print" /\ pc' = "poll") \/ (pc = "blank" /\ pc' = "back2")
  BY DEF print_key
<1>4. KeyboardTypeOK'
  <2>1. pc' \in Steps
    BY <1>3 DEF Steps, Locking
  <2> QED  BY <1>0, <1>1, <1>2, <2>1 DEF KeyboardTypeOK, Writers
<1>5. chars_to_right = <<>> /\ (pc = "blank" => pos[1] > 0)
  BY <1>3 DEF TaskInv
<1>6. OnlyVerticalPanics'
  BY <1>2 DEF OnlyVerticalPanics
<1> QED  BY <1>1, <1>3, <1>4, <1>5, <1>6 DEF TaskInv

\* Where an arrow that moves the cursor moves it to.
LEMMA Targets ==
  ASSUME TaskInv, key \in Arrows, arrow_moves(pos)
  PROVE  /\ target[1] \in Nat /\ target[2] \in Nat
         /\ key \in {"ArrowLeft", "ArrowRight"} => in_bounds(target[1], target[2])
<1>1. /\ pos[1] \in Nat /\ pos[1] <= BUFFER_WIDTH /\ pos[2] \in Nat /\ pos[2] < BUFFER_HEIGHT
      /\ BUFFER_WIDTH \in Nat /\ BUFFER_HEIGHT \in Nat
  BY BufferAssumption, SMT DEF TaskInv, KeyboardTypeOK, Rows
<1>2. CASE key = "ArrowUp"
  <2>1. target = <<pos[1], pos[2] - 1>> /\ pos[2] > 0
    BY <1>2 DEF target, arrow_moves
  <2> QED  BY <1>1, <1>2, <2>1, SMT
<1>3. CASE key = "ArrowDown"
  <2>1. target = <<pos[1], pos[2] + 1>>
    BY <1>3 DEF target
  <2> QED  BY <1>1, <1>3, <2>1, SMT
<1>4. CASE key = "ArrowLeft"
  <2>1. target = <<pos[1] - 1, pos[2]>> /\ pos[1] > 0
    BY <1>4 DEF target, arrow_moves
  <2> QED  BY <1>1, <2>1, SMT DEF in_bounds
<1>5. CASE key = "ArrowRight"
  <2>1. target = <<pos[1] + 1, pos[2]>> /\ pos[1] < BUFFER_WIDTH - 1
    BY <1>5 DEF target, arrow_moves
  <2> QED  BY <1>1, <2>1, SMT DEF in_bounds
<1> QED  BY <1>2, <1>3, <1>4, <1>5 DEF Arrows

\* The statements that lock WRITER.
LEMMA TaskStatement ==
  ASSUME TaskInv, cpu = "on", locked_statement
  PROVE  TaskInv'
<1>0. /\ writer \in Writers /\ lock \in BOOLEAN /\ SCANCODE_QUEUE \in Seq(Keys)
      /\ Len(SCANCODE_QUEUE) <= Capacity /\ key \in Keys /\ pc \in Steps
      /\ {initialised, WAKER, woken, moved} \subseteq BOOLEAN
      /\ pos \in (0 .. BUFFER_WIDTH) \X Rows /\ chars_to_right \in Seq(Chars)
  BY DEF TaskInv, KeyboardTypeOK, Writers
<1>1. UNCHANGED queue_vars
  BY DEF locked_statement
<1>2. pos[1] \in 0 .. BUFFER_WIDTH /\ pos[2] \in Rows /\ pos = <<pos[1], pos[2]>>
  BY <1>0, SMT
<1>3. get_position(writer) \in (0 .. BUFFER_WIDTH) \X Rows
  BY <1>0 DEF get_position, Writers
<1>4. BUFFER_WIDTH \in Nat /\ BUFFER_WIDTH > 0 /\ BUFFER_HEIGHT \in Nat /\ BUFFER_HEIGHT > 0
  BY BufferAssumption, SMT
<1>5. ASSUME NEW column \in 0 .. BUFFER_WIDTH, NEW row \in Rows, move_to(column, row)
      PROVE  writer' \in Writers /\ moved' \in BOOLEAN /\ UNCHANGED <<key, pos, chars_to_right>>
  <2>1. writer' = [writer EXCEPT !.column = column, !.row = row] /\ moved' = TRUE
        /\ UNCHANGED <<key, pos, chars_to_right>>
    BY <1>5 DEF move_to, set_position
  <2> QED  BY <1>0, <2>1 DEF Writers
<1>6. ASSUME NEW x \in Columns, NEW y \in Rows, NEW c \in Chars
      PROVE  write_char_at(writer, x, y, c) \in Writers
  BY <1>0 DEF write_char_at, Writers
<1>7. ASSUME writer' \in Writers, lock' \in BOOLEAN, moved' \in BOOLEAN, pc' \in Steps,
             UNCHANGED <<key, cpu>>,
             pos' \in (0 .. BUFFER_WIDTH) \X Rows, chars_to_right' \in Seq(Chars)
      PROVE  KeyboardTypeOK' /\ OnlyVerticalPanics'
  BY <1>0, <1>1, <1>7 DEF KeyboardTypeOK, Writers, OnlyVerticalPanics
<1>8. ASSUME get_pos, lock' = FALSE, UNCHANGED cpu
      PROVE  TaskInv'
  <2>1. /\ pc = "pos" /\ pos' = get_position(writer) /\ pc' = after_pos(pos')
        /\ UNCHANGED <<screen_vars, key, chars_to_right>>
    BY <1>8 DEF get_pos, read_position
  <2>2. /\ pc' \in {"back", "poll", "del_pos", "arrow_pos", "print"}
        /\ pc' = "back" => pos'[1] > 0
        /\ pc' = "arrow_pos" => key \in Arrows
    BY <2>1 DEF after_pos
  <2>3. KeyboardTypeOK' /\ OnlyVerticalPanics'
    <3>1. pc' \in Steps
      BY <2>2 DEF Steps, Locking
    <3> QED  BY <1>0, <1>3, <1>7, <1>8, <2>1, <3>1
  <2>4. chars_to_right = <<>>
    BY <2>1 DEF TaskInv
  <2> QED  BY <2>1, <2>2, <2>3, <2>4 DEF TaskInv
<1>9. ASSUME backspace, lock' = FALSE, UNCHANGED cpu
      PROVE  TaskInv'
  <2>1. /\ (pc = "back" /\ pc' = "blank") \/ (pc = "back2" /\ pc' = "poll")
        /\ move_to(pos[1] - 1, pos[2])
    BY <1>9 DEF backspace
  <2>2. pos[1] > 0 /\ chars_to_right = <<>>
    BY <2>1 DEF TaskInv
  <2>3. writer' \in Writers /\ moved' \in BOOLEAN /\ UNCHANGED <<key, pos, chars_to_right>>
    <3>1. pos[1] - 1 \in 0 .. BUFFER_WIDTH
      BY <1>2, <1>4, <2>2, SMT
    <3> QED  BY <1>2, <1>5, <2>1, <3>1
  <2>4. KeyboardTypeOK' /\ OnlyVerticalPanics'
    <3>1. pc' \in Steps
      BY <2>1 DEF Steps, Locking
    <3> QED  BY <1>0, <1>7, <1>9, <2>3, <3>1
  <2> QED  BY <2>1, <2>2, <2>3, <2>4 DEF TaskInv
<1>10. ASSUME delete, lock' = FALSE, UNCHANGED cpu
       PROVE  TaskInv'
  <2> DEFINE n == Len(chars_to_right)
  <2>0. n \in Nat
    BY <1>0, SMT
  <2>1. CASE /\ read_position("del_pos", get_position(writer))
             /\ pc' = IF pos'[1] < BUFFER_WIDTH - 1 THEN "del_read" ELSE "poll"
    <3>1. /\ pc = "del_pos" /\ pos' = get_position(writer)
          /\ UNCHANGED <<screen_vars, key, chars_to_right>>
      BY <2>1 DEF read_position
    <3>2. KeyboardTypeOK' /\ OnlyVerticalPanics'
      <4>1. pc' \in Steps
        BY <2>1 DEF Steps, Locking
      <4> QED  BY <1>0, <1>3, <1>7, <1>10, <3>1, <4>1
    <3>3. chars_to_right = <<>> /\ chars_to_right' = <<>> /\ Len(chars_to_right') = 0
      BY <3>1 DEF TaskInv
    <3>4. pos'[1] \in 0 .. BUFFER_WIDTH
      BY <1>3, <3>1
    <3> QED  BY <1>4, <2>1, <3>1, <3>2, <3>3, <3>4, SMT DEF TaskInv
  <2>2. CASE /\ pc = "del_read"
             /\ chars_to_right' = Append(chars_to_right, read_char(writer, pos[1] + 1 + n, pos[2]))
             /\ pc' = IF pos[1] + 1 + n = BUFFER_WIDTH - 1 THEN "del_write" ELSE "del_read"
             /\ UNCHANGED <<screen_vars, key, pos>>
    <3>1. pos[1] + 1 + n <= BUFFER_WIDTH - 1 /\ pos[1] + 1 + n \in Columns
      BY <1>2, <1>4, <2>0, <2>2, SMT DEF TaskInv, Columns
    <3>2. read_char(writer, pos[1] + 1 + n, pos[2]) \in Chars
      <4> HIDE DEF n
      <4> QED  BY <1>0, <1>2, <3>1 DEF read_char, Writers
    <3>3. chars_to_right' \in Seq(Chars) /\ Len(chars_to_right') = n + 1
      BY <1>0, <2>2, <3>2, SMT
    <3>4. KeyboardTypeOK' /\ OnlyVerticalPanics'
      <4>1. pc' \in Steps
        BY <2>2 DEF Steps, Locking
      <4> QED  BY <1>0, <1>7, <1>10, <2>2, <3>3, <4>1
    <3> HIDE DEF n
    <3>5. CASE pc' = "del_read"
      <4>1. pos'[1] + 1 + Len(chars_to_right') <= BUFFER_WIDTH - 1
        BY <1>2, <1>4, <2>0, <2>2, <3>1, <3>3, <3>5, SMT
      <4> QED  BY <3>4, <3>5, <4>1 DEF TaskInv
    <3>6. CASE pc' = "del_write"
      <4>1. Len(chars_to_right') \in 1 .. BUFFER_WIDTH - 1 - pos'[1]
        BY <1>2, <1>4, <2>0, <2>2, <3>1, <3>3, <3>6, SMT
      <4> QED  BY <3>4, <3>6, <4>1 DEF TaskInv
    <3> QED  BY <2>2, <3>5, <3>6
  <2>3. CASE /\ pc = "del_write"
             /\ writer' = write_char_at(writer, BUFFER_WIDTH - 1 - n, pos[2], Head(chars_to_right))
             /\ chars_to_right' = Tail(chars_to_right)
             /\ pc' = IF n = 1 THEN "del_last" ELSE "del_write"
             /\ moved' = TRUE /\ UNCHANGED <<key, pos>>
    <3>1. n >= 1 /\ n <= BUFFER_WIDTH - 1 - pos[1] /\ BUFFER_WIDTH - 1 - n \in Columns
      BY <1>2, <1>4, <2>0, <2>3, SMT DEF TaskInv, Columns
    <3>2. /\ Head(chars_to_right) \in Chars /\ chars_to_right' \in Seq(Chars)
          /\ Len(chars_to_right') = n - 1 /\ (n = 1 => chars_to_right' = <<>>)
      BY <1>0, <2>3, <3>1, SMT
    <3>3. writer' \in Writers
      <4> HIDE DEF n
      <4> QED  BY <1>2, <1>6, <2>3, <3>1, <3>2
    <3>4. KeyboardTypeOK' /\ OnlyVerticalPanics'
      <4>1. pc' \in Steps /\ moved' \in BOOLEAN
        BY <2>3 DEF Steps, Locking
      <4> QED  BY <1>0, <1>7, <1>10, <2>3, <3>2, <3>3, <4>1
    <3> HIDE DEF n
    <3> QED  BY <1>2, <1>4, <2>0, <2>3, <3>1, <3>2, <3>4, SMTT(30) DEF TaskInv
  <2>4. CASE /\ pc = "del_last" /\ pc' = "poll"
             /\ writer' = write_char_at(writer, BUFFER_WIDTH - 1, pos[2], Blank)
             /\ UNCHANGED <<key, pos, chars_to_right, text, moved>>
    <3>1. BUFFER_WIDTH - 1 \in Columns /\ Blank \in Chars
      BY <1>4, BufferAssumption, SMT DEF Columns, Chars
    <3>2. writer' \in Writers
      BY <1>2, <1>6, <2>4, <3>1
    <3>3. KeyboardTypeOK' /\ OnlyVerticalPanics'
      <4>1. pc' \in Steps
        BY <2>4 DEF Steps, Locking
      <4> QED  BY <1>0, <1>7, <1>10, <2>4, <3>2, <4>1
    <3> QED  BY <2>4, <3>3 DEF TaskInv
  <2> QED  BY <1>10, <2>1, <2>2, <2>3, <2>4 DEF delete
<1>11. ASSUME arrow, lock' = FALSE, UNCHANGED cpu
       PROVE  TaskInv'
  <2>1. CASE /\ read_position("arrow_pos", get_position(writer))
             /\ pc' = IF arrow_moves(pos') THEN "arrow" ELSE "poll"
    <3>1. /\ pc = "arrow_pos" /\ pos' = get_position(writer)
          /\ UNCHANGED <<screen_vars, key, chars_to_right>>
      BY <2>1 DEF read_position
    <3>2. KeyboardTypeOK' /\ OnlyVerticalPanics'
      <4>1. pc' \in Steps
        BY <2>1 DEF Steps, Locking
      <4> QED  BY <1>0, <1>3, <1>7, <1>11, <3>1, <4>1
    <3>3. (pc' = "arrow" => arrow_moves(pos)') /\ chars_to_right = <<>> /\ key \in Arrows
      BY <2>1, <3>1 DEF TaskInv, arrow_moves
    <3> QED  BY <2>1, <3>1, <3>2, <3>3 DEF TaskInv
  <2>2. CASE /\ pc = "arrow" /\ pc' = "poll"
             /\ in_bounds(target[1], target[2]) /\ move_to(target[1], target[2])
    <3>1. key \in Arrows /\ arrow_moves(pos) /\ chars_to_right = <<>>
      BY <2>2 DEF TaskInv
    <3>2. target[1] \in 0 .. BUFFER_WIDTH /\ target[2] \in Rows
      <4>1. target[1] \in Nat /\ target[2] \in Nat
        BY <3>1, Targets
      <4>2. target[1] < BUFFER_WIDTH /\ target[2] < BUFFER_HEIGHT
        BY <2>2 DEF in_bounds
      <4> QED  BY <1>4, <4>1, <4>2, SMT DEF Rows
    <3>3. writer' \in Writers /\ moved' \in BOOLEAN /\ UNCHANGED <<key, pos, chars_to_right>>
      BY <1>5, <2>2, <3>2
    <3>4. KeyboardTypeOK' /\ OnlyVerticalPanics'
      <4>1. pc' \in Steps
        BY <2>2 DEF Steps, Locking
      <4> QED  BY <1>0, <1>7, <1>11, <3>3, <4>1
    <3> QED  BY <2>2, <3>1, <3>3, <3>4 DEF TaskInv
  <2> QED  BY <1>11, <2>1, <2>2 DEF arrow
<1>12. ASSUME panics, cpu' = "panic", UNCHANGED <<screen_vars, task_vars, lock>>
       PROVE  TaskInv'
  <2>1. key \in Arrows /\ arrow_moves(pos) /\ ~in_bounds(target[1], target[2])
    BY <1>12 DEF panics, TaskInv
  <2>2. key \notin {"ArrowLeft", "ArrowRight"}
    BY <2>1, Targets
  <2>3. OnlyVerticalPanics'
    BY <1>12, <2>1, <2>2 DEF OnlyVerticalPanics, Arrows
  <2>4. KeyboardTypeOK'
    BY <1>0, <1>1, <1>12 DEF KeyboardTypeOK, Writers
  <2> QED  BY <1>12, <2>3, <2>4 DEF TaskInv, arrow_moves
<1> QED  BY <1>8, <1>9, <1>10, <1>11, <1>12 DEF locked_statement

\* Whatever interrupts and others print in between, the task's locals fit.
THEOREM TaskInvariant == KeyboardSpec => []TaskInv
<1>1. KeyboardInit => TaskInv
  <2> SUFFICES ASSUME KeyboardInit PROVE TaskInv
    OBVIOUS
  <2>1. writer \in Writers
    BY BufferAssumption, SMT DEF KeyboardInit, WRITER, Writers, Rows, LastRow, Chars
  <2>2. pos \in (0 .. BUFFER_WIDTH) \X Rows
    BY BufferAssumption, SMT DEF KeyboardInit, Rows
  <2>3. {initialised, WAKER, woken, moved, lock} \subseteq BOOLEAN
    BY DEF KeyboardInit
  <2>4. key \in Keys /\ SCANCODE_QUEUE \in Seq(Keys) /\ Len(SCANCODE_QUEUE) <= Capacity
        /\ chars_to_right \in Seq(Chars) /\ pc \in Steps /\ cpu = "on"
    BY KeysAssumption, SMT DEF KeyboardInit, Steps
  <2>5. KeyboardTypeOK
    BY <2>1, <2>2, <2>3, <2>4 DEF KeyboardTypeOK, Writers
  <2> QED  BY <2>5 DEF KeyboardInit, TaskInv, OnlyVerticalPanics
<1>2. TaskInv /\ [KeyboardNext]_kvars => TaskInv'
  <2> SUFFICES ASSUME TaskInv, [KeyboardNext]_kvars
               PROVE  TaskInv'
    OBVIOUS
  <2>1. CASE UNCHANGED kvars
    BY <2>1, ZenonT(30) DEF kvars, TaskInv, KeyboardTypeOK, OnlyVerticalPanics, arrow_moves
  <2>2. CASE cpu = "on" /\ task
    BY <2>2, TaskStream, TaskPrints, TaskStatement DEF task
  <2>3. CASE cpu = "on" /\ (interrupt \/ others)
    BY <2>3, TaskInterrupt
  <2> QED  BY <2>1, <2>2, <2>3 DEF KeyboardNext
<1> QED  BY <1>1, <1>2, PTL DEF KeyboardSpec

\* Every variable keeps its type; the cursor and all that the task reads or writes
\* by position stay on the screen.
THEOREM KeyboardTypes == KeyboardSpec => []KeyboardTypeOK
<1>1. TaskInv => KeyboardTypeOK
  BY DEF TaskInv
<1> QED  BY <1>1, TaskInvariant, PTL

\* The task leaves the screen only with an arrow that moves it up or down.
THEOREM PanicsVertical == KeyboardSpec => []OnlyVerticalPanics
<1>1. TaskInv => OnlyVerticalPanics
  BY DEF TaskInv
<1> QED  BY <1>1, TaskInvariant, PTL

-----------------------------------------------------------------------------
\* So is broken.
LEMMA BrokenDef ==
  ASSUME NEW s, Len(s) \in Nat
  PROVE  broken(s) = [n \in 0 .. Len(s) |->
            IF n = 0 THEN << <<>> >> ELSE typeset(broken(s)[n - 1], s[n])]
<1> DEFINE one == << <<>> >>
<1> HIDE DEF one
<1> DEFINE Is(f, m) == f = [n \in 0 .. m |-> IF n = 0 THEN one ELSE typeset(f[n - 1], s[n])]
           T == {m \in Nat : \E f : Is(f, m)}
<1>1. 0 \in T
  <2> DEFINE f == [n \in 0 .. 0 |-> one]
  <2>1. Is(f, 0)
    BY SMT
  <2> QED  BY <2>1
<1>2. ASSUME NEW m \in Nat, m \in T
      PROVE  m + 1 \in T
  <2>1. PICK f : Is(f, m)
    BY <1>2
  <2> DEFINE g == [n \in 0 .. m + 1 |->
                     IF n = 0 THEN one
                     ELSE IF n = m + 1 THEN typeset(f[m], s[m + 1]) ELSE f[n]]
  <2>2. \A n \in 0 .. m : g[n] = f[n]
    BY <2>1, SMT
  <2>3. ASSUME NEW n \in 0 .. m + 1, n # 0
        PROVE  g[n] = typeset(g[n - 1], s[n])
    <3>1. n - 1 \in 0 .. m /\ g[n - 1] = f[n - 1]
      BY <2>2, <2>3, SMT
    <3>2. CASE n = m + 1
      BY <2>3, <3>1, <3>2, SMT
    <3>3. CASE n # m + 1
      <4>1. n \in 0 .. m
        BY <3>3, SMT
      <4>2. f[n] = typeset(f[n - 1], s[n])
        BY <2>1, <2>3, <4>1
      <4> QED  BY <2>2, <3>1, <4>1, <4>2
    <3> QED  BY <3>2, <3>3
  <2>4. Is(g, m + 1)
    <3>1. g[0] = one
      BY SMT
    <3> HIDE DEF g
    <3>2. g = [n \in 0 .. m + 1 |-> g[n]]
      BY DEF g
    <3> QED  BY <2>3, <3>1, <3>2
  <2>5. \E h : Is(h, m + 1)
    <3> HIDE DEF g, Is
    <3> QED  BY <2>4
  <2> QED  BY <2>5, SMT
<1>3. Len(s) \in T
  <2> HIDE DEF T
  <2> QED  BY <1>1, <1>2, NatSet
<1>4. PICK f : Is(f, Len(s))
  BY <1>3
<1> QED  BY <1>4 DEF broken, one

\* The screen shows these lines.
Shows(w, lines) ==
  /\ \A r \in Rows : w.chars[r] = RowOf(lines, r)
  /\ w.column = Len(lines[Len(lines)])

\* The lines a text can be broken into.
TextLines ==
  {lines \in Seq(Seq(Chars)) :
     Len(lines) >= 1 /\ \A i \in 1 .. Len(lines) : Len(lines[i]) <= BUFFER_WIDTH}

\* new_line starts a line.
LEMMA NewLineShows ==
  ASSUME NEW w \in Writers, NEW lines \in TextLines, Shows(w, lines)
  PROVE  /\ Append(lines, <<>>) \in TextLines
         /\ Shows(new_line(w), Append(lines, <<>>))
<1> DEFINE n == Len(lines)
           ls == Append(lines, <<>>)
<1>1. /\ lines \in Seq(Seq(Chars)) /\ n \in Nat /\ n >= 1
      /\ \A i \in 1 .. n : Len(lines[i]) <= BUFFER_WIDTH
  BY SMT DEF TextLines
<1>2. /\ ls \in Seq(Seq(Chars)) /\ Len(ls) = n + 1 /\ ls[n + 1] = <<>>
      /\ \A i \in 1 .. n : ls[i] = lines[i]
  <2>1. <<>> \in Seq(Chars)
    BY SMT
  <2> QED  BY <1>1, <2>1, SMT
<1>3. BUFFER_WIDTH \in Nat /\ BUFFER_HEIGHT \in Nat /\ BUFFER_HEIGHT > 0
  BY BufferAssumption, SMT
<1> HIDE DEF ls, n
<1>4. ls \in TextLines
  <2>1. ASSUME NEW i \in 1 .. n + 1
        PROVE  Len(ls[i]) <= BUFFER_WIDTH
    <3>1. CASE i \in 1 .. n
      BY <1>1, <1>2, <3>1
    <3>2. CASE i = n + 1
      BY <1>2, <1>3, <3>2, SMT
    <3> QED  BY <1>1, <3>1, <3>2, SMT
  <2> QED  BY <1>1, <1>2, <2>1, SMT DEF TextLines
<1>5. /\ new_line(w).column = 0
      /\ \A r \in Rows : new_line(w).chars[r] = IF r = LastRow THEN [c \in Columns |-> Blank]
                                                 ELSE w.chars[r + 1]
  BY DEF new_line, clear_row, Writers
<1>6. new_line(w).chars[LastRow] = RowOf(ls, LastRow)
  <2>1. LastRow \in Rows /\ LastRow \in Int
    BY <1>3, SMT DEF LastRow, Rows
  <2>2. Len(ls) - (LastRow - LastRow) = n + 1 /\ Len(ls[n + 1]) = 0
    BY <1>1, <1>2, <2>1, SMT
  <2>3. RowOf(ls, LastRow) = [c \in Columns |-> Blank]
    BY <1>1, <2>2, SMT DEF RowOf, Columns
  <2> QED  BY <1>5, <2>1, <2>3
<1>7. ASSUME NEW r \in Rows, r # LastRow
      PROVE  new_line(w).chars[r] = RowOf(ls, r)
  <2>1. r + 1 \in Rows /\ r \in Int /\ LastRow \in Int /\ r + 1 <= LastRow
    BY <1>3, <1>7, SMT DEF Rows, LastRow
  <2> DEFINE m == n - (LastRow - (r + 1))
  <2>2. Len(ls) - (LastRow - r) = m /\ m \in Int /\ m <= n
    <3>1. ASSUME NEW a \in Int
          PROVE  n + 1 - (a - r) = n - (a - (r + 1)) /\ (r + 1 <= a => n - (a - (r + 1)) <= n)
      BY <1>1, <2>1, SMT
    <3> QED  BY <1>1, <1>2, <2>1, <3>1, SMT
  <2>3. m >= 1 => ls[m] = lines[m]
    BY <1>1, <1>2, <2>2, SMT
  <2>4. w.chars[r + 1] = RowOf(lines, r + 1)
    BY <2>1 DEF Shows
  <2>5. RowOf(lines, r + 1) = [c \in Columns |->
           IF m < 1 THEN LeftOver
           ELSE IF c < Len(lines[m]) THEN lines[m][c + 1]
           ELSE IF m = 1 THEN LeftOver ELSE Blank]
    BY DEF RowOf, n
  <2> HIDE DEF m
  <2>6. RowOf(ls, r) = [c \in Columns |->
           IF m < 1 THEN LeftOver
           ELSE IF c < Len(ls[m]) THEN ls[m][c + 1]
           ELSE IF m = 1 THEN LeftOver ELSE Blank]
    BY <2>2 DEF RowOf
  <2>7. RowOf(ls, r) = RowOf(lines, r + 1)
    BY <2>2, <2>3, <2>5, <2>6, SMTT(30)
  <2> QED  BY <1>5, <1>7, <2>4, <2>7
<1>8. new_line(w).column = Len(ls[Len(ls)])
  BY <1>1, <1>2, <1>5, SMT
<1>9. Shows(new_line(w), ls)
  BY <1>6, <1>7, <1>8 DEF Shows
<1> QED  BY <1>4, <1>9 DEF ls

\* A character goes to the end of the last line.
LEMMA CharShows ==
  ASSUME NEW w \in Writers, NEW lines \in TextLines, Shows(w, lines), w.column < BUFFER_WIDTH,
         NEW byte \in Chars
  PROVE  /\ [lines EXCEPT ![Len(lines)] = Append(@, byte)] \in TextLines
         /\ Shows([w EXCEPT !.chars[LastRow][w.column] = byte, !.column = w.column + 1],
                  [lines EXCEPT ![Len(lines)] = Append(@, byte)])
<1> DEFINE n == Len(lines)
           last == lines[n]
           ls == [lines EXCEPT ![n] = Append(last, byte)]
           v == [w EXCEPT !.chars[LastRow][w.column] = byte, !.column = w.column + 1]
<1>1. /\ lines \in Seq(Seq(Chars)) /\ n \in Nat /\ n >= 1 /\ n \in 1 .. n
      /\ \A i \in 1 .. n : Len(lines[i]) <= BUFFER_WIDTH
  BY SMT DEF TextLines
<1>2. /\ last \in Seq(Chars) /\ w.column = Len(last)
  BY <1>1, SMT DEF Shows
<1>3. BUFFER_WIDTH \in Nat /\ BUFFER_HEIGHT \in Nat /\ BUFFER_HEIGHT > 0
  BY BufferAssumption, SMT
<1> HIDE DEF last, n
<1>4. /\ Append(last, byte) \in Seq(Chars) /\ Len(Append(last, byte)) = Len(last) + 1
      /\ Append(last, byte)[Len(last) + 1] = byte /\ Len(last) \in Nat
      /\ \A i \in 1 .. Len(last) : Append(last, byte)[i] = last[i]
  BY <1>2, SMT
<1>5. /\ ls \in Seq(Seq(Chars)) /\ Len(ls) = n /\ ls[n] = Append(last, byte)
      /\ \A i \in 1 .. n : i # n => ls[i] = lines[i]
  BY <1>1, <1>4, SMT DEF n
<1> HIDE DEF ls
<1>6. ls \in TextLines
  <2>1. ASSUME NEW i \in 1 .. n
        PROVE  Len(ls[i]) <= BUFFER_WIDTH
    <3>1. CASE i = n
      BY <1>2, <1>3, <1>4, <1>5, <3>1, SMT
    <3>2. CASE i # n
      BY <1>1, <1>5, <3>2
    <3> QED  BY <3>1, <3>2
  <2> QED  BY <1>1, <1>5, <2>1 DEF TextLines
<1>7. /\ v.column = w.column + 1 /\ w.column \in Columns /\ LastRow \in Rows /\ LastRow \in Int
      /\ v.chars[LastRow] = [w.chars[LastRow] EXCEPT ![w.column] = byte]
      /\ \A r \in Rows : r # LastRow => v.chars[r] = w.chars[r]
      /\ w.chars[LastRow] \in [Columns -> Chars]
  <2>1. w.column \in Columns /\ LastRow \in Rows /\ LastRow \in Int
    BY <1>3, SMT DEF Writers, Columns, Rows, LastRow
  <2>2. w.chars \in [Rows -> [Columns -> Chars]]
    BY DEF Writers
  <2>3. v = [chars |-> [w.chars EXCEPT ![LastRow] = [w.chars[LastRow] EXCEPT ![w.column] = byte]],
             column |-> w.column + 1, row |-> w.row]
    BY PutChar
  <2> QED  BY <2>1, <2>2, <2>3
<1> HIDE DEF v
<1>8. ASSUME NEW r \in Rows, r # LastRow
      PROVE  v.chars[r] = RowOf(ls, r)
  <2> DEFINE m == n - (LastRow - r)
  <2>1. m \in Int /\ m < n
    BY <1>1, <1>3, <1>8, SMTT(30) DEF Rows, LastRow
  <2>2. m >= 1 => ls[m] = lines[m]
    BY <1>1, <1>5, <2>1, SMT
  <2>3. RowOf(lines, r) = [c \in Columns |->
           IF m < 1 THEN LeftOver
           ELSE IF c < Len(lines[m]) THEN lines[m][c + 1]
           ELSE IF m = 1 THEN LeftOver ELSE Blank]
    BY DEF RowOf, n
  <2>4. RowOf(ls, r) = [c \in Columns |->
           IF m < 1 THEN LeftOver
           ELSE IF c < Len(ls[m]) THEN ls[m][c + 1]
           ELSE IF m = 1 THEN LeftOver ELSE Blank]
    BY <1>5 DEF RowOf
  <2> HIDE DEF m
  <2>5. RowOf(ls, r) = RowOf(lines, r)
    BY <2>1, <2>2, <2>3, <2>4, SMT
  <2> QED  BY <1>7, <1>8, <2>5 DEF Shows
<1>9. v.chars[LastRow] = RowOf(ls, LastRow)
  <2>1. n - (LastRow - LastRow) = n /\ ~(n < 1)
    BY <1>1, <1>7, SMT
  <2>2. w.chars[LastRow] = [c \in Columns |->
           IF c < Len(last) THEN last[c + 1] ELSE IF n = 1 THEN LeftOver ELSE Blank]
    <3>1. w.chars[LastRow] = RowOf(lines, LastRow)
      BY <1>7 DEF Shows
    <3> QED  BY <2>1, <3>1 DEF RowOf, n, last
  <2>3. RowOf(ls, LastRow) = [c \in Columns |->
           IF c < Len(last) + 1 THEN Append(last, byte)[c + 1]
           ELSE IF n = 1 THEN LeftOver ELSE Blank]
    BY <1>4, <1>5, <2>1, ZenonT(30) DEF RowOf
  <2>4. ASSUME NEW c \in Columns
        PROVE  v.chars[LastRow][c] = RowOf(ls, LastRow)[c]
    <3>0. c \in Nat
      BY SMT DEF Columns
    <3>1. CASE c < Len(last)
      <4>1. c + 1 \in 1 .. Len(last)
        BY <1>4, <3>0, <3>1, SMT
      <4>2. Append(last, byte)[c + 1] = last[c + 1]
        BY <1>4, <4>1, ZenonT(30)
      <4> QED  BY <1>2, <1>4, <1>7, <2>2, <2>3, <3>0, <3>1, <4>2, SMTT(30)
    <3>2. CASE c = Len(last)
      BY <1>2, <1>4, <1>7, <2>3, <3>2, SMTT(30)
    <3>3. CASE c > Len(last)
      BY <1>2, <1>4, <1>7, <2>2, <2>3, <3>0, <3>3, SMT
    <3> QED  BY <1>4, <3>0, <3>1, <3>2, <3>3, SMT
  <2>5. v.chars[LastRow] = [c \in Columns |-> v.chars[LastRow][c]]
    BY <1>7
  <2>6. RowOf(ls, LastRow) = [c \in Columns |-> RowOf(ls, LastRow)[c]]
    BY <2>3
  <2> QED  BY <2>4, <2>5, <2>6
<1>10. v.column = Len(ls[Len(ls)])
  BY <1>2, <1>4, <1>5, <1>7
<1>11. Shows(v, ls)
  BY <1>8, <1>9, <1>10 DEF Shows
<1> QED  BY <1>6, <1>11 DEF ls, v, last, n

\* To append an element and replace it is to append the other one.
LEMMA LastReplaced ==
  ASSUME NEW S, NEW s \in Seq(S), NEW a \in S, NEW b \in S
  PROVE  [Append(s, a) EXCEPT ![Len(s) + 1] = b] = Append(s, b)
<1> DEFINE A == Append(s, a)
           B == Append(s, b)
           k == Len(s) + 1
<1>1. /\ k \in Nat /\ A \in Seq(S) /\ Len(A) = k /\ B \in Seq(S) /\ Len(B) = k /\ B[k] = b
      /\ \A i \in 1 .. k : i # k => A[i] = s[i] /\ B[i] = s[i]
  BY SMT
<1> HIDE DEF A, B, k
<1>2. /\ A = [i \in 1 .. k |-> A[i]] /\ B = [i \in 1 .. k |-> B[i]]
  BY <1>1, SMT
<1>3. [A EXCEPT ![k] = b] = [i \in 1 .. k |-> IF i = k THEN b ELSE A[i]]
  BY <1>1, <1>2
<1>4. \A i \in 1 .. k : (IF i = k THEN b ELSE A[i]) = B[i]
  BY <1>1
<1> QED  BY <1>2, <1>3, <1>4 DEF A, B, k

\* write_byte breaks lines as a terminal does.
LEMMA ByteShows ==
  ASSUME NEW w \in Writers, NEW lines \in TextLines, Shows(w, lines), NEW byte
  PROVE  /\ typeset(lines, byte) \in TextLines
         /\ Shows(write_byte(w, shown(byte)), typeset(lines, byte))
<1> DEFINE n == Len(lines)
<1>1. CASE byte = "newline"
  <2>1. shown(byte) = "newline"
    BY <1>1 DEF shown
  <2> QED  BY <1>1, <2>1, NewLineShows DEF typeset, write_byte
<1>2. CASE byte # "newline"
  <2>1. shown(byte) # "newline" /\ shown(byte) \in Chars
    BY <1>2, BufferAssumption DEF shown, Square, Chars
  <2>2. lines \in Seq(Seq(Chars)) /\ n \in 1 .. n /\ Len(lines[n]) <= BUFFER_WIDTH /\ n \in Nat
        /\ w.column = Len(lines[n]) /\ w.column \in Int /\ BUFFER_WIDTH \in Nat
    BY BufferAssumption, SMT DEF TextLines, Shows, Writers
  <2>3. CASE Len(lines[n]) # BUFFER_WIDTH
    <3>1. w.column < BUFFER_WIDTH
      BY <2>2, <2>3, SMT
    <3>2. write_byte(w, shown(byte))
            = [w EXCEPT !.chars[LastRow][w.column] = shown(byte), !.column = w.column + 1]
      <4>1. ~(w.column >= BUFFER_WIDTH)
        BY <2>2, <3>1, SMT
      <4> QED  BY <2>1, <4>1 DEF write_byte
    <3>3. typeset(lines, byte) = [lines EXCEPT ![n] = Append(@, shown(byte))]
      BY <1>2, <2>3 DEF typeset
    <3> DEFINE c == shown(byte)
    <3>4. c \in Chars
      BY <2>1
    <3> HIDE DEF c
    <3>5. /\ [lines EXCEPT ![Len(lines)] = Append(@, c)] \in TextLines
          /\ Shows([w EXCEPT !.chars[LastRow][w.column] = c, !.column = w.column + 1],
                  [lines EXCEPT ![Len(lines)] = Append(@, c)])
      BY <3>1, <3>4, CharShows
    <3> QED  BY <3>2, <3>3, <3>5 DEF c
  <2>4. CASE Len(lines[n]) = BUFFER_WIDTH
    <3> DEFINE v == new_line(w)
               ls == Append(lines, <<>>)
    <3>1. ls \in TextLines /\ Shows(v, ls)
      BY NewLineShows
    <3>2. v \in Writers
      BY WriteByteType DEF write_byte
    <3>3. write_byte(w, shown(byte))
            = [v EXCEPT !.chars[LastRow][v.column] = shown(byte), !.column = v.column + 1]
      BY <2>1, <2>2, <2>4 DEF write_byte
    <3>4. Len(ls) = n + 1 /\ ls[n + 1] = <<>>
      BY <2>2, SMT
    <3>5. v.column < BUFFER_WIDTH
      <4>1. Len(ls[Len(ls)]) = 0
        BY <3>4, SMT
      <4> QED  BY <3>1, <4>1, BufferAssumption, SMTT(30) DEF Shows
    <3>6. typeset(lines, byte) = [ls EXCEPT ![Len(ls)] = Append(@, shown(byte))]
      <4>1. typeset(lines, byte) = Append(lines, <<shown(byte)>>)
        BY <1>2, <2>4 DEF typeset
      <4>2. Append(<<>>, shown(byte)) = <<shown(byte)>>
        BY SMT
      <4>3. [ls EXCEPT ![n + 1] = <<shown(byte)>>] = Append(lines, <<shown(byte)>>)
        <5> DEFINE S == Seq(Chars)
                   a == <<>>
                   b == <<shown(byte)>>
        <5>1. lines \in Seq(S) /\ a \in S /\ b \in S
          BY <2>1, <2>2, SMT
        <5> HIDE DEF S, a, b
        <5>2. [Append(lines, a) EXCEPT ![Len(lines) + 1] = b] = Append(lines, b)
          BY <5>1, LastReplaced, SMT
        <5> QED  BY <5>2 DEF a, b
      <4> QED  BY <3>4, <4>1, <4>2, <4>3
    <3> DEFINE c == shown(byte)
    <3>7. c \in Chars
      BY <2>1
    <3> HIDE DEF v, ls, c
    <3>8. /\ [ls EXCEPT ![Len(ls)] = Append(@, c)] \in TextLines
          /\ Shows([v EXCEPT !.chars[LastRow][v.column] = c, !.column = v.column + 1],
                  [ls EXCEPT ![Len(ls)] = Append(@, c)])
      BY <3>1, <3>2, <3>5, <3>7, CharShows
    <3> QED  BY <3>3, <3>6, <3>8 DEF c
  <2> QED  BY <2>3, <2>4
<1> QED  BY <1>1, <1>2

\* One byte more.
LEMMA WrittenNext ==
  ASSUME NEW w, NEW s, Len(s) \in Nat, NEW k \in Nat, k + 1 <= Len(s)
  PROVE  written(w, s)[k + 1] = write_byte(written(w, s)[k], shown(s[k + 1]))
<1>1. k + 1 \in 0 .. Len(s) /\ k + 1 # 0 /\ (k + 1) - 1 = k
  BY SMT
<1> QED  BY <1>1, WrittenDef, SMT

LEMMA BrokenNext ==
  ASSUME NEW s, Len(s) \in Nat, NEW k \in Nat, k + 1 <= Len(s)
  PROVE  broken(s)[k + 1] = typeset(broken(s)[k], s[k + 1])
<1>1. k + 1 \in 0 .. Len(s) /\ k + 1 # 0 /\ (k + 1) - 1 = k
  BY SMT
<1>2. PICK one : one = << <<>> >>
  OBVIOUS
<1>3. broken(s) = [n \in 0 .. Len(s) |-> IF n = 0 THEN one ELSE typeset(broken(s)[n - 1], s[n])]
  BY <1>2, BrokenDef
<1> QED  BY <1>1, <1>3

\* What is printed later does not change how a text is broken into lines.
LEMMA Prefix ==
  ASSUME NEW t \in Seq(STRING), NEW s \in Seq(STRING)
  PROVE  \A k \in 0 .. Len(t) : broken(t \o s)[k] = broken(t)[k]
<1> DEFINE ts == t \o s
           T == {k \in Nat : k <= Len(t) => broken(ts)[k] = broken(t)[k]}
<1>1. /\ Len(t) \in Nat /\ Len(s) \in Nat /\ Len(ts) = Len(t) + Len(s)
      /\ \A i \in 1 .. Len(t) : ts[i] = t[i]
  BY SMT
<1> HIDE DEF ts
<1>2. 0 \in T
  <2>1. broken(ts)[0] = << <<>> >>
    BY <1>1, BrokenDef, SMT
  <2>2. broken(t)[0] = << <<>> >>
    BY <1>1, BrokenDef, SMT
  <2> QED  BY <2>1, <2>2
<1>3. ASSUME NEW k \in Nat, k \in T
      PROVE  k + 1 \in T
  <2> SUFFICES ASSUME k + 1 <= Len(t)
               PROVE  broken(ts)[k + 1] = broken(t)[k + 1]
    BY SMT
  <2>1. broken(ts)[k + 1] = typeset(broken(ts)[k], ts[k + 1])
    <3>1. k + 1 <= Len(ts)
      BY <1>1, SMT
    <3> QED  BY <1>1, <3>1, BrokenNext, SMTT(30)
  <2>2. broken(t)[k + 1] = typeset(broken(t)[k], t[k + 1])
    BY <1>1, BrokenNext
  <2>3. ts[k + 1] = t[k + 1]
    BY <1>1, SMT
  <2>4. broken(ts)[k] = broken(t)[k]
    BY <1>1, <1>3, SMT
  <2> QED  BY <2>1, <2>2, <2>3, <2>4
<1>4. Nat \subseteq T
  <2> HIDE DEF T
  <2> QED  BY <1>2, <1>3, NatSet
<1> QED  BY <1>1, <1>4, SMT DEF ts

\* However long it is: printing a string continues the text.
LEMMA StringShows ==
  ASSUME NEW w \in Writers, NEW t \in Seq(STRING), NEW s \in Seq(STRING),
         Lines(t) \in TextLines, Shows(w, Lines(t))
  PROVE  /\ Lines(t \o s) \in TextLines
         /\ Shows(write_string(w, s), Lines(t \o s))
<1> DEFINE ts == t \o s
           Good(k) == /\ written(w, s)[k] \in Writers /\ broken(ts)[Len(t) + k] \in TextLines
                      /\ Shows(written(w, s)[k], broken(ts)[Len(t) + k])
           T == {k \in Nat : k <= Len(s) => Good(k)}
<1>1. Len(t) \in Nat /\ Len(s) \in Nat /\ Len(ts) = Len(t) + Len(s)
  BY SMT
<1>2. 0 \in T
  <2>1. written(w, s)[0] = w
    BY <1>1, WrittenDef, SMT
  <2>2. broken(ts)[Len(t)] = Lines(t) /\ Len(t) + 0 = Len(t)
    BY <1>1, Prefix, SMT DEF Lines
  <2>3. Good(0)
    <3> HIDE DEF ts
    <3> QED  BY <2>1, <2>2
  <2> QED  BY <2>3
<1> HIDE DEF ts
<1>3. ASSUME NEW k \in Nat, k \in T
      PROVE  k + 1 \in T
  <2> SUFFICES ASSUME k + 1 <= Len(s)
               PROVE  Good(k + 1)
    BY SMT
  <2> DEFINE m == Len(t) + k
             v == written(w, s)[k]
             lines == broken(ts)[m]
  <2>0. Good(k)
    BY <1>1, <1>3, SMT
  <2>1. v \in Writers /\ lines \in TextLines /\ Shows(v, lines)
    BY <2>0
  <2>2. written(w, s)[k + 1] = write_byte(v, shown(s[k + 1]))
    BY <1>1, WrittenNext
  <2>3. Len(t) + (k + 1) = m + 1 /\ m \in Nat /\ m + 1 <= Len(ts)
    BY <1>1, SMT
  <2>4. broken(ts)[m + 1] = typeset(lines, ts[m + 1])
    BY <1>1, <2>3, BrokenNext, SMTT(30)
  <2>5. ts[m + 1] = s[k + 1]
    BY <1>1, <2>3, SMT DEF ts
  <2> HIDE DEF v, lines, m
  <2>6. /\ write_byte(v, shown(s[k + 1])) \in Writers
        /\ typeset(lines, s[k + 1]) \in TextLines
        /\ Shows(write_byte(v, shown(s[k + 1])), typeset(lines, s[k + 1]))
    <3>1. shown(s[k + 1]) \in Chars \cup {"newline"}
      BY DEF shown, Chars
    <3> QED  BY <2>1, <3>1, WriteByteType, ByteShows
  <2> QED  BY <2>2, <2>3, <2>4, <2>5, <2>6, ZenonT(30)
<1>4. Len(s) \in T
  <2> HIDE DEF T
  <2> QED  BY <1>1, <1>2, <1>3, NatSet
<1>5. Good(Len(s))
  BY <1>1, <1>4, SMT
<1> QED  BY <1>1, <1>5 DEF write_string, Lines, ts

\* What was printed and what is on the screen.
ScreenInv ==
  /\ text \in Seq(STRING)
  /\ pc = "del_last" => moved
  /\ ~moved => Lines(text) \in TextLines /\ Shows(writer, Lines(text))

\* A print! continues the text.
LEMMA PrintShows ==
  ASSUME TaskInv, ScreenInv, NEW s \in Seq(STRING), _print(s), pc' # "del_last" \/ UNCHANGED pc
  PROVE  ScreenInv'
<1>1. /\ writer \in Writers /\ writer' = write_string(writer, s) /\ moved' = moved
      /\ text' = IF moved THEN text ELSE text \o s
  BY DEF TaskInv, KeyboardTypeOK, Writers, _print
<1>2. text' \in Seq(STRING)
  <2>1. text \in Seq(STRING)
    BY DEF ScreenInv
  <2>2. text \o s \in Seq(STRING)
    <3> DEFINE S == STRING
    <3>1. text \in Seq(S) /\ s \in Seq(S)
      BY <2>1
    <3> HIDE DEF S
    <3>2. text \o s \in Seq(S)
      BY <3>1, SMT
    <3> QED  BY <3>2 DEF S
  <2> QED  BY <1>1, <2>1, <2>2
<1>3. ~moved => Lines(text \o s) \in TextLines /\ Shows(write_string(writer, s), Lines(text \o s))
  BY <1>1, StringShows DEF ScreenInv
<1> QED  BY <1>1, <1>2, <1>3 DEF ScreenInv

\* What is printed are strings.
LEMMA Strings ==
  /\ FULL \in Seq(STRING) /\ UNINITIALISED \in Seq(STRING)
  /\ \A s \in Texts : s \in Seq(STRING)
  /\ \A k \in RawKeys : Name[k] \in Seq(STRING)
  /\ \A k \in Keys : <<k>> \in Seq(STRING)
  /\ <<Blank>> \in Seq(STRING)
<1>1. Blank \in STRING
  BY BufferAssumption
<1> QED  BY <1>1, KeysAssumption, TextsAssumption, SMT

LEMMA ScreenStep ==
  ASSUME TaskInv, ScreenInv, [KeyboardNext]_kvars
  PROVE  ScreenInv'
<1>1. CASE UNCHANGED screen_vars /\ (pc' # "del_last" \/ UNCHANGED pc)
  BY <1>1 DEF ScreenInv
<1>2. CASE moved' = TRUE /\ text' = <<>>
  BY <1>2, SMT DEF ScreenInv
<1>3. CASE \E s \in Seq(STRING) : _print(s) /\ (pc' # "del_last" \/ UNCHANGED pc)
  BY <1>3, PrintShows
<1>4. CASE pc = "del_last" /\ pc' = "poll" /\ UNCHANGED <<text, moved>>
  BY <1>4 DEF ScreenInv
<1>5. CASE UNCHANGED kvars
  BY <1>1, <1>5 DEF kvars
<1>6. CASE task
  <2>1. CASE new_stream \/ poll_next \/ executor \/ decode
    BY <1>1, <2>1 DEF new_stream, poll_next, pop, executor, decode
  <2>2. CASE take_lock
    BY <1>1, <2>2 DEF take_lock
  <2>3. CASE print_key
    <3>1. key \in Keys
      BY DEF TaskInv, KeyboardTypeOK
    <3>2. \E s \in Seq(STRING) : _print(s)
      BY <2>3, <3>1, Strings DEF print_key
    <3>3. pc' # "del_last"
      BY <2>3 DEF print_key
    <3> QED  BY <1>3, <3>2, <3>3
  <2>4. CASE get_pos
    <3>1. pc' # "del_last" /\ UNCHANGED screen_vars
      BY <2>4 DEF get_pos, read_position, after_pos
    <3> QED  BY <1>1, <3>1
  <2>5. CASE backspace
    BY <1>2, <2>5 DEF backspace, move_to
  <2>6. CASE delete
    BY <1>1, <1>2, <1>4, <2>6 DEF delete, read_position
  <2>7. CASE arrow
    BY <1>1, <1>2, <2>7 DEF arrow, read_position, move_to
  <2>8. CASE UNCHANGED <<screen_vars, task_vars>>
    BY <1>1, <2>8
  <2> QED  BY <1>6, <2>1, <2>2, <2>3, <2>4, <2>5, <2>6, <2>7, <2>8 DEF task, locked_statement
<1>7. CASE interrupt
  <2>1. PICK scancode \in Keys : add_scancode(scancode) /\ UNCHANGED pc
    BY <1>7 DEF interrupt
  <2> QED  BY <1>1, <1>3, <2>1, Strings DEF add_scancode, print
<1>8. CASE others
  <2>1. PICK s \in Texts : print(s) /\ UNCHANGED pc
    BY <1>8 DEF others
  <2> QED  BY <1>1, <1>3, <2>1, Strings DEF print
<1> QED  BY <1>5, <1>6, <1>7, <1>8 DEF KeyboardNext

\* The screen the boot loader left shows the empty text.
LEMMA ScreenStart == KeyboardInit => ScreenInv
<1> SUFFICES ASSUME KeyboardInit PROVE ScreenInv
  OBVIOUS
<1> DEFINE e == <<>>
           one == << e >>
<1>1. /\ one \in Seq(Seq(Chars)) /\ Len(one) = 1 /\ one[1] = <<>> /\ Len(one[1]) = 0
  BY SMT
<1>2. broken(<<>>)[0] = one /\ Len(<<>>) = 0
  BY BrokenDef, SMT
<1> HIDE DEF one
<1>3. Lines(text) = one
  BY <1>2 DEF Lines, KeyboardInit
<1>4. one \in TextLines
  <2>1. Len(one) >= 1 /\ \A i \in 1 .. Len(one) : Len(one[i]) <= BUFFER_WIDTH
    BY <1>1, BufferAssumption, SMT
  <2> QED  BY <1>1, <2>1 DEF TextLines
<1>5. \A r \in Rows : RowOf(one, r) = [c \in Columns |-> LeftOver]
  <2>1. LastRow \in Int /\ \A r \in Rows : r \in Int /\ r <= LastRow
    BY BufferAssumption, SMT DEF Rows, LastRow
  <2>2. ASSUME NEW r \in Rows
        PROVE  1 - (LastRow - r) < 1 \/ 1 - (LastRow - r) = 1
    BY <2>1, SMT
  <2>3. \A c \in Columns : ~(c < 0)
    BY SMT DEF Columns
  <2> QED  BY <1>1, <2>2, <2>3 DEF RowOf
<1>6. Shows(writer, one)
  BY <1>1, <1>5 DEF KeyboardInit, WRITER, Shows
<1> QED  BY <1>3, <1>4, <1>6, SMT DEF ScreenInv, KeyboardInit

\* For every screen and every text, in whatever order tasks, interrupts and other
\* threads print: the screen shows the last lines of all that was printed.
THEOREM ScreenIsTerminal == KeyboardSpec => []ScreenShowsText
<1>1. ScreenInv => ScreenShowsText
  BY DEF ScreenInv, ScreenShowsText, Shows
<1>2. TaskInv /\ ScreenInv /\ [KeyboardNext]_kvars => ScreenInv'
  BY ScreenStep
<1> QED  BY <1>1, <1>2, ScreenStart, TaskInvariant, PTL DEF KeyboardSpec

=============================================================================
