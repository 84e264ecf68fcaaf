----------------------- MODULE FixedSizeBlockAllocator -----------------------
(***************************************************************************)
(* mem/allocator/fixed_size_block.rs, the allocator the kernel uses: one   *)
(* list of free blocks per block size, and a fallback heap (the external   *)
(* linked_list_allocator crate) for new blocks and larger layouts.  The    *)
(* fallback is the set of its free units; a hole is a run of them that     *)
(* cannot be extended, and is never smaller than the crate's hole record.  *)
(***************************************************************************)
EXTENDS Allocation, Sequences

CONSTANT BLOCK_SIZES  \* powers of two, as the alignments are, ascending

ASSUME BlockSizesAssumption ==
  /\ BLOCK_SIZES \in Seq(Nat \ {0})
  /\ \A i, j \in DOMAIN BLOCK_SIZES : i < j => BLOCK_SIZES[i] < BLOCK_SIZES[j]
  /\ \A i \in DOMAIN BLOCK_SIZES, l \in Layouts :
       BLOCK_SIZES[i] >= l.align => BLOCK_SIZES[i] % l.align = 0

VARIABLES
  list_heads,  \* per block size: the addresses of the free blocks
  fallback     \* the free units of fallback_allocator

fixed_vars == <<list_heads, fallback>>

Indices == DOMAIN BLOCK_SIZES

FixedInit == list_heads = [i \in Indices |-> <<>>] /\ fallback = Units

\* Mutant: the alignment is not taken into account.
fits_size(i, l) == BLOCK_SIZES[i] >= l.size

\* A block of size class i can hold layout l.
fits(i, l) == BLOCK_SIZES[i] >= l.size /\ BLOCK_SIZES[i] >= l.align

\* find_block_index: the smallest class that fits.
find_block_index(l) ==
  {i \in Indices : fits(i, l) /\ \A j \in Indices : fits(j, l) => i <= j}

\* The crate keeps a record of two words in every hole, and rounds the size of
\* every block up to it, in allocate_first_fit and in deallocate.
MinHole == 2
align_layout(size) == IF size < MinHole THEN MinHole ELSE size
Taken(p, size) == p .. p + align_layout(size) - 1

\* split_hole: where a block goes in the hole that starts at h.  What stays in
\* front of it is a hole again, and so is what stays behind it.
aligned_addr(h, align) == IF h % align = 0 THEN h ELSE align_up(h + MinHole, align)
splits(h, p, size, align) ==
  LET end == p + align_layout(size)
  IN  /\ h - 1 \notin fallback
      /\ p = aligned_addr(h, align)
      /\ (h .. p - 1) \cup Taken(p, size) \subseteq fallback
      /\ end \in fallback => end .. end + MinHole - 1 \subseteq fallback

\* Heap::allocate_first_fit: the first hole, by address, that a block fits in.
Places(size, align) == {p \in Units : \E h \in fallback : splits(h, p, size, align)}
first_fit(size, align) ==
  {p \in Places(size, align) : \A q \in Places(size, align) : p <= q}

-----------------------------------------------------------------------------
\* alloc: a free block of the class, a new one, or a layout above all classes.
alloc_listed(o, l) ==
  \E i \in find_block_index(l) :
    /\ list_heads[i] # <<>>
    /\ list_heads' = [list_heads EXCEPT ![i] = Tail(@)]
    /\ give(o, Head(list_heads[i]), l)
    /\ UNCHANGED fallback

alloc_block(o, l) ==
  \E i \in find_block_index(l) :
    /\ list_heads[i] = <<>>
    /\ \E p \in first_fit(BLOCK_SIZES[i], BLOCK_SIZES[i]) :
         /\ fallback' = fallback \ Taken(p, BLOCK_SIZES[i])
         /\ give(o, p, l)
    /\ UNCHANGED list_heads

alloc_large(o, l) ==
  /\ find_block_index(l) = {}
  /\ \E p \in first_fit(l.size, l.align) :
       /\ fallback' = fallback \ Taken(p, l.size)
       /\ give(o, p, l)
  /\ UNCHANGED list_heads

\* Mutant: the block goes back to the fallback heap with the size of its layout.
dealloc_listed_back(o) ==
  \E i \in find_block_index(held[o].layout) :
    /\ fallback' = fallback \cup Taken(held[o].ptr, held[o].layout.size)
    /\ return(o)
    /\ UNCHANGED list_heads

\* dealloc: a block of a class becomes the head of its list.
dealloc_listed(o) ==
  \E i \in find_block_index(held[o].layout) :
    /\ list_heads' = [list_heads EXCEPT ![i] = <<held[o].ptr>> \o @]
    /\ return(o)
    /\ UNCHANGED fallback

dealloc_large(o) ==
  /\ find_block_index(held[o].layout) = {}
  /\ fallback' = fallback \cup Taken(held[o].ptr, held[o].layout.size)
  /\ return(o)
  /\ UNCHANGED list_heads

FixedNext ==
  \E o \in Owners :
    \/ dealloc_listed(o)
    \/ dealloc_large(o)
    \/ \E l \in Layouts : alloc_listed(o, l) \/ alloc_block(o, l) \/ alloc_large(o, l)
=============================================================================
