----------------------------- MODULE KernelHeap -----------------------------
(***************************************************************************)
(* The kernel's heap with each of the three allocators mem/allocator.rs    *)
(* brings along; `ALLOCATOR` is one of them for the life of the kernel     *)
(* (FixedSizeBlockAllocator in the source).  Every operation runs under    *)
(* the lock of Locked<A>.                                                  *)
(***************************************************************************)
EXTENDS BumpAllocator, LinkedListAllocator, FixedSizeBlockAllocator

VARIABLE ALLOCATOR

heap_vars == <<held, next_free, allocation_count, free_list, list_heads, fallback, ALLOCATOR>>

KernelHeapInit ==
  /\ AllocationInit /\ BumpInit /\ LinkedInit /\ FixedInit
  /\ ALLOCATOR \in {"bump", "linked_list", "fixed_size_block"}

KernelHeapNext ==
  /\ \/ ALLOCATOR = "bump" /\ BumpNext /\ UNCHANGED <<free_list, list_heads, fallback>>
     \/ ALLOCATOR = "linked_list" /\ LinkedNext /\ UNCHANGED <<bump_vars, list_heads, fallback>>
     \/ ALLOCATOR = "fixed_size_block" /\ FixedNext /\ UNCHANGED <<bump_vars, free_list>>
  /\ UNCHANGED ALLOCATOR

KernelHeapSpec == KernelHeapInit /\ [][KernelHeapNext]_heap_vars
-----------------------------------------------------------------------------
\* The blocks of the free list of class i.
Block(i, p) == Taken(p, BLOCK_SIZES[i])
ListedBlocks == {x \in Indices \X (1 .. HeapSize) : x[2] <= Len(list_heads[x[1]])}
Listed == UNION {Block(x[1], list_heads[x[1]][x[2]]) : x \in ListedBlocks}

\* What is behind block b: all that the fallback heap gave for a block of its
\* class.  (For a class of one word that is two, and nobody uses the second.)
Room(l) ==
  align_layout(IF find_block_index(l) = {} THEN l.size
               ELSE BLOCK_SIZES[CHOOSE i \in find_block_index(l) : TRUE])
Backing(b) == b.ptr .. b.ptr + Room(b.layout) - 1

\* Whatever is allocated and returned in whatever order, every allocator hands
\* out memory as the contract of GlobalAlloc asks: inside the heap, aligned as
\* the layout says, and disjoint from every block that is still held.
FulfilsContract == Contract!HeapSpec

\* A free list node is never written into memory somebody holds: the nodes that
\* alloc and dealloc write, and what the fallback heap keeps in its free units,
\* lie outside every held block.
NodesOutsideLive ==
  /\ ALLOCATOR = "linked_list" => \A i \in DOMAIN free_list :
       (Region(free_list[i]) \cup Node(free_list[i])) \cap Live = {}
  /\ ALLOCATOR = "fixed_size_block" => (Listed \cup fallback) \cap Live = {}

\* No memory leaks: with the fixed size blocks every unit of the heap is behind
\* a held block, behind a block of one free list, or free in the fallback heap,
\* where a block has behind it what the fallback heap gave for it, 16 bytes for
\* one of 8; the bump allocator has its whole heap back once every block has been
\* returned.  (The linked list loses regions: add_free_block drops the list it is
\* called on.)
NothingLost ==
  /\ ALLOCATOR = "bump" /\ Holders = {} => next_free = 0
  /\ ALLOCATOR = "fixed_size_block" =>
       /\ Units = Listed \cup fallback \cup UNION {Backing(held[o]) : o \in Holders}
       /\ \A x, y \in ListedBlocks : x # y =>
            Block(x[1], list_heads[x[1]][x[2]]) \cap Block(y[1], list_heads[y[1]][y[2]]) = {}
=============================================================================
