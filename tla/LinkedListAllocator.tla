------------------------- MODULE LinkedListAllocator -------------------------
(***************************************************************************)
(* mem/allocator/linked_list.rs: a list of free regions, each with its     *)
(* node of two units at its start.                                         *)
(***************************************************************************)
EXTENDS Allocation, Sequences

VARIABLE free_list  \* the nodes behind head_node: [start, size]

NodeSize == 2

\* The units of a free region, and of the node at its start.
Region(n) == n.start .. n.start + n.size - 1
Node(n) == n.start .. n.start + NodeSize - 1

\* add_free_block makes the new node the only one behind head_node: the node
\* is created without a successor.
add_free_block(addr, size) == <<[start |-> addr, size |-> size]>>

LinkedInit == free_list = add_free_block(0, HeapSize)

\* Mutant: the size is not padded to hold a node.
adjusted_unpadded(l) == l.size

\* adjust_layout: the size padded to the alignment, and room for a node.
adjusted(l) ==
  LET padded == align_up(l.size, l.align) IN IF padded < NodeSize THEN NodeSize ELSE padded

\* allocate_from_block: node n can serve layout l, and what is left behind the
\* block is nothing or a node.
block_end(n, l) == align_up(n.start, l.align) + adjusted(l)
allocate_from_block(n, l) ==
  LET rest == n.start + n.size - block_end(n, l) IN rest = 0 \/ rest >= NodeSize

\* find_suitable_block takes the first such node out of the list; what is left
\* of it is a free block again.
linked_alloc(o, l) ==
  \E i \in DOMAIN free_list :
    LET n == free_list[i]
        rest == n.start + n.size - block_end(n, l)
    IN  /\ allocate_from_block(n, l)
        /\ \A j \in 1 .. i - 1 : ~allocate_from_block(free_list[j], l)
        /\ free_list' = IF rest > 0 THEN add_free_block(block_end(n, l), rest)
                                    ELSE SubSeq(free_list, 1, i - 1) \o SubSeq(free_list, i + 1, Len(free_list))
        /\ give(o, align_up(n.start, l.align), l)

linked_dealloc(o) ==
  /\ return(o)
  /\ free_list' = add_free_block(held[o].ptr, adjusted(held[o].layout))

LinkedNext == \E o \in Owners : linked_dealloc(o) \/ \E l \in Layouts : linked_alloc(o, l)
=============================================================================
