---------------------------- MODULE BumpAllocator ----------------------------
(***************************************************************************)
(* mem/allocator/bump.rs: memory is handed out upwards and taken back when *)
(* the last block has been returned.                                       *)
(***************************************************************************)
EXTENDS Allocation

VARIABLES next_free, allocation_count

bump_vars == <<next_free, allocation_count>>

BumpInit == next_free = 0 /\ allocation_count = 0

bump_start(l) == align_up(next_free, l.align)

bump_alloc(o, l) ==
  /\ bump_start(l) + l.size <= HeapSize
  /\ next_free' = bump_start(l) + l.size
  /\ allocation_count' = allocation_count + 1
  /\ give(o, bump_start(l), l)

bump_dealloc(o) ==
  /\ return(o)
  /\ allocation_count' = allocation_count - 1
  /\ next_free' = IF allocation_count' = 0 THEN 0 ELSE next_free

BumpNext == \E o \in Owners : bump_dealloc(o) \/ \E l \in Layouts : bump_alloc(o, l)
=============================================================================
