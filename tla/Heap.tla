-------------------------------- MODULE Heap --------------------------------
(***************************************************************************)
(* What a global allocator promises (the GlobalAlloc trait the allocators  *)
(* of mem/allocator implement): memory inside the heap, aligned, that      *)
(* nobody else holds until it is returned.                                 *)
(***************************************************************************)
EXTENDS Integers

CONSTANTS
  HeapSize,  \* the heap is the units 0 .. HeapSize - 1
  Layouts,   \* the layouts asked for: [size, align]
  Owners     \* who memory is allocated for, one block each

VARIABLE grant  \* per owner: the units it may use and how they are aligned

NoGrant == [units |-> {}, align |-> 1]

HeapInit == grant = [o \in Owners |-> NoGrant]

alloc(o, l) ==
  /\ grant[o] = NoGrant
  /\ \E p \in 0 .. HeapSize - l.size :
       /\ p % l.align = 0
       /\ \A q \in Owners : grant[q].units \cap (p .. p + l.size - 1) = {}
       /\ grant' = [grant EXCEPT ![o] = [units |-> p .. p + l.size - 1, align |-> l.align]]

dealloc(o) == grant[o] # NoGrant /\ grant' = [grant EXCEPT ![o] = NoGrant]

HeapNext == \E o \in Owners : dealloc(o) \/ \E l \in Layouts : alloc(o, l)

HeapSpec == HeapInit /\ [][HeapNext]_grant
=============================================================================
