----------------------------- MODULE Allocation -----------------------------
(***************************************************************************)
(* What the three allocators of mem/allocator share.  Addresses count from *)
(* HEAP_START in units of 8 bytes, the size and alignment of a free list   *)
(* link; every alignment is a power of two that divides HEAP_START.        *)
(***************************************************************************)
EXTENDS Integers, FiniteSets

CONSTANTS HeapSize, Layouts, Owners

ASSUME HeapSizeAssumption == HeapSize \in Nat /\ HeapSize >= 2  \* room for a list node
ASSUME LayoutsAssumption == Layouts \subseteq [size : Nat \ {0}, align : Nat \ {0}]
ASSUME OwnersAssumption == IsFiniteSet(Owners)

VARIABLE held  \* per owner: the pointer and layout of its block, or Nothing

Nothing == [ptr |-> -1, layout |-> [size |-> 0, align |-> 1]]
Units == 0 .. HeapSize - 1
Blocks == [ptr : Units, layout : Layouts]

Extent(b) == b.ptr .. b.ptr + b.layout.size - 1
Holders == {o \in Owners : held[o] # Nothing}
Live == UNION {Extent(held[o]) : o \in Holders}

AllocationInit == held = [o \in Owners |-> Nothing]

align_up(addr, align) == ((addr + align - 1) \div align) * align

\* The caller's side of alloc, which returned p, and of dealloc.  (An alloc that
\* returns null changes nothing: it is a step that leaves every variable alone.)
give(o, p, l) == held[o] = Nothing /\ held' = [held EXCEPT ![o] = [ptr |-> p, layout |-> l]]
return(o) == held[o] # Nothing /\ held' = [held EXCEPT ![o] = Nothing]

\* What every owner may use.
Grants == [o \in Owners |-> [units |-> Extent(held[o]), align |-> held[o].layout.align]]

\* The allocators hand out memory as the GlobalAlloc trait asks.
Contract == INSTANCE Heap WITH grant <- Grants
=============================================================================
