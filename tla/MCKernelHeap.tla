---------------------------- MODULE MCKernelHeap ----------------------------
(***************************************************************************)
(* Block sizes of 8, 16 and 32 bytes; layouts that fill a class, that fit  *)
(* a class only because of their alignment, and that exceed every class.   *)
(***************************************************************************)
EXTENDS KernelHeap, TLC

CONSTANTS o1, o2, o3

MCOwners == {o1, o2, o3}
Symmetry == Permutations(MCOwners)

MCBlockSizes == <<1, 2, 4>>
MCLayouts == {[size |-> 1, align |-> 1], [size |-> 2, align |-> 1], [size |-> 1, align |-> 4],
              [size |-> 3, align |-> 2], [size |-> 5, align |-> 1], [size |-> 6, align |-> 2]}
=============================================================================
