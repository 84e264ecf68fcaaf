--------------------------- MODULE MCAddressSpace ---------------------------
(***************************************************************************)
(* 52 usable frames, with a hole after the first 15 and the last above the *)
(* usage map: with the smallest kernel heap, room for the process and      *)
(* stacks until the slots run out; with larger ones, spawning and building *)
(* a stack fail at every possible step.                                    *)
(***************************************************************************)
EXTENDS AddressSpace

MCUsable == [i \in 1 .. 52 |-> IF i <= 15 THEN i ELSE IF i < 52 THEN i + 2 ELSE 70]
MCHeapTables == <<2, 0, 1>>
MCBinaries == {<<[page |-> 1, tables |-> 1], [page |-> 2, tables |-> 0]>>,
               <<[page |-> 1, tables |-> 1], [page |-> 1, tables |-> 0]>>,
               <<[page |-> 2, tables |-> 1], Outside>>}
=============================================================================
