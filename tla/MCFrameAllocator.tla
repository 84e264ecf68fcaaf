-------------------------- MODULE MCFrameAllocator --------------------------
(***************************************************************************)
(* Usable regions with holes between them.  Frame numbers start at 1 and   *)
(* positions at 0, so they differ, by more behind each hole; one frame is  *)
(* above the usage map.                                                    *)
(***************************************************************************)
EXTENDS FrameAllocator

MCUsable == <<1, 2, 3, 5, 6, 9>>
=============================================================================
