--------------------------- MODULE FrameAllocator ---------------------------
(***************************************************************************)
(* PageFrameAllocator of mem/memory.rs.  Physical frames are frame numbers *)
(* (address / 4096).  usable_frames() is the sequence Usable of the frames *)
(* in the memory map's usable regions; frame_usage is indexed by frame     *)
(* number, `next` by position in Usable, starting from 0.                  *)
(*                                                                         *)
(* Clients are the owners of frames: the kernel, a process.  A client      *)
(* returns a frame only while it holds it.                                 *)
(***************************************************************************)
EXTENDS Integers, Sequences, Functions

CONSTANTS
  Usable,  \* usable_frames(), in the order of the memory map
  Limit,   \* length of frame_usage (100000)
  Clients  \* who frames are allocated for

ASSUME UsableAssumption == Usable \in Seq(Nat) /\ IsInjective(Usable)
ASSUME LimitAssumption == Limit \in Nat

VARIABLES
  next,         \* index into usable_frames() of the next candidate
  frame_usage,  \* the frames marked as used
  held,         \* per client: the frames it was given and has not returned
  panicked      \* an index out of bounds stopped the kernel

frame_vars == <<next, frame_usage, held, panicked>>

Frames == Range(Usable)

FramesInit ==
  /\ next = 0
  /\ frame_usage = {}
  /\ held = [c \in Clients |-> {}]
  /\ panicked = FALSE

\* usable_frames().nth(next), if there are that many.
candidate == Usable[next + 1]
has_candidate == next + 1 \in DOMAIN Usable

is_frame_free(f) == f \notin frame_usage

-----------------------------------------------------------------------------
\* Mutant: the candidate is not looked up in frame_usage.
allocate_frame_unchecked(c) ==
  /\ has_candidate /\ candidate < Limit
  /\ frame_usage' = frame_usage \cup {candidate}
  /\ held' = [held EXCEPT ![c] = @ \cup {candidate}]
  /\ next' = next + 1
  /\ UNCHANGED panicked

\* allocate_frame returning Some(candidate) to client c.
allocate_frame(c) ==
  /\ has_candidate /\ candidate < Limit
  /\ is_frame_free(candidate)
  /\ frame_usage' = frame_usage \cup {candidate}
  /\ held' = [held EXCEPT ![c] = @ \cup {candidate}]
  /\ next' = next + 1
  /\ UNCHANGED panicked

\* allocate_frame returns None ("no free frames...").
no_free_frames == ~has_candidate \/ (candidate < Limit /\ ~is_frame_free(candidate))
allocate_none == no_free_frames /\ UNCHANGED frame_vars

\* frame_usage[frame_num] out of bounds in is_frame_free.
allocate_panic ==
  /\ has_candidate /\ candidate >= Limit
  /\ panicked' = TRUE
  /\ UNCHANGED <<next, frame_usage, held>>

\* Mutant: the frame stays marked as used when it is below `next`.
deallocate_frame_marked(f) ==
  /\ frame_usage' = IF f < Limit /\ f >= next THEN frame_usage \ {f} ELSE frame_usage
  /\ next' = IF f < Limit /\ f < next THEN f ELSE next

\* deallocate_frame: `next` goes back to the frame NUMBER if that is smaller.
deallocate_frame(f) ==
  /\ frame_usage' = IF f < Limit THEN frame_usage \ {f} ELSE frame_usage
  /\ next' = IF f < Limit /\ f < next THEN f ELSE next

\* A client returns a frame it holds.
return_frame(c, f) ==
  /\ f \in held[c]
  /\ held' = [held EXCEPT ![c] = @ \ {f}]
  /\ deallocate_frame(f)
  /\ UNCHANGED panicked

FramesNext ==
  /\ ~panicked
  /\ \/ \E c \in Clients : allocate_frame(c)
     \/ allocate_none
     \/ allocate_panic
     \/ \E c \in Clients, f \in Frames : return_frame(c, f)

FramesSpec == FramesInit /\ [][FramesNext]_frame_vars

-----------------------------------------------------------------------------
\* Types; `next` never runs past the end of usable_frames().
FramesTypeOK ==
  /\ next \in 0 .. Len(Usable)
  /\ frame_usage \subseteq Frames
  /\ held \in [Clients -> SUBSET Frames]
  /\ panicked \in BOOLEAN

\* No frame belongs to two owners at once, whatever order frames are returned
\* in and wherever that sends `next`.
NoDoubleAllocation ==
  \A c, d \in Clients : c # d => held[c] \cap held[d] = {}

\* The usage map and the owners agree: a frame is marked as used exactly while
\* somebody holds it, so no frame is lost to the map.
UsedIffHeld == frame_usage = UNION {held[c] : c \in Clients}

\* An allocation fails only if every usable frame is in use: it returns "the
\* next usable frame from the memory map" (allocate_frame).
FailsOnlyWhenFull == no_free_frames => Frames \subseteq frame_usage
=============================================================================
