------------------------------- MODULE Faults -------------------------------
(***************************************************************************)
(* The page fault handler on top of Kernel.  A page is one of              *)
(*   "readonly"    present and user accessible, not writable,              *)
(*   "supervisor"  present, the kernel's,                                  *)
(*   "unmapped".                                                           *)
(* The handler runs behind an interrupt gate, with interrupts masked.      *)
(***************************************************************************)
EXTENDS Kernel

VARIABLES
  again,    \* per thread: the page its next instruction will fault on again
  exiting,  \* the handler is in exit_current_thread
  readers   \* read guards on RUNNING_THREAD

fvars == <<vars, again, exiting, readers>>

Pages == {"readonly", "supervisor", "unmapped"}
NoPage == "none"

FaultInit == Init /\ again = [t \in Tids |-> NoPage] /\ exiting = FALSE /\ readers = 0

\* allocate_missing_ondemand_frame: Ok only for a page that is exactly present
\* and user accessible, and only if there is a frame left.
allocate_missing_ondemand_frame(page) == IF page = "readonly" THEN {TRUE, FALSE} ELSE {FALSE}

\* A write to a page that is present is a protection violation: the page gets
\* a frame, or the same instruction faults again.  Anything else ends the
\* thread: exit_current_thread is called under the read guard that
\* `if let Some(thread) = RUNNING_THREAD.read().as_ref()` keeps alive.
page_fault_handler(page, write) ==
  /\ ~exiting
  /\ running \in UserThreads
  /\ again[running] = NoPage \/ (page = again[running] /\ write)
  /\ \/ /\ write /\ page # "unmapped"
        /\ \E ok \in allocate_missing_ondemand_frame(page) :
             again' = [again EXCEPT ![running] = IF ok THEN NoPage ELSE page]
        /\ UNCHANGED <<exiting, readers>>
     \/ /\ ~(write /\ page # "unmapped")
        /\ readers' = readers + 1
        /\ exiting' = TRUE
        /\ UNCHANGED again
  /\ UNCHANGED vars

\* RUNNING_THREAD.write() of exit_current_thread waits until no reader is left.
fault_exit ==
  /\ exiting /\ readers = 0
  /\ exit_current_thread
  /\ exiting' = FALSE
  /\ UNCHANGED <<again, readers>>

FaultInterrupt == cpu = "on" /\ ~exiting /\ Interrupt /\ UNCHANGED <<again, exiting, readers>>

FaultSyscall ==
  /\ cpu = "on" /\ ~exiting
  /\ running \in Tids => again[running] = NoPage
  /\ Syscall
  /\ UNCHANGED <<again, exiting, readers>>

FaultNext ==
  \/ \E page \in Pages, write \in BOOLEAN : page_fault_handler(page, write)
  \/ fault_exit
  \/ FaultInterrupt
  \/ FaultSyscall

\* The timer ticks whenever interrupts are enabled; the handler keeps running.
FaultSpec ==
  FaultInit /\ [][FaultNext]_fvars /\ WF_fvars(FaultInterrupt) /\ WF_fvars(fault_exit)

\* A thread whose page fault cannot be resolved is taken off the CPU:
\* "exit_current_thread context-switches away" (page_fault_handler).
FaultingThreadLeaves ==
  \A t \in Tids : (exiting /\ running = t) ~> running # t
=============================================================================
