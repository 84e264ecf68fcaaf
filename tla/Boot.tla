-------------------------------- MODULE Boot --------------------------------
(***************************************************************************)
(* kernel_thread_main: thread 1 starts the VGA listener and the first user *)
(* process and sends the new thread its id, all with interrupts enabled.   *)
(* What it started runs and makes system calls in the middle of it.        *)
(*                                                                         *)
(* Init is the first tick after kernel_main has spawned thread 1.          *)
(* Spawning is assumed to succeed (a valid ELF file, enough memory).       *)
(* WAIT_QUEUE and COUNTER are only locked with interrupts off; the lock of *)
(* ID_SOCKET is taken with interrupts on, so a system call may find it     *)
(* held by the preempted thread 1.  It waits with interrupts masked, which *)
(* stops the CPU for ever.                                                 *)
(***************************************************************************)
EXTENDS Kernel

VARIABLES
  pc,    \* where thread 1 is in kernel_thread_main
  lock   \* the socket whose lock thread 1 holds, or "free"

bvars == <<vars, pc, lock>>

Steps == {"listener", "enter", "user", "leave", "lock_id", "send_id", "unlock_id", "hlt"}

BootInit ==
  /\ pc = "listener" /\ lock = "free"
  /\ queue = <<>>
  /\ running = Idle
  /\ threads = {Idle}
  /\ counter = 1
  /\ sock = [k \in SocketIds |-> Empty]
  /\ ctx = [t \in Tids |-> [rax |-> 0, data |-> NoMsg]]
  /\ pt = [t \in Tids |-> NoTable]
  /\ cr3 = KernelTable
  /\ tables = {KernelTable}
  /\ ist = Idle
  /\ cpu = "on"

goto(here, there) == pc = here /\ pc' = there

-----------------------------------------------------------------------------
\* spawn_kernel_thread of the listener.
start_listener ==
  /\ goto("listener", "enter")
  /\ counter' = counter + 1
  /\ queue' = schedule_thread(queue, Listener)
  /\ threads' = threads \cup {Listener}
  /\ UNCHANGED <<running, sock, ctx, pt, cr3, tables, ist, cpu, lock>>

\* Mutant: the new thread is queued before its page table is recorded.
spawn_user_thread_early ==
  \/ /\ goto("enter", "user")
     /\ tables' = tables \cup {UserTable}
     /\ cr3' = UserTable
     /\ counter' = counter + 2
     /\ queue' = schedule_thread(queue, Main)
     /\ threads' = threads \cup {Main}
     /\ UNCHANGED <<running, sock, ctx, pt, ist, cpu, lock>>
  \/ /\ goto("user", "leave")
     /\ pt' = [pt EXCEPT ![Main] = UserTable]
     /\ UNCHANGED <<queue, running, threads, counter, sock, ctx, cr3, tables, ist, cpu, lock>>
  \/ /\ goto("leave", "lock_id")
     /\ cr3' = KernelTable
     /\ UNCHANGED <<queue, running, threads, counter, sock, ctx, pt, tables, ist, cpu, lock>>

\* spawn_user_thread: the thread is built and queued while the CPU uses the
\* new page table (switch_pagetable_and_execute).
spawn_user_thread ==
  \/ /\ goto("enter", "user")
     /\ tables' = tables \cup {UserTable}
     /\ cr3' = UserTable
     /\ UNCHANGED <<queue, running, threads, counter, sock, ctx, pt, ist, cpu, lock>>
  \/ /\ goto("user", "leave")
     /\ counter' = counter + 2
     /\ queue' = schedule_thread(queue, Main)
     /\ threads' = threads \cup {Main}
     /\ pt' = [pt EXCEPT ![Main] = UserTable]
     /\ UNCHANGED <<running, sock, ctx, cr3, tables, ist, cpu, lock>>
  \/ /\ goto("leave", "lock_id")
     /\ cr3' = KernelTable
     /\ UNCHANGED <<queue, running, threads, counter, sock, ctx, pt, tables, ist, cpu, lock>>

\* ID_SOCKET.write().send_message(None, id).  The threads it returns are
\* dropped: a receiver that was already waiting is destroyed, and with the
\* last user thread its process.
deliver_id ==
  LET r == send_message(sock["id"], ctx, NoThread, Main)
  IN  /\ sock' = [sock EXCEPT !["id"] = r.sock]
      /\ ctx' = r.ctx
      /\ drop_thread(r.thread1)
      /\ UNCHANGED <<queue, running, counter, pt, ist, cpu>>

\* Mutant: the lock is not released.
send_id_locked ==
  \/ goto("lock_id", "send_id") /\ lock' = "id" /\ UNCHANGED vars
  \/ goto("send_id", "unlock_id") /\ deliver_id /\ UNCHANGED lock
  \/ goto("unlock_id", "hlt") /\ UNCHANGED <<vars, lock>>

send_id ==
  \/ goto("lock_id", "send_id") /\ lock' = "id" /\ UNCHANGED vars
  \/ goto("send_id", "unlock_id") /\ deliver_id /\ UNCHANGED lock
  \/ goto("unlock_id", "hlt") /\ lock' = "free" /\ UNCHANGED vars

kernel_thread_main ==
  running = Idle /\ (start_listener \/ spawn_user_thread \/ send_id)

-----------------------------------------------------------------------------
\* RwLock::write() with interrupts masked, of a lock the preempted thread 1
\* holds.
spin ==
  /\ cpu' = "spin"
  /\ UNCHANGED <<queue, running, threads, counter, sock, ctx, pt, cr3, tables, ist, pc, lock>>

tick == timer_handler /\ UNCHANGED <<pc, lock>>

\* An IPC system call on handle h.
ipc(h) ==
  \/ lock = get_sockets(running, h) /\ spin
  \/ /\ lock # get_sockets(running, h)
     /\ \/ sys_receive(h)
        \/ \E m \in Msgs : sys_send(h, m) \/ sys_send_receive(h, m)
     /\ UNCHANGED <<pc, lock>>

BootNext ==
  /\ cpu = "on"
  /\ \/ kernel_thread_main
     \/ tick
     \/ \E key \in Msgs : keyboard_handler_inner(key) /\ UNCHANGED <<pc, lock>>
     \/ running = Listener /\ sys_receive(0) /\ UNCHANGED <<pc, lock>>
     \/ /\ running \in UserThreads
        /\ \/ \E h \in UserHandles : ipc(h)
           \/ (sys_yield \/ fork_current_thread \/ exit_current_thread)
              /\ UNCHANGED <<pc, lock>>

BootSpec == BootInit /\ [][BootNext]_bvars

\* The PIT ticks for ever and every handler acknowledges it.
FairBootSpec == BootSpec /\ WF_bvars(cpu = "on" /\ tick)

-----------------------------------------------------------------------------
\* What Kernel promises holds already while thread 1 boots, preempted by what it
\* has started: every thread is held once and runs on its own interrupt stack and
\* page table.  ID_SOCKET is locked exactly while thread 1 is in the statement
\* that sends the id.
SafeWhileBooting ==
  /\ TypeOK /\ pc \in Steps
  /\ EveryThreadHeldOnce /\ OwnInterruptStack /\ OwnAddressSpace
  /\ lock = IF pc \in {"send_id", "unlock_id"} THEN "id" ELSE "free"

\* The page table thread 1 is using: the process's inside
\* switch_pagetable_and_execute, the kernel's before and after.
BootTable == IF pc \in {"user", "leave"} THEN UserTable ELSE KernelTable

\* However often thread 1 is preempted while it builds the user process, it
\* continues on the page table it was using.
BootTableRestored == running = Idle => cr3 = BootTable

\* The CPU stops for ever only if thread 1 was preempted between taking the lock
\* of ID_SOCKET and dropping it, one statement of the whole boot: once it has
\* sent the id, no system call ever waits for a lock.
StopsOnlyInHandOver == cpu # "on" => pc \in {"send_id", "unlock_id"}

\* Whatever was preempted during boot, thread 1 leaves a state that satisfies
\* the inductive invariant of Kernel, so what is proved there from its Init
\* holds from here on too.
HandOver == pc = "hlt" /\ cpu = "on" => IInv

(***************************************************************************)
(* The inductive invariant of the boot: the core invariant of Kernel; what *)
(* exists at each step of thread 1, that what is yet to be created has no  *)
(* system call in progress and that the listener does not wait for an id;  *)
(* and the page table thread 1 continues on, which is loaded while it runs *)
(* and saved with it otherwise.                                            *)
(***************************************************************************)
BootInv ==
  /\ CoreInv
  /\ pc \in Steps
  /\ lock = IF pc \in {"send_id", "unlock_id"} THEN "id" ELSE "free"
  /\ pc = "listener" => threads = {Idle} /\ counter = 1
  /\ pc \in {"enter", "user"} => UserThreads = {} /\ counter = 2
  /\ pc # "listener" => Listener \in threads
  /\ pc = "user" => UserTable \in tables
  /\ \A t \in Tids \ threads : ctx[t].rax # Pending
  /\ sock["id"].thread # Listener
  /\ IF running = Idle THEN cr3 = BootTable ELSE pt[Idle] = BootTable
  /\ StopsOnlyInHandOver

-----------------------------------------------------------------------------
\* A receiver that send_message releases still exists afterwards: "the message
\* is passed and both threads are returned" (sync.rs).
ReleasedThreadLives ==
  [][\A t \in Blocked : t \notin Blocked' => t \in threads']_bvars
=============================================================================
