------------------------------- MODULE Kernel -------------------------------
(***************************************************************************)
(* Threads, scheduler, IPC system calls and device interrupts of the       *)
(* ZephyrRS kernel, on its one CPU.                                        *)
(*                                                                         *)
(* System calls run with interrupts masked (FMASK 0x300 in syscall.rs) and *)
(* interrupt gates clear IF, so each handler is one action; between two    *)
(* actions interrupts are enabled and any thread may be preempted.         *)
(*                                                                         *)
(* Init is the state kernel_thread_main leaves when it reaches hlt_loop    *)
(* without having been preempted: thread 1 runs, the user main thread (3)  *)
(* and the VGA listener (2) are queued, and the id of thread 3 is waiting  *)
(* in ID_SOCKET.  User threads are arbitrary programs: any of them may     *)
(* make any modelled system call with any handle and message at any time.  *)
(***************************************************************************)
EXTENDS Socket, Sequences, Functions

CONSTANTS
  Msgs,         \* messages and keys (one word each)
  UserHandles,  \* handles user programs pass to the IPC system calls
  MaxId         \* bound on the ids unique_id() hands out

ASSUME MsgsAssumption == Msgs \subseteq Nat
ASSUME HandlesAssumption == UserHandles \subseteq Nat
ASSUME MaxIdAssumption == MaxId \in Nat /\ MaxId >= 4

VARIABLES
  queue,    \* WAIT_QUEUE, front first
  running,  \* RUNNING_THREAD
  threads,  \* the Thread objects that exist
  counter,  \* COUNTER of unique_id()
  sock,     \* the cells behind the five sockets
  ctx,      \* per thread: rax and the message registers of its last IPC call
  pt,       \* per thread: page_table_phys
  cr3,      \* the page table the CPU uses
  tables,   \* the page tables that have not been freed
  ist,      \* whose kernel stack TSS.IST[TIMER_INTERRUPT_INDEX] points to
  cpu       \* "on", "lost" once launch_thread(0) has been executed, or "spin"
            \* on a lock with interrupts masked (module Boot)

vars == <<queue, running, threads, counter, sock, ctx, pt, cr3, tables, ist, cpu>>

-----------------------------------------------------------------------------
Tids == 1 .. MaxId
Idle == 1       \* kernel_thread_main, in hlt_loop
Listener == 2   \* vga_buffer::listener
Main == 3       \* the first user thread
KernelThreads == {Idle, Listener}
UserThreads == threads \ KernelThreads

SocketIds == {"keyboard", "vga", "id", "fin", "proc_fin"}
NoSocket == "none"

NoTable == "0"            \* page_table_phys = 0
KernelTable == "kernel"
UserTable == "user"       \* the one page table all user threads share
Tables == {NoTable, KernelTable, UserTable}

\* The saved registers a system call result is read from.
Contexts == [rax : Codes, data : Nat \cup {NoMsg}]

\* Process.sockets: the resources of kernel_thread_main, and the one socket
\* of the listener.
UserSockets == <<"keyboard", "vga", "id", "fin", "proc_fin">>

\* Thread::get_sockets(handle)
get_sockets(t, handle) ==
  CASE t = Listener /\ handle = 0 -> "vga"
    [] t \notin KernelThreads /\ handle + 1 \in DOMAIN UserSockets ->
         UserSockets[handle + 1]
    [] OTHER -> NoSocket

\* Threads held by a socket.
Blocked == {sock[k].thread : k \in SocketIds} \ {NoThread}

-----------------------------------------------------------------------------
Init ==
  /\ queue = <<Main, Listener>>
  /\ running = Idle
  /\ threads = {Idle, Listener, Main}
  /\ counter = 4
  /\ sock = [k \in SocketIds |-> IF k = "id" THEN Sending(NoThread, Main) ELSE Empty]
  /\ ctx = [t \in Tids |-> [rax |-> 0, data |-> NoMsg]]
  /\ pt \in {[t \in Tids |-> CASE t = Idle -> p [] t = Main -> UserTable [] OTHER -> NoTable] :
             p \in {NoTable, KernelTable}}
  /\ cr3 = KernelTable
  /\ tables = {KernelTable, UserTable}
  /\ ist = Idle
  /\ cpu = "on"

-----------------------------------------------------------------------------
(***************************************************************************)
(* The scheduler (process.rs)                                              *)
(***************************************************************************)
\* Mutant: a woken thread queues up behind the others.
schedule_thread_back(q, t) == Append(q, t)

\* schedule_thread: a woken thread goes to the front of the queue.
schedule_thread(q, t) == <<t>> \o q

\* `if let Some(t) = thread { schedule_thread(t) }`
schedule_some(q, t) == IF t = NoThread THEN q ELSE schedule_thread(q, t)

\* Mutants: the thread switched out is dropped; it goes to the front.
update_current_thread_drop(q, current) == q
update_current_thread_front(q, current) ==
  IF current = NoThread THEN q ELSE <<current>> \o q

\* update_current_thread: the queue with the running thread behind it.
update_current_thread(q, current) ==
  IF current = NoThread THEN q ELSE Append(q, current)

\* Mutant: the thread switched out keeps the page table it was created with.
save_page_table_none(current) == pt

\* page_table_phys of the thread switched out is what the CPU was using.
save_page_table(current) ==
  IF current = NoThread THEN pt ELSE [pt EXCEPT ![current] = cr3]

\* Mutant: the interrupt stack stays that of the thread switched out.
schedule_same_stack(q, current) ==
  LET waiting == update_current_thread(q, current)
      saved == save_page_table(current)
      next == IF waiting = <<>> THEN NoThread ELSE Head(waiting)
  IN  /\ running' = next
      /\ queue' = IF waiting = <<>> THEN <<>> ELSE Tail(waiting)
      /\ pt' = saved
      /\ ist' = ist
      /\ cr3' = IF next = NoThread \/ saved[next] = NoTable THEN cr3 ELSE saved[next]

(***************************************************************************)
(* schedule, called with the queue q and RUNNING_THREAD = current.  The    *)
(* next thread's kernel stack becomes the interrupt stack and its page     *)
(* table, unless 0, is loaded.  An empty queue leaves no thread running.   *)
(***************************************************************************)
schedule(q, current) ==
  LET waiting == update_current_thread(q, current)
      saved == save_page_table(current)
      next == IF waiting = <<>> THEN NoThread ELSE Head(waiting)
  IN  /\ running' = next
      /\ queue' = IF waiting = <<>> THEN <<>> ELSE Tail(waiting)
      /\ pt' = saved
      /\ ist' = IF next = NoThread THEN ist ELSE next
      /\ cr3' = IF next = NoThread \/ saved[next] = NoTable THEN cr3 ELSE saved[next]

\* launch_thread of what schedule returned: address 0 when no thread is left.
launch_thread == cpu' = IF running' = NoThread THEN "lost" ELSE "on"

-----------------------------------------------------------------------------
(***************************************************************************)
(* System calls (syscall.rs).  The caller is the running thread.           *)
(***************************************************************************)
\* set_context: the frame the syscall pushed, with no result in it yet.
set_context(data) == [ctx EXCEPT ![running] = [rax |-> Pending, data |-> data]]

\* Mutant: the caller, which is about to continue, is queued as well.
wake_caller(q, t) == schedule_some(q, t)

\* One of the two threads an operation returned, unless it is the caller.
wake(q, t) == IF t = running THEN q ELSE schedule_some(q, t)

(***************************************************************************)
(* What sys_receive and sys_send do with an operation's outcome r on cell  *)
(* k: thread2, then thread1, is put back; the caller continues if it is    *)
(* one of them, and otherwise the next thread is launched.                 *)
(***************************************************************************)
rendezvous(k, r) ==
  LET woken == wake(wake(queue, r.thread2), r.thread1)
  IN  /\ sock' = [sock EXCEPT ![k] = r.sock]
      /\ ctx' = r.ctx
      /\ \/ /\ running \in {r.thread1, r.thread2}
            /\ queue' = woken
            /\ UNCHANGED <<running, pt, cr3, ist, cpu>>
         \/ /\ running \notin {r.thread1, r.thread2}
            /\ schedule(woken, NoThread)
            /\ launch_thread
      /\ UNCHANGED <<threads, counter, tables>>

\* get_sockets found nothing: the caller continues with error 3.
invalid_handle(c) ==
  /\ ctx' = return_error(c, running, SYSCALL_ERROR_INVALID_HANDLE)
  /\ UNCHANGED <<queue, running, threads, counter, sock, pt, cr3, tables, ist, cpu>>

sys_receive(handle) ==
  LET k == get_sockets(running, handle)
      c == set_context(NoMsg)
  IN  \/ k = NoSocket /\ invalid_handle(c)
      \/ k # NoSocket /\ rendezvous(k, receive(sock[k], c, running))

\* System call 4, and system call 5, which waits for a reply.
sys_send(handle, message) ==
  LET k == get_sockets(running, handle)
      c == set_context(message)
  IN  \/ k = NoSocket /\ invalid_handle(c)
      \/ k # NoSocket /\ rendezvous(k, send_message(sock[k], c, running, message))

sys_send_receive(handle, message) ==
  LET k == get_sockets(running, handle)
      c == set_context(message)
  IN  \/ k = NoSocket /\ invalid_handle(c)
      \/ k # NoSocket /\ rendezvous(k, send_receive(sock[k], c, running, message))

sys_yield ==
  /\ schedule(queue, running)
  /\ launch_thread
  /\ UNCHANGED <<threads, counter, sock, ctx, tables>>

(***************************************************************************)
(* fork_current_thread.  allocate_user_stack takes the id counter + 1 as   *)
(* its starting slot; if it fails the caller gets SYSCALL_ERROR_MEMALLOC.  *)
(***************************************************************************)
fork_ok ==
  LET tid == counter + 2
  IN  /\ tid \in Tids
      /\ counter' = tid
      /\ threads' = threads \cup {tid}
      /\ queue' = Append(queue, tid)
      /\ ctx' = [ctx EXCEPT ![tid] = [rax |-> 0, data |-> 0],
                            ![running] = [rax |-> 0, data |-> tid]]
      /\ pt' = [pt EXCEPT ![tid] = pt[running]]
      /\ UNCHANGED <<running, sock, cr3, tables, ist, cpu>>

fork_no_stack ==
  /\ counter + 1 \in Tids
  /\ counter' = counter + 1
  /\ ctx' = return_error(ctx, running, SYSCALL_ERROR_MEMALLOC)
  /\ UNCHANGED <<queue, running, threads, sock, pt, cr3, tables, ist, cpu>>

fork_current_thread == fork_ok \/ fork_no_stack

\* VecDeque::retain(id != t), which copies the queue when t is not in it.
retain(q, t) ==
  IF t \in Range(q) THEN SelectSeq(q, LAMBDA u : u # t) ELSE q

\* Mutant: every exit frees the page table, not only the last one.
exit_current_thread_frees ==
  /\ running' = NoThread
  /\ queue' = retain(queue, running)
  /\ threads' = threads \ {running}
  /\ tables' = tables \ {UserTable}
  /\ cr3' = KernelTable
  /\ UNCHANGED <<counter, sock, ctx, pt, ist, cpu>>

\* Thread t is dropped.  The last user thread takes its Process with it, whose
\* Drop leaves the page table if it is in use and frees it.
drop_thread(t) ==
  LET last == UserThreads = {t}
  IN  /\ threads' = threads \ {t}
      /\ tables' = IF last THEN tables \ {UserTable} ELSE tables
      /\ cr3' = IF last /\ cr3 = UserTable THEN KernelTable ELSE cr3

\* exit_current_thread.  The CPU then halts, on the dead thread's kernel stack,
\* until an interrupt.
exit_current_thread ==
  /\ running' = NoThread
  /\ queue' = retain(queue, running)
  /\ drop_thread(running)
  /\ UNCHANGED <<counter, sock, ctx, pt, ist, cpu>>

-----------------------------------------------------------------------------
(***************************************************************************)
(* Interrupts (interrupts.rs)                                              *)
(***************************************************************************)
\* A null context address makes interrupt_wrap resume what it interrupted.
timer_handler ==
  /\ schedule(queue, running)
  /\ UNCHANGED <<threads, counter, sock, ctx, tables, cpu>>

\* A decoded key is sent to KEYBOARD_SOCKET with no sending thread; a thread
\* that was waiting for it is switched to at once.
keyboard_handler_inner(key) ==
  LET r == send_message(sock["keyboard"], ctx, NoThread, key)
      woken == schedule_some(schedule_some(queue, r.thread2), r.thread1)
  IN  /\ sock' = [sock EXCEPT !["keyboard"] = r.sock]
      /\ ctx' = r.ctx
      /\ \/ /\ r.thread1 = NoThread
            /\ queue' = woken
            /\ UNCHANGED <<running, pt, cr3, ist>>
         \/ /\ r.thread1 # NoThread
            /\ schedule(woken, running)
      /\ UNCHANGED <<threads, counter, tables, cpu>>

-----------------------------------------------------------------------------
\* What the running thread may do: the listener only receives (dev/
\* vga_buffer.rs), thread 1 sleeps in hlt_loop.
Syscall ==
  \/ running = Listener /\ sys_receive(0)
  \/ /\ running \in UserThreads
     /\ \/ \E h \in UserHandles : sys_receive(h)
        \/ \E h \in UserHandles, m \in Msgs : sys_send(h, m)
        \/ \E h \in UserHandles, m \in Msgs : sys_send_receive(h, m)
        \/ sys_yield
        \/ fork_current_thread
        \/ exit_current_thread

Interrupt == timer_handler \/ \E key \in Msgs : keyboard_handler_inner(key)

Next == cpu = "on" /\ (Syscall \/ Interrupt)

Spec == Init /\ [][Next]_vars

-----------------------------------------------------------------------------
(***************************************************************************)
(* Safety                                                                  *)
(***************************************************************************)
\* Every variable has its type; a cell holds what its variant holds.
CellOK(c) ==
  /\ c.st = "Empty" <=> c.thread = NoThread /\ c.msg = NoMsg
  /\ c.st \in {"Receiving", "SendReceiving"} => c.thread # NoThread
  /\ c.st \in {"Sending", "SendReceiving"} <=> c.msg # NoMsg
  /\ c.only # NoThread => c.st = "Receiving"

TypeOK ==
  /\ queue \in Seq(Tids)
  /\ running \in Tids \cup {NoThread}
  /\ threads \subseteq Tids
  /\ counter \in Tids
  /\ sock \in [SocketIds -> Cells(Tids, Nat)]
  /\ \A k \in SocketIds : CellOK(sock[k])
  /\ ctx \in [Tids -> Contexts]
  /\ pt \in [Tids -> Tables]
  /\ cr3 \in Tables \ {NoTable}
  /\ tables \subseteq Tables \ {NoTable}
  /\ ist \in Tids
  /\ cpu \in {"on", "lost", "spin"}

\* Every Thread object is owned by exactly one of RUNNING_THREAD, one slot of
\* WAIT_QUEUE and one socket: no handler drops a thread it took from a socket
\* or from RUNNING_THREAD, or queues it where it is already reachable.
EveryThreadHeldOnce ==
  /\ IsInjective(queue)
  /\ threads = Range(queue) \cup Blocked \cup ({running} \ {NoThread})
  /\ Range(queue) \cap Blocked = {}
  /\ running \notin Range(queue) \cup Blocked
  /\ \A j, k \in SocketIds :
        sock[j].thread = sock[k].thread /\ j # k => sock[j].thread = NoThread

\* A blocking system call always finds another thread to run: launch_thread
\* is never given the null context that schedule returns for an empty queue.
LaunchNeverNull == cpu # "lost"

\* The interrupt stack is the running thread's own kernel stack, so that an
\* interrupt never overwrites the saved context of a thread that is blocked.
OwnInterruptStack == running # NoThread => ist = running

\* A user thread always runs on its process's page table, and that table has
\* not been freed while any thread of the process exists.
OwnAddressSpace ==
  /\ UserThreads # {} => UserTable \in tables
  /\ running \in UserThreads => cr3 = UserTable

\* A thread has no system call result exactly while a socket holds it: nobody
\* is resumed without a result, or given one and left blocked.
ResultIffReleased ==
  \A t \in threads : ctx[t].rax = Pending <=> t \in Blocked

(***************************************************************************)
(* The inductive invariant: the safety invariants of Kernel together with  *)
(* the facts they need.  Thread 1 never exits or blocks, so the queue is   *)
(* not empty when another thread does; ids are handed out in increasing    *)
(* order, so a forked thread is a new one; and every user thread keeps the *)
(* page table of its process.  CoreInv holds from the first tick on, IInv  *)
(* once the listener has been started.                                     *)
(***************************************************************************)
ThreadsOK ==
  /\ Idle \in threads
  /\ Idle \notin Blocked
  /\ \A t \in threads : t <= counter
  /\ \A t \in UserThreads : pt[t] = UserTable

CoreInv ==
  /\ TypeOK
  /\ EveryThreadHeldOnce
  /\ LaunchNeverNull
  /\ OwnInterruptStack
  /\ OwnAddressSpace
  /\ ResultIffReleased
  /\ ThreadsOK

IInv == CoreInv /\ Listener \in threads

\* The page table the CPU uses has not been freed ("Must not be called to free
\* the current page tables", free_user_pagetables).
ActiveTableLive == cr3 \in tables

-----------------------------------------------------------------------------
(***************************************************************************)
(* What a step may never do                                                *)
(***************************************************************************)
\* A message a socket has accepted leaves it only into the registers of one
\* thread, which gets rax = 0, and the thread that sent it is told so in the
\* same step, or keeps waiting there for the reply.
AcceptedMessageDelivered ==
  [][\A k \in SocketIds :
       sock[k].msg # NoMsg /\ sock'[k] # sock[k] =>
         /\ ctx'[running] = [rax |-> 0, data |-> sock[k].msg]
         /\ sock[k].st = "Sending" /\ sock[k].thread # NoThread =>
              ctx'[sock[k].thread].rax = 0
         /\ sock[k].st = "SendReceiving" =>
              sock'[k] = Receiving(sock[k].thread, running)]_vars

\* A thread that waits for a reply is answered by the thread that was given
\* its request and by nobody else: not by another sender, not by a key.
ReplyOnlyFromPeer ==
  [][\A k \in SocketIds :
       sock[k].only # NoThread /\ sock'[k] # sock[k] =>
         running = sock[k].only]_vars

\* A thread released from a socket is the next to run, whoever was queued
\* before it: at once ("thread1 should be scheduled to run next", keyboard
\* interrupt), or right after the caller of the system call that released it.
WokenThreadRunsNext ==
  [][\A t \in Blocked :
       t \notin Blocked' =>
         running' = t \/ (running' = running /\ Head(queue') = t)]_vars

(***************************************************************************)
(* Liveness                                                                *)
(***************************************************************************)
\* Every runnable thread eventually runs, although woken threads jump the
\* queue: whoever a timer tick preempts goes behind everyone who waits.  (Unless
\* the CPU stops in a lock, module Boot.)
NoStarvation ==
  \A t \in Tids : t \in Range(queue) ~> running = t \/ cpu # "on"
=============================================================================
