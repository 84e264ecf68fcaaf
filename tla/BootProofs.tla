----------------------------- MODULE BootProofs -----------------------------
(***************************************************************************)
(* The inductive invariant of the boot, for every message set, handle set  *)
(* and MaxId: whatever preempts thread 1 while it starts the listener and  *)
(* the first process, the kernel it leaves is one Kernel speaks of.        *)
(***************************************************************************)
EXTENDS Boot, KernelProofs

\* Zenon proves the steps, but for those that cite SMT.
USE Zenon

\* The page table thread 1 continues on is T: loaded while it runs, and saved
\* with it otherwise.
Continues(T) == IF running = Idle THEN cr3 = T ELSE pt[Idle] = T

\* schedule keeps the page table of thread 1, whoever is switched out and
\* whoever runs next.
LEMMA ScheduleTable ==
  ASSUME NEW q, NEW current, NEW T, T # NoTable,
         pt \in [Tids -> Tables], Idle \in Tids, Continues(T),
         current = running \/ (current = NoThread /\ running # Idle),
         schedule(q, current)
  PROVE  Continues(T)'
<1> DEFINE w == update_current_thread(q, current)
           p == save_page_table(current)
           next == IF w = <<>> THEN NoThread ELSE Head(w)
<1>1. p[Idle] = T
  BY SMT DEF save_page_table, Continues, NoThread, Idle
<1>2. running' = next /\ pt' = p /\ (next = Idle => cr3' = p[Idle])
  <2> HIDE DEF w, p
  <2>1. /\ running' = next /\ pt' = p
        /\ cr3' = IF next = NoThread \/ p[next] = NoTable THEN cr3 ELSE p[next]
    BY DEF schedule, w, p
  <2>2. Idle # NoThread
    BY SMT DEF Idle, NoThread
  <2> HIDE DEF next
  <2> QED  BY <1>1, <2>1, <2>2
<1> HIDE DEF p, next
<1> QED  BY <1>1, <1>2 DEF Continues

\* Every step of Kernel keeps it.
LEMMA KernelTableStep ==
  ASSUME CoreInv, Next, NEW T, T # NoTable, Continues(T)
  PROVE  Continues(T)'
<1>1. pt \in [Tids -> Tables] /\ Idle \in Tids /\ counter \in Nat
  BY MaxIdAssumption, SMT DEF CoreInv, TypeOK, Tids, Idle
<1>2. UNCHANGED <<running, pt, cr3>> => Continues(T)'
  BY DEF Continues
<1>3. ASSUME NEW h, NEW m, running # Idle,
             sys_receive(h) \/ sys_send(h, m) \/ sys_send_receive(h, m)
      PROVE  Continues(T)'
  <2>1. ASSUME NEW k, NEW r, rendezvous(k, r)
        PROVE  Continues(T)'
    BY <1>1, <1>2, <1>3, <2>1, ScheduleTable DEF rendezvous
  <2>2. ASSUME NEW c, invalid_handle(c)
        PROVE  Continues(T)'
    BY <1>2, <2>2 DEF invalid_handle
  <2> QED  BY <1>3, <2>1, <2>2 DEF sys_receive, sys_send, sys_send_receive
<1>4. CASE sys_yield \/ timer_handler
  BY <1>1, <1>4, ScheduleTable DEF sys_yield, timer_handler
<1>5. CASE fork_current_thread
  BY <1>1, <1>5, SMT DEF fork_current_thread, fork_ok, fork_no_stack, Continues, Idle
<1>6. CASE running \in UserThreads /\ exit_current_thread
  BY <1>6, SMT DEF exit_current_thread, Continues, UserThreads, KernelThreads, NoThread, Idle
<1>7. CASE \E key \in Msgs : keyboard_handler_inner(key)
  BY <1>1, <1>2, <1>7, ScheduleTable DEF keyboard_handler_inner
<1>8. running = Listener \/ running \in UserThreads => running # Idle
  BY SMT DEF UserThreads, KernelThreads, Listener, Idle
<1> QED
  BY <1>3, <1>4, <1>5, <1>6, <1>7, <1>8 DEF Next, Syscall, Interrupt

-----------------------------------------------------------------------------
\* A step of the boot is a statement of thread 1, a wait for the lock it holds,
\* or a step of Kernel.
LEMMA BootSteps ==
  ASSUME BootNext
  PROVE  \/ kernel_thread_main
         \/ \E h \in UserHandles : lock = get_sockets(running, h) /\ spin
         \/ Next /\ UNCHANGED <<pc, lock>>
BY DEF BootNext, ipc, tick, Next, Syscall, Interrupt

\* The state at the first tick.
LEMMA BootInitInv == BootInit => BootInv
<1> SUFFICES ASSUME BootInit PROVE BootInv
  OBVIOUS
<1>1. 1 \in Tids /\ 0 \notin Tids
  BY MaxIdAssumption, SMT DEF Tids
<1>2. /\ sock \in [SocketIds -> Cells(Tids, Nat)]
      /\ \A k \in SocketIds : CellOK(sock[k]) /\ sock[k].thread = NoThread
  BY DEF BootInit, Cells, Cell, CellOK, Empty, NoThread, NoMsg, Variants
<1>3. Blocked = {} /\ UserThreads = {}
  BY <1>2 DEF Blocked, BootInit, UserThreads, KernelThreads
<1>4. queue \in Seq(Tids) /\ IsInjective(queue) /\ Range(queue) = {}
  BY SMT DEF BootInit, IsInjective, Range
<1>5. TypeOK
  BY <1>1, <1>2, <1>4
  DEF BootInit, TypeOK, Contexts, Codes, Tables, NoTable, KernelTable, UserTable, Idle
<1>6. EveryThreadHeldOnce
  BY <1>2, <1>3, <1>4, SMT DEF BootInit, EveryThreadHeldOnce, NoThread, Idle
<1>7. ResultIffReleased
  BY <1>1, <1>3, SMT DEF BootInit, ResultIffReleased, Pending, Idle
<1>8. LaunchNeverNull /\ OwnInterruptStack /\ OwnAddressSpace /\ ThreadsOK
  BY <1>3, SMT
  DEF BootInit, LaunchNeverNull, OwnInterruptStack, OwnAddressSpace, ThreadsOK, Idle
<1> QED
  BY <1>5, <1>6, <1>7, <1>8, SMT
  DEF BootInv, CoreInv, BootInit, Steps, Pending, Empty, Cell, NoThread, Listener, SocketIds, BootTable, StopsOnlyInHandOver

\* A step of Kernel gives a result to, or starts a call of, nobody but a thread
\* that exists.
LEMMA OthersKeepContext ==
  ASSUME CoreInv, Next
  PROVE  \A t \in Tids \ (threads \cup threads') : ctx'[t] = ctx[t]
<1> SUFFICES ASSUME NEW t \in Tids, t \notin threads, t \notin threads'
             PROVE  ctx'[t] = ctx[t]
  OBVIOUS
<1>1. \A k \in SocketIds : sock[k].thread # NoThread => sock[k].thread \in threads
  BY InvFacts DEF Blocked
<1>2. ASSUME NEW h \in Nat, NEW m \in Nat, running \in threads,
             sys_receive(h) \/ sys_send(h, m) \/ sys_send_receive(h, m)
      PROVE  ctx'[t] = ctx[t]
  <2>1. CASE \E d \in Nat \cup {NoMsg} : invalid_handle(set_context(d))
    <3>1. PICK d \in Nat \cup {NoMsg} : invalid_handle(set_context(d))
      BY <2>1
    <3>2. /\ set_context(d) \in [Tids -> Contexts] /\ set_context(d)[t] = ctx[t]
          /\ running \in Tids
      BY <1>2, SetContext, InvFacts
    <3> QED  BY <1>2, <3>1, <3>2 DEF invalid_handle, return_error
  <2>2. CASE \E k \in SocketIds, c \in [Tids -> Contexts] : \E r :
               /\ \A u \in Tids \ {running} : c[u] = ctx[u]
               /\ Contract(sock[k], c, running, r)
               /\ rendezvous(k, r)
    <3>1. PICK k \in SocketIds, c \in [Tids -> Contexts] : \E r :
               /\ \A u \in Tids \ {running} : c[u] = ctx[u]
               /\ Contract(sock[k], c, running, r)
               /\ rendezvous(k, r)
      BY <2>2
    <3>2. PICK r : /\ Contract(sock[k], c, running, r)
                   /\ rendezvous(k, r)
      BY <3>1
    <3>3. ctx' = r.ctx /\ \A u \in Tids \ {running, sock[k].thread} : r.ctx[u] = c[u]
      BY <3>2 DEF rendezvous, Contract
    <3>4. t # running /\ t # sock[k].thread
      BY <1>1, <1>2, SMT DEF Tids, NoThread
    <3> QED  BY <3>1, <3>3, <3>4
  <2> QED  BY <1>2, <2>1, <2>2, IpcStep
<1>3. ASSUME NEW key \in Msgs, keyboard_handler_inner(key)
      PROVE  ctx'[t] = ctx[t]
  <2> DEFINE s == sock["keyboard"]
  <2>1. ctx \in [Tids -> Contexts] /\ s.thread # t
    BY <1>1, SMT DEF CoreInv, TypeOK, SocketIds, Tids, NoThread
  <2>2. ctx' = send_message(s, ctx, NoThread, key).ctx
    BY <1>3 DEF keyboard_handler_inner
  <2>3. s.st \in Variants
    BY DEF CoreInv, TypeOK, SocketIds, Cells
  <2> QED
    BY <2>1, <2>2, <2>3
    DEF send_message, Refuse, Outcome, return_error, return_message, Variants
<1>4. sys_yield \/ exit_current_thread \/ timer_handler => ctx'[t] = ctx[t]
  BY DEF sys_yield, exit_current_thread, timer_handler
<1>5. running \in UserThreads /\ fork_current_thread => ctx'[t] = ctx[t]
  <2>1. ctx \in [Tids -> Contexts]
    BY DEF CoreInv, TypeOK
  <2> QED  BY <2>1 DEF fork_current_thread, fork_ok, fork_no_stack, return_error, UserThreads
<1>6. /\ UserHandles \subseteq Nat /\ Msgs \subseteq Nat /\ 0 \in Nat
      /\ running \in UserThreads => running \in threads
      /\ running = Listener => running \in threads
  BY HandlesAssumption, MsgsAssumption, InvFacts, SMT DEF UserThreads, Listener, NoThread
<1>7. CASE Syscall
  BY <1>2, <1>4, <1>5, <1>6, <1>7 DEF Syscall
<1>8. CASE Interrupt
  BY <1>3, <1>4, <1>8 DEF Interrupt
<1> QED  BY <1>7, <1>8 DEF Next

\* The listener, which has one socket, never waits for an id.
LEMMA ListenerNotOnId ==
  ASSUME CoreInv, Next, sock["id"].thread # Listener
  PROVE  sock'["id"].thread # Listener
<1>1. "id" \in SocketIds /\ sock \in [SocketIds -> Cells(Tids, Nat)]
  BY DEF SocketIds, CoreInv, TypeOK
<1>2. UNCHANGED sock => sock'["id"].thread # Listener
  OBVIOUS
<1>3. ASSUME NEW h \in Nat, NEW m \in Nat, running \in threads,
             sys_receive(h) \/ sys_send(h, m) \/ sys_send_receive(h, m)
      PROVE  sock'["id"].thread # Listener
  <2>1. CASE \E d \in Nat \cup {NoMsg} : invalid_handle(set_context(d))
    BY <1>2, <2>1 DEF invalid_handle
  <2>2. ASSUME NEW k \in SocketIds, NEW c, NEW r, k = get_sockets(running, h),
               Contract(sock[k], c, running, r), rendezvous(k, r)
        PROVE  sock'["id"].thread # Listener
    <3>1. running = Listener => k # "id"
      BY <2>2, <1>1 DEF get_sockets, KernelThreads, NoSocket
    <3>2. sock' = [sock EXCEPT ![k] = r.sock]
      BY <2>2 DEF rendezvous
    <3>3. r.sock.thread \in {running, sock[k].thread, NoThread}
      BY <2>2 DEF Contract
    <3>4. Listener # NoThread
      BY SMT DEF Listener, NoThread
    <3> QED  BY <1>1, <3>1, <3>2, <3>3, <3>4
  <2> QED  BY <1>3, <2>1, <2>2, IpcStep
<1>4. \A key : keyboard_handler_inner(key) => sock'["id"] = sock["id"]
  BY <1>1 DEF keyboard_handler_inner
<1>5. sys_yield \/ fork_current_thread \/ exit_current_thread \/ timer_handler => UNCHANGED sock
  BY DEF sys_yield, fork_current_thread, fork_ok, fork_no_stack, exit_current_thread,
         timer_handler
<1>6. /\ UserHandles \subseteq Nat /\ Msgs \subseteq Nat /\ 0 \in Nat
      /\ running \in UserThreads => running \in threads
      /\ running = Listener => running \in threads
  BY HandlesAssumption, MsgsAssumption, InvFacts, SMT DEF UserThreads, Listener, NoThread
<1>7. CASE Syscall
  BY <1>2, <1>3, <1>5, <1>6, <1>7 DEF Syscall
<1>8. CASE Interrupt
  BY <1>2, <1>4, <1>5, <1>8 DEF Interrupt
<1> QED  BY <1>7, <1>8 DEF Next

\* A step of Kernel in the middle of the boot.
LEMMA PreemptedInv == BootInv /\ cpu = "on" /\ Next /\ UNCHANGED <<pc, lock>> => BootInv'
<1> SUFFICES ASSUME BootInv, cpu = "on", Next, UNCHANGED <<pc, lock>> PROVE BootInv'
  OBVIOUS
<1>1. CoreInv'
  BY CoreStep DEF BootInv
<1>2. cpu' = "on"
  BY <1>1
  DEF CoreInv, LaunchNeverNull, Next, Syscall, Interrupt, sys_receive, sys_send,
      sys_send_receive, rendezvous, invalid_handle, launch_thread, sys_yield,
      fork_current_thread, fork_ok, fork_no_stack, exit_current_thread,
      timer_handler, keyboard_handler_inner
<1>3. ASSUME UserThreads = {}
      PROVE  UNCHANGED <<threads, counter, tables>>
  BY <1>3
  DEF Next, Syscall, Interrupt, sys_receive, rendezvous, invalid_handle,
      timer_handler, keyboard_handler_inner
<1>4. Continues(BootTable)'
  <2>1. BootTable # NoTable /\ BootTable' = BootTable
    BY DEF BootTable, UserTable, KernelTable, NoTable
  <2>2. Continues(BootTable)
    BY DEF BootInv, Continues
  <2> QED  BY <2>1, <2>2, KernelTableStep DEF BootInv, Continues
<1>5. Listener \in threads => Listener \in threads'
  BY KernelThreadsStay
<1>6. pc = "listener" => UserThreads = {}
  BY DEF BootInv, UserThreads, KernelThreads
<1>7. \A t \in Tids \ threads' : ctx'[t].rax # Pending
  <2> SUFFICES ASSUME NEW t \in Tids, t \notin threads'
               PROVE  ctx'[t].rax # Pending
    OBVIOUS
  <2>1. CASE t \notin threads
    BY <2>1, OthersKeepContext DEF BootInv
  <2>2. CASE t \in threads
    <3>1. running = t /\ ctx' = ctx
      BY <2>2
      DEF Next, Syscall, Interrupt, sys_receive, sys_send, sys_send_receive, rendezvous,
          invalid_handle, sys_yield, fork_current_thread, fork_ok, fork_no_stack,
          exit_current_thread, drop_thread, timer_handler, keyboard_handler_inner
    <3> QED  BY <2>2, <3>1, InvFacts DEF BootInv, CoreInv, ResultIffReleased
  <2> QED  BY <2>1, <2>2
<1>8. sock'["id"].thread # Listener
  BY ListenerNotOnId DEF BootInv
<1> QED
  BY <1>1, <1>2, <1>3, <1>4, <1>5, <1>6, <1>7, <1>8
  DEF BootInv, Continues, BootTable, StopsOnlyInHandOver, UserThreads

\* The listener is queued alone.
LEMMA StartListenerInv == BootInv /\ running = Idle /\ start_listener => BootInv'
<1> SUFFICES ASSUME BootInv, running = Idle, start_listener PROVE BootInv'
  OBVIOUS
<1>1. /\ pc = "listener" /\ pc' = "enter" /\ counter' = 2
      /\ threads = {Idle} /\ threads' = {Idle, Listener}
      /\ queue' = <<Listener>> \o queue
      /\ UNCHANGED <<running, sock, ctx, pt, cr3, tables, ist, cpu, lock>>
  BY SMT DEF start_listener, goto, schedule_thread, BootInv
<1>2. Listener \in Tids /\ Listener # Idle /\ Listener # NoThread /\ 2 \in Tids
  BY MaxIdAssumption, SMT DEF Tids, Listener, Idle, NoThread
<1>3. queue \in Seq(Tids) /\ IsInjective(queue) /\ Range(queue) = {} /\ Blocked = {}
  BY <1>1, InvFacts, SMT DEF BootInv
<1>4. queue' \in Seq(Tids) /\ IsInjective(queue') /\ Range(queue') = {Listener}
  BY <1>1, <1>2, <1>3, PushFront, SMT
<1>5. Blocked' = {} /\ UserThreads' = {} /\ UserThreads = {}
  BY <1>1, <1>3 DEF Blocked, UserThreads, KernelThreads
<1>6. TypeOK'
  BY <1>1, <1>2, <1>4, InvFacts DEF BootInv, CoreInv, TypeOK, Tids, Idle
<1>7. EveryThreadHeldOnce'
  BY <1>1, <1>2, <1>4, <1>5 DEF BootInv, CoreInv, EveryThreadHeldOnce, Idle, NoThread
<1>8. ResultIffReleased'
  BY <1>1, <1>2, <1>3, <1>5 DEF BootInv, CoreInv, ResultIffReleased
<1>9. LaunchNeverNull' /\ OwnInterruptStack' /\ OwnAddressSpace' /\ ThreadsOK'
  BY <1>1, <1>5, SMT
  DEF BootInv, CoreInv, LaunchNeverNull, OwnInterruptStack, OwnAddressSpace, ThreadsOK,
      Idle, Listener
<1>10. \A t \in Tids \ threads' : ctx'[t].rax # Pending
  BY <1>1 DEF BootInv
<1> QED
  BY <1>1, <1>5, <1>6, <1>7, <1>8, <1>9, <1>10
  DEF BootInv, CoreInv, Steps, BootTable, StopsOnlyInHandOver

\* The first process is built on its own page table, and its thread queued with
\* that table recorded.
LEMMA SpawnInv == BootInv /\ running = Idle /\ spawn_user_thread => BootInv'
<1> SUFFICES ASSUME BootInv, running = Idle, spawn_user_thread PROVE BootInv'
  OBVIOUS
<1>0. UserTable \in Tables \ {NoTable} /\ KernelTable \in Tables \ {NoTable}
  BY DEF Tables, UserTable, KernelTable, NoTable
<1>1. CASE UNCHANGED <<queue, running, threads, counter, sock, ctx, pt, ist, cpu, lock>>
           /\ \/ pc = "enter" /\ pc' = "user" /\ tables' = tables \cup {UserTable} /\ cr3' = UserTable
              \/ pc = "leave" /\ pc' = "lock_id" /\ tables' = tables /\ cr3' = KernelTable
  <2>1. Blocked' = Blocked /\ UserThreads' = UserThreads /\ running \notin UserThreads
    BY <1>1 DEF Blocked, UserThreads, KernelThreads
  <2>2. TypeOK'
    BY <1>0, <1>1 DEF BootInv, CoreInv, TypeOK
  <2>3. EveryThreadHeldOnce' /\ ThreadsOK' /\ ResultIffReleased'
    BY <1>1, <2>1 DEF BootInv, CoreInv, EveryThreadHeldOnce, ThreadsOK, ResultIffReleased
  <2>4. LaunchNeverNull' /\ OwnInterruptStack' /\ OwnAddressSpace'
    BY <1>1, <2>1 DEF BootInv, CoreInv, LaunchNeverNull, OwnInterruptStack, OwnAddressSpace
  <2> QED
    BY <1>1, <2>1, <2>2, <2>3, <2>4
    DEF BootInv, CoreInv, Steps, BootTable, StopsOnlyInHandOver
<1>2. CASE /\ pc = "user" /\ pc' = "leave"
           /\ counter' = counter + 2
           /\ queue' = <<Main>> \o queue
           /\ threads' = threads \cup {Main}
           /\ pt' = [pt EXCEPT ![Main] = UserTable]
           /\ UNCHANGED <<running, sock, ctx, cr3, tables, ist, cpu, lock>>
  <2>1. /\ Main \in Tids /\ 4 \in Tids /\ counter' = 4 /\ UserThreads = {}
        /\ Main # Idle /\ Main # NoThread
    BY <1>2, MaxIdAssumption, SMT DEF BootInv, Tids, Main, Idle, NoThread
  <2>2. Main \notin threads
    BY <1>2, SMT DEF BootInv, CoreInv, ThreadsOK, Main
  <2>3. /\ queue' \in Seq(Tids) /\ IsInjective(queue')
        /\ Range(queue') = Range(queue) \cup {Main}
    BY <1>2, <2>1, <2>2, InvFacts, PushFront, SMT DEF BootInv
  <2>4. Blocked' = Blocked /\ UserThreads' \subseteq {Main} /\ Main \notin Blocked
    BY <1>2, <2>1, <2>2, InvFacts, SMT DEF BootInv, Blocked, UserThreads
  <2>5. TypeOK'
    BY <1>0, <1>2, <2>1, <2>3 DEF BootInv, CoreInv, TypeOK
  <2>6. EveryThreadHeldOnce'
    BY <1>2, <2>1, <2>3, <2>4 DEF BootInv, CoreInv, EveryThreadHeldOnce
  <2>7. ThreadsOK'
    <3>1. \A t \in threads' : t <= counter'
      BY <1>2, <2>1, InvFacts, SMT DEF BootInv, CoreInv, ThreadsOK, Main, Tids
    <3>2. pt'[Main] = UserTable
      BY <1>2, <2>1, InvFacts DEF BootInv
    <3> QED  BY <1>2, <2>4, <3>1, <3>2 DEF BootInv, CoreInv, ThreadsOK
  <2>8. ResultIffReleased'
    BY <1>2, <2>1, <2>2, <2>4 DEF BootInv, CoreInv, ResultIffReleased
  <2>9. LaunchNeverNull' /\ OwnInterruptStack' /\ OwnAddressSpace'
    BY <1>2, <2>1, <2>4 DEF BootInv, CoreInv, LaunchNeverNull, OwnInterruptStack, OwnAddressSpace
  <2> QED
    BY <1>2, <2>5, <2>6, <2>7, <2>8, <2>9
    DEF BootInv, CoreInv, Steps, BootTable, StopsOnlyInHandOver
<1> QED  BY <1>1, <1>2 DEF spawn_user_thread, goto, schedule_thread

\* The id is left in the cell, or given to a thread that was waiting for it,
\* which is then dropped: it was in the cell and nowhere else.
LEMMA DeliverInv ==
  ASSUME BootInv, running = Idle, pc = "send_id", deliver_id
  PROVE  /\ CoreInv'
         /\ UNCHANGED <<running, pt, cr3, cpu>>
         /\ Listener \in threads'
         /\ \A t \in Tids \ threads' : ctx'[t].rax # Pending
         /\ sock'["id"].thread # Listener
<1> DEFINE s == sock["id"]
           r == send_message(s, ctx, NoThread, Main)
<1>1. /\ sock' = [sock EXCEPT !["id"] = r.sock]
      /\ ctx' = r.ctx
      /\ drop_thread(r.thread1)
      /\ UNCHANGED <<queue, running, counter, pt, ist, cpu>>
  BY DEF deliver_id
<1>2. /\ CoreInv /\ "id" \in SocketIds /\ Main \in Nat /\ NoThread \notin Blocked
      /\ cr3 = KernelTable /\ Listener \in threads
      /\ \A t \in Tids \ threads : ctx[t].rax # Pending
      /\ s.thread # Listener
  BY DEF BootInv, BootTable, SocketIds, Main, Blocked
<1>3. s.thread # NoThread => s.thread \in Blocked /\ s.thread \in threads
  BY <1>2, InvFacts DEF Blocked
<1>4. Callable(s, ctx, NoThread)
  BY <1>2, <1>3 DEF CoreInv, TypeOK, ResultIffReleased, Callable
<1>5. Contract(s, ctx, NoThread, r) /\ r.thread2 = NoThread
  <2>1. Contract(s, ctx, NoThread, r)
    BY <1>2, <1>4, SendMessageContract
  <2>2. s.st \in Variants
    BY <1>2 DEF CoreInv, TypeOK, Cells
  <2>3. r.thread2 = NoThread
    BY <2>2 DEF send_message, Outcome, Refuse, Variants
  <2> QED  BY <2>1, <2>3
<1> HIDE DEF r
<1>6. /\ {r.thread1, r.sock.thread} \ {NoThread} = {s.thread} \ {NoThread}
      /\ r.thread1 # NoThread => r.thread1 # r.sock.thread
      /\ \A t \in Tids \ {NoThread, s.thread} : r.ctx[t] = ctx[t]
      /\ \A t \in {NoThread, s.thread} \ {NoThread} : r.ctx[t].rax = Pending <=> t = r.sock.thread
  BY <1>5 DEF Contract
<1>7. /\ threads' = threads \ {r.thread1}
      /\ tables' = IF UserThreads = {r.thread1} THEN tables \ {UserTable} ELSE tables
      /\ cr3' = cr3
      /\ UserThreads' = UserThreads \ {r.thread1}
  BY <1>1, <1>2 DEF drop_thread, UserTable, KernelTable, UserThreads
<1>8. /\ sock' \in [SocketIds -> Cells(Tids, Nat)]
      /\ \A j \in SocketIds : CellOK(sock'[j])
      /\ ctx' \in [Tids -> Contexts]
      /\ Blocked' = (Blocked \ {s.thread}) \cup ({r.sock.thread} \ {NoThread})
      /\ \A i, j \in SocketIds :
           sock'[i].thread = sock'[j].thread /\ i # j => sock'[i].thread = NoThread
      /\ ResultIffReleased'
  <2>1. ctx \in [Tids -> Contexts] /\ threads' \subseteq threads
    BY <1>2, <1>7 DEF CoreInv, TypeOK
  <2> QED  BY <1>1, <1>2, <1>5, <2>1, CellUpdate
<1>9. Blocked' = Blocked \ {r.thread1} /\ r.thread1 \in Blocked \cup {NoThread}
  <2>1. CASE r.thread1 = NoThread
    <3>1. r.sock.thread = s.thread
      BY <1>6, <2>1, ZenonT(30)
    <3> QED  BY <1>2, <1>3, <1>8, <2>1, <3>1
  <2>2. CASE r.thread1 # NoThread
    <3>1. r.thread1 = s.thread /\ r.sock.thread = NoThread
      BY <1>6, <2>2, SMT
    <3> QED  BY <1>3, <1>8, <2>2, <3>1
  <2> QED  BY <2>1, <2>2
<1>10. Idle \notin Blocked /\ Idle # NoThread
  BY <1>2, SMT DEF CoreInv, ThreadsOK, Idle, NoThread
<1>11. TypeOK'
  BY <1>1, <1>2, <1>7, <1>8 DEF CoreInv, TypeOK
<1>12. EveryThreadHeldOnce'
  <2>1. /\ queue' = queue /\ running' = running
        /\ threads' = Range(queue) \cup (Blocked \ {r.thread1}) \cup ({running} \ {NoThread})
    BY <1>1, <1>2, <1>7, <1>9, <1>10, InvFacts, SMT
  <2> QED  BY <1>2, <1>8, <1>9, <2>1, InvFacts DEF EveryThreadHeldOnce
<1>13. OwnAddressSpace'
  <2>1. running' \notin UserThreads'
    BY <1>1 DEF UserThreads, KernelThreads
  <2> QED  BY <1>2, <1>7, <2>1 DEF CoreInv, OwnAddressSpace
<1>14. ThreadsOK'
  BY <1>1, <1>2, <1>7, <1>9, <1>10 DEF CoreInv, ThreadsOK
<1>15. LaunchNeverNull' /\ OwnInterruptStack'
  BY <1>1, <1>2 DEF CoreInv, LaunchNeverNull, OwnInterruptStack
<1>16. CoreInv'
  BY <1>8, <1>11, <1>12, <1>13, <1>14, <1>15 DEF CoreInv
<1>17. r.thread1 # Listener /\ sock'["id"].thread # Listener
  <2>1. sock'["id"] = r.sock /\ Listener # NoThread
    BY <1>1, <1>2, SMT DEF CoreInv, TypeOK, Listener, NoThread
  <2> QED  BY <1>2, <1>6, <2>1
<1>18. \A t \in Tids \ threads' : ctx'[t].rax # Pending
  <2> SUFFICES ASSUME NEW t \in Tids, t \notin threads'
               PROVE  r.ctx[t].rax # Pending
    BY <1>1
  <2>1. t # NoThread
    BY SMT DEF Tids, NoThread
  <2>2. CASE t = r.thread1
    BY <1>6, <2>1, <2>2
  <2>3. CASE t # r.thread1
    <3>1. t \notin threads /\ t # s.thread
      BY <1>3, <1>7, <2>1, <2>3
    <3> QED  BY <1>2, <1>6, <2>1, <3>1
  <2> QED  BY <2>2, <2>3
<1> QED  BY <1>1, <1>2, <1>7, <1>16, <1>17, <1>18

\* The statement that sends the id.
LEMMA SendIdInv == BootInv /\ running = Idle /\ cpu = "on" /\ send_id => BootInv'
<1> SUFFICES ASSUME BootInv, running = Idle, cpu = "on", send_id PROVE BootInv'
  OBVIOUS
<1>1. CASE goto("send_id", "unlock_id") /\ deliver_id /\ UNCHANGED lock
  <2>1. pc = "send_id" /\ pc' = "unlock_id"
    BY <1>1 DEF goto
  <2> QED
    BY <1>1, <2>1, DeliverInv DEF BootInv, Steps, BootTable, StopsOnlyInHandOver
<1>2. CASE /\ UNCHANGED vars
           /\ \/ goto("lock_id", "send_id") /\ lock' = "id"
              \/ goto("unlock_id", "hlt") /\ lock' = "free"
  <2>1. CoreInv'
    BY <1>2, CoreStutter DEF BootInv
  <2> QED
    BY <1>2, <2>1 DEF BootInv, Steps, BootTable, StopsOnlyInHandOver, goto, vars, UserThreads
<1> QED  BY <1>1, <1>2 DEF send_id

\* A system call finds the lock taken only while thread 1 holds that of
\* ID_SOCKET.
LEMMA SpinInv ==
  ASSUME BootInv, NEW h, lock = get_sockets(running, h), spin
  PROVE  BootInv'
<1>1. lock = "id" /\ pc \in {"send_id", "unlock_id"}
  BY SMT DEF BootInv, get_sockets, UserSockets, NoSocket
<1>2. /\ cpu' = "spin"
      /\ UNCHANGED <<queue, running, threads, counter, sock, ctx, pt, cr3, tables, ist, pc, lock>>
  BY DEF spin
<1>3. Blocked' = Blocked /\ UserThreads' = UserThreads
  BY <1>2 DEF Blocked, UserThreads
<1>4. BootTable' = BootTable
  BY <1>2 DEF BootTable
<1>5. CoreInv
  BY DEF BootInv
<1>6. TypeOK'
  BY <1>2, <1>5 DEF CoreInv, TypeOK
<1>7. EveryThreadHeldOnce' /\ ThreadsOK'
  BY <1>2, <1>3, <1>5 DEF CoreInv, EveryThreadHeldOnce, ThreadsOK
<1>8. LaunchNeverNull' /\ OwnInterruptStack' /\ OwnAddressSpace' /\ ResultIffReleased'
  BY <1>2, <1>3, <1>5
  DEF CoreInv, LaunchNeverNull, OwnInterruptStack, OwnAddressSpace, ResultIffReleased
<1>9. CoreInv'
  BY <1>6, <1>7, <1>8 DEF CoreInv
<1> QED  BY <1>1, <1>2, <1>3, <1>4, <1>9 DEF BootInv, StopsOnlyInHandOver

-----------------------------------------------------------------------------
\* The boot keeps its invariant, whatever preempts it.
THEOREM BootInductive == BootSpec => []BootInv
<1>1. BootInv /\ [BootNext]_bvars => BootInv'
  <2> SUFFICES ASSUME BootInv, [BootNext]_bvars PROVE BootInv'
    OBVIOUS
  <2>1. CASE UNCHANGED bvars
    <3>1. CoreInv' /\ Blocked' = Blocked /\ UserThreads' = UserThreads
      BY <2>1, CoreStutter DEF BootInv, bvars, vars, Blocked, UserThreads
    <3> QED
      BY <2>1, <3>1 DEF BootInv, bvars, vars, BootTable, StopsOnlyInHandOver
  <2>2. CASE BootNext
    <3>1. cpu = "on"
      BY <2>2 DEF BootNext
    <3>2. CASE kernel_thread_main
      BY <3>1, <3>2, StartListenerInv, SpawnInv, SendIdInv DEF kernel_thread_main
    <3>3. CASE \E h \in UserHandles : lock = get_sockets(running, h) /\ spin
      BY <3>3, SpinInv
    <3>4. CASE Next /\ UNCHANGED <<pc, lock>>
      BY <3>1, <3>4, PreemptedInv
    <3> QED  BY <2>2, <3>2, <3>3, <3>4, BootSteps
  <2> QED  BY <2>1, <2>2
<1> QED  BY <1>1, BootInitInv, PTL DEF BootSpec

\* What Kernel promises holds at every moment of the boot.
THEOREM BootSafe == BootSpec => []SafeWhileBooting
<1>1. BootInv => SafeWhileBooting
  BY DEF BootInv, CoreInv, SafeWhileBooting
<1> QED  BY <1>1, BootInductive, PTL

\* Thread 1 always continues on the page table it was using.
THEOREM BootTables == BootSpec => []BootTableRestored
<1>1. BootInv => BootTableRestored
  BY DEF BootInv, BootTableRestored
<1> QED  BY <1>1, BootInductive, PTL

\* The CPU stops for ever only inside the statement that sends the id.
THEOREM BootStops == BootSpec => []StopsOnlyInHandOver
<1>1. BootInv => StopsOnlyInHandOver
  BY DEF BootInv
<1> QED  BY <1>1, BootInductive, PTL

\* The boot leaves a state from which everything proved of Kernel holds.
THEOREM BootHandsOver == BootSpec => []HandOver
<1>1. BootInv => HandOver
  BY DEF BootInv, HandOver, IInv
<1> QED  BY <1>1, BootInductive, PTL

\* From there on every step is one of Kernel: thread 1 only sleeps, and no call
\* finds a lock taken.
THEOREM AfterBoot == BootSpec => [][pc = "hlt" => Next]_bvars
<1>1. BootInv /\ [BootNext]_bvars => [pc = "hlt" => Next]_bvars
  <2> SUFFICES ASSUME BootInv, BootNext, pc = "hlt" PROVE Next
    OBVIOUS
  <2>1. ~kernel_thread_main
    BY DEF kernel_thread_main, start_listener, spawn_user_thread, send_id, goto
  <2>2. \A h : lock # get_sockets(running, h)
    BY SMT DEF BootInv, get_sockets, UserSockets, NoSocket
  <2> QED  BY <2>1, <2>2, BootSteps
<1> QED  BY <1>1, BootInductive, PTL DEF BootSpec
=============================================================================
