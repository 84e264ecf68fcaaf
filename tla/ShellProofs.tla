---------------------------- MODULE ShellProofs -----------------------------
(***************************************************************************)
(* The user program of module Shell: it is one of the programs Kernel      *)
(* allows, every thread gets its own id and no unwrap() fails but that of  *)
(* a completion, for every set of keys, any number of threads and every    *)
(* interleaving.                                                           *)
(***************************************************************************)
EXTENDS Shell, KernelProofs

\* Zenon proves the steps, but for those that cite SMT.
USE Zenon

-----------------------------------------------------------------------------
(***************************************************************************)
(* The kernel's operations, as far as a program sees them.                 *)
(***************************************************************************)
\* A thread runs that can make a system call.
Caller == running \in threads /\ running # NoThread

\* What a receive on cell k does that meets no other receiver there.
Received(k) ==
  /\ UNCHANGED <<threads, counter>>
  /\ \A j \in SocketIds \ {k} : sock'[j] = sock[j]
  /\ sock[k] = Empty =>
       /\ sock'[k] = Receiving(running, NoThread) /\ ctx'[running].rax = Pending
       /\ \A t \in Tids \ {running} : ctx'[t] = ctx[t]
  /\ \A u \in Tids \cup {NoThread}, m \in Nat : sock[k] = Sending(u, m) =>
       /\ sock'[k] = Empty /\ ctx'[running] = [rax |-> 0, data |-> m]
       /\ u # NoThread => ctx'[u].rax = 0
       /\ \A t \in Tids \ {running, u} : ctx'[t] = ctx[t]

\* sys_receive, on the socket its handle names.
LEMMA ReceiveEffect ==
  ASSUME CoreInv, Caller, NEW h, NEW k \in SocketIds, k = get_sockets(running, h), sys_receive(h)
  PROVE  Received(k)
<1> DEFINE c == set_context(NoMsg)
           r == receive(sock[k], c, running)
<1>1. /\ c \in [Tids -> Contexts] /\ c[running].rax = Pending
      /\ \A t \in Tids \ {running} : c[t] = ctx[t]
      /\ running \in Tids /\ running # NoThread /\ running \notin Blocked
      /\ sock \in [SocketIds -> Cells(Tids, Nat)]
  BY InvFacts DEF CoreInv, TypeOK, Caller, set_context, Contexts, Codes
<1>2. rendezvous(k, r)
  BY DEF sys_receive, SocketIds, NoSocket
<1>3. /\ UNCHANGED <<threads, counter>>
      /\ sock' = [sock EXCEPT ![k] = r.sock] /\ ctx' = r.ctx
  <2> HIDE DEF r
  <2> QED  BY <1>2 DEF rendezvous
<1>4. sock'[k] = r.sock /\ \A j \in SocketIds \ {k} : sock'[j] = sock[j]
  <2> HIDE DEF r
  <2> QED  BY <1>1, <1>3
<1>5. ASSUME sock[k] = Empty
      PROVE  r.sock = Receiving(running, NoThread) /\ r.ctx = c
  BY <1>5, SMT DEF receive, Outcome, Empty, Cell
<1>6. ASSUME NEW u \in Tids \cup {NoThread}, NEW m \in Nat, sock[k] = Sending(u, m)
      PROVE  /\ r.sock = Empty /\ r.ctx[running] = [rax |-> 0, data |-> m]
             /\ u # NoThread => r.ctx[u].rax = 0
             /\ \A t \in Tids \ {running, u} : r.ctx[t] = c[t]
  <2> DEFINE d == return_message(c, running, m)
  <2>1. /\ r.sock = Empty /\ r.ctx = return_error(d, u, 0)
    BY <1>6, SMT DEF receive, Outcome, Sending, Cell
  <2>2. d \in [Tids -> Contexts] /\ d[running] = [rax |-> 0, data |-> m]
        /\ \A t \in Tids \ {running} : d[t] = c[t]
    BY <1>1, ReturnMessage, SMT
  <2>3. u # running
    <3>1. sock[k].thread = u
      BY <1>6, SMT DEF Sending, Cell
    <3> QED  BY <1>1, <3>1 DEF Blocked
  <2> HIDE DEF d, r, c
  <2>4. 0 \in Codes
    BY DEF Codes
  <2>5. /\ \A t \in Tids \ {u} : return_error(d, u, 0)[t] = d[t]
        /\ u # NoThread => return_error(d, u, 0)[u].rax = 0
    <3>1. d \in [Tids -> Contexts] /\ u \in Tids \cup {NoThread}
      BY <2>2
    <3> QED  BY <3>1, <2>4, ReturnError
  <2> QED  BY <1>1, <2>1, <2>2, <2>3, <2>5
<1> HIDE DEF c, r
<1> QED  BY <1>1, <1>3, <1>4, <1>5, <1>6, SMT DEF Received

\* What a send of m on cell k does.
Sent(k, m) ==
  /\ UNCHANGED <<threads, counter>>
  /\ \A j \in SocketIds \ {k} : sock'[j] = sock[j]
  /\ sock[k] = Empty =>
       /\ sock'[k] = Sending(running, m) /\ ctx'[running].rax = Pending
       /\ \A t \in Tids \ {running} : ctx'[t] = ctx[t]
  /\ \A u \in Tids \cup {NoThread}, x \in Nat : sock[k] = Sending(u, x) =>
       sock'[k] = sock[k] /\ \A t \in Tids \ {running} : ctx'[t] = ctx[t]
  /\ \A u \in Tids : sock[k] = Receiving(u, NoThread) =>
       /\ sock'[k] = Empty /\ ctx'[u] = [rax |-> 0, data |-> m] /\ ctx'[running].rax = 0
       /\ \A t \in Tids \ {running, u} : ctx'[t] = ctx[t]

\* sys_send, on the socket its handle names.
LEMMA SendEffect ==
  ASSUME CoreInv, Caller, NEW h, NEW m \in Nat, NEW k \in SocketIds, k = get_sockets(running, h),
         sys_send(h, m)
  PROVE  Sent(k, m)
<1> DEFINE c == set_context(m)
           r == send_message(sock[k], c, running, m)
<1>1. /\ c \in [Tids -> Contexts] /\ c[running].rax = Pending
      /\ \A t \in Tids \ {running} : c[t] = ctx[t]
      /\ running \in Tids /\ running # NoThread /\ running \notin Blocked
      /\ sock \in [SocketIds -> Cells(Tids, Nat)]
  BY InvFacts DEF CoreInv, TypeOK, Caller, set_context, Contexts, Codes
<1>2. rendezvous(k, r)
  BY DEF sys_send, SocketIds, NoSocket
<1>3. /\ UNCHANGED <<threads, counter>>
      /\ sock' = [sock EXCEPT ![k] = r.sock] /\ ctx' = r.ctx
  <2> HIDE DEF r
  <2> QED  BY <1>2 DEF rendezvous
<1>4. sock'[k] = r.sock /\ \A j \in SocketIds \ {k} : sock'[j] = sock[j]
  <2> HIDE DEF r
  <2> QED  BY <1>1, <1>3
<1>5. ASSUME sock[k] = Empty
      PROVE  r.sock = Sending(running, m) /\ r.ctx = c
  BY <1>5, SMT DEF send_message, Outcome, Empty, Cell
<1>6. ASSUME NEW u \in Tids \cup {NoThread}, NEW x \in Nat, sock[k] = Sending(u, x)
      PROVE  r.sock = sock[k] /\ \A t \in Tids \ {running} : r.ctx[t] = c[t]
  <2>1. r.sock = sock[k] /\ r.ctx = return_error(c, running, SYSCALL_ERROR_SEND_BLOCKING)
    BY <1>6, SMT DEF send_message, Outcome, Refuse, Sending, Cell
  <2>2. SYSCALL_ERROR_SEND_BLOCKING \in Codes
    BY DEF Codes
  <2> HIDE DEF c, r
  <2> QED  BY <1>1, <2>1, <2>2, ReturnError, SMT
<1>7. ASSUME NEW u \in Tids, sock[k] = Receiving(u, NoThread)
      PROVE  /\ r.sock = Empty /\ r.ctx[u] = [rax |-> 0, data |-> m] /\ r.ctx[running].rax = 0
             /\ \A t \in Tids \ {running, u} : r.ctx[t] = c[t]
  <2> DEFINE d == return_message(c, u, m)
  <2>1. r.sock = Empty /\ r.ctx = return_error(d, running, 0)
    BY <1>7, SMT DEF send_message, WrongSender, Outcome, Receiving, Cell
  <2>2. d \in [Tids -> Contexts] /\ d[u] = [rax |-> 0, data |-> m]
        /\ \A t \in Tids \ {u} : d[t] = c[t]
    BY <1>1, ReturnMessage, SMT
  <2>3. u # running
    <3>1. sock[k].thread = u /\ u # NoThread
      BY <1>7, InvFacts, SMT DEF Receiving, Cell
    <3> QED  BY <1>1, <3>1 DEF Blocked
  <2> HIDE DEF d, r, c
  <2>4. 0 \in Codes
    BY DEF Codes
  <2> QED  BY <1>1, <2>1, <2>2, <2>3, <2>4, ReturnError, SMT
<1> HIDE DEF c, r
<1> QED  BY <1>1, <1>3, <1>4, <1>5, <1>6, <1>7, SMT DEF Sent

\* What the interrupt of key m does to the keyboard's cell.
Pressed(m) ==
  /\ UNCHANGED <<threads, counter>>
  /\ \A j \in SocketIds \ {"keyboard"} : sock'[j] = sock[j]
  /\ sock["keyboard"] = Empty => sock'["keyboard"] = Sending(NoThread, m) /\ ctx' = ctx
  /\ \A u \in Tids \cup {NoThread}, x \in Nat : sock["keyboard"] = Sending(u, x) =>
       sock'["keyboard"] = sock["keyboard"] /\ ctx' = ctx
  /\ \A u \in Tids : sock["keyboard"] = Receiving(u, NoThread) =>
       /\ sock'["keyboard"] = Empty /\ ctx'[u] = [rax |-> 0, data |-> m]
       /\ \A t \in Tids \ {u} : ctx'[t] = ctx[t]

\* The keyboard interrupt, when main waits for a key and when it does not.
LEMMA KeyEffect ==
  ASSUME CoreInv, NEW m \in Nat, keyboard_handler_inner(m)
  PROVE  Pressed(m)
<1> DEFINE s == sock["keyboard"]
           r == send_message(s, ctx, NoThread, m)
<1>1. /\ ctx \in [Tids -> Contexts] /\ sock \in [SocketIds -> Cells(Tids, Nat)]
      /\ "keyboard" \in SocketIds
  BY DEF CoreInv, TypeOK, SocketIds
<1>2. /\ UNCHANGED <<threads, counter>>
      /\ sock' = [sock EXCEPT !["keyboard"] = r.sock] /\ ctx' = r.ctx
  <2> HIDE DEF r
  <2> QED  BY DEF keyboard_handler_inner, r
<1>3. sock'["keyboard"] = r.sock /\ \A j \in SocketIds \ {"keyboard"} : sock'[j] = sock[j]
  <2> HIDE DEF r
  <2> QED  BY <1>1, <1>2
<1>4. ASSUME s = Empty
      PROVE  r.sock = Sending(NoThread, m) /\ r.ctx = ctx
  BY <1>4, SMT DEF send_message, Outcome, Empty, Cell
<1>5. ASSUME NEW u \in Tids \cup {NoThread}, NEW x \in Nat, s = Sending(u, x)
      PROVE  r.sock = s /\ r.ctx = ctx
  BY <1>5, SMT DEF send_message, Outcome, Refuse, return_error, Sending, Cell
<1>6. ASSUME NEW u \in Tids, s = Receiving(u, NoThread)
      PROVE  /\ r.sock = Empty /\ r.ctx[u] = [rax |-> 0, data |-> m]
             /\ \A t \in Tids \ {u} : r.ctx[t] = ctx[t]
  <2>1. r.sock = Empty /\ r.ctx = return_message(ctx, u, m)
    BY <1>6, SMT DEF send_message, WrongSender, Outcome, return_error, Receiving, Cell
  <2> HIDE DEF r
  <2> QED  BY <1>1, <2>1, ReturnMessage, SMT
<1> HIDE DEF r
<1> QED  BY <1>2, <1>3, <1>4, <1>5, <1>6 DEF Pressed

-----------------------------------------------------------------------------
(***************************************************************************)
(* The inductive invariant.  IdPhase follows the id of a new thread: main  *)
(* spawns the thread, then sends its id, and whichever of the two comes    *)
(* first at the ID socket waits there; until they have met main spawns no  *)
(* other thread, so that nobody else can take or be given the id.          *)
(***************************************************************************)
\* The thread created last exists and is at a place.
New(place) == counter \in Workers /\ at[counter] = place

\* Thread t has still to take its id.
Needs(t) == at[t] = "start" \/ (at[t] = "running" /\ ctx[t].rax = Pending)

Boots ==
  /\ at[Main] = "start" /\ id[Main] = 0
  /\ sock["id"] = Sending(NoThread, Main)
  /\ Workers = {}

Quiet ==
  /\ at[Main] # "start" /\ ~(at[Main] = "spawned" /\ ctx[Main].rax = 0)
  /\ sock["id"] = Empty
  /\ \A t \in Workers : ~Needs(t)

Spawned ==
  /\ at[Main] = "spawned" /\ ctx[Main] = [rax |-> 0, data |-> counter]
  /\ \/ New("start") /\ sock["id"] = Empty
     \/ New("running") /\ sock["id"] = Receiving(counter, NoThread)
  /\ \A t \in Workers \ {counter} : ~Needs(t)

Offered ==
  /\ at[Main] = "id_sent" /\ sock["id"] = Sending(Main, counter)
  /\ New("start")
  /\ \A t \in Workers \ {counter} : ~Needs(t)

IdPhase == Boots \/ Quiet \/ Spawned \/ Offered

Spawns == {"tester", "heap_alloc"}
Commands == [key : Nat, spawn : 0 .. 4, wait : 0 .. 4, func : Spawns \cup {"none"}]

\* Where main can be, and what its last system call has returned there.
MainOK ==
  /\ at[Main] \in {"start", "prompt", "dispatch", "spawned", "id_sent", "gone"}
  /\ at[Main] # "gone" => Main \in threads
  /\ at[Main] \in {"dispatch", "spawned", "id_sent"} => id[Main] = Main
  /\ at[Main] = "prompt" =>
       /\ ctx[Main].rax \in {0, Pending}
       /\ id[Main] # Main => id[Main] = 0 /\ ctx[Main] = [rax |-> 0, data |-> Main]
  /\ at[Main] = "dispatch" =>
       ctx[Main].rax = Pending \/ (ctx[Main].rax = 0 /\ ctx[Main].data \in Keys)
  /\ at[Main] = "spawned" => ctx[Main].rax # Pending

\* The command main is at.
CallOK ==
  /\ call \in Commands
  /\ at[Main] \in {"spawned", "id_sent"} =>
       call.key \in Keys /\ (call.spawn > 0 => call.func \in Spawns)

\* Where a spawned thread can be, and what it has received there.
WorkersOK ==
  \A t \in Workers :
    /\ at[t] \in {"start", "running", "finish", "done"}
    /\ entry[t] \in Spawns
    /\ at[t] = "running" => ctx[t].rax = Pending \/ ctx[t] = [rax |-> 0, data |-> t]
    /\ at[t] \in {"finish", "done"} => id[t] = t

\* What the other sockets hold.
VgaOK ==
  \/ sock["vga"] \in {Empty, Receiving(Listener, NoThread)}
  \/ at[Main] = "prompt" /\ \E m \in Keys : sock["vga"] = Sending(Main, m)

KeyboardOK ==
  \/ sock["keyboard"] = Empty
  \/ \E m \in Keys : sock["keyboard"] = Sending(NoThread, m)
  \/ at[Main] = "dispatch" /\ sock["keyboard"] = Receiving(Main, NoThread)

FinOK ==
  \/ sock["fin"] = Empty
  \/ \E t \in Workers : at[t] = "done" /\ sock["fin"] = Sending(t, t)
  \/ at[Main] = "id_sent" /\ sock["fin"] = Receiving(Main, NoThread)

SInv ==
  /\ ShellTypeOK /\ OwnId /\ OnlyCompletionsPanic
  /\ IdPhase /\ MainOK /\ CallOK /\ WorkersOK
  /\ VgaOK /\ KeyboardOK /\ FinOK

-----------------------------------------------------------------------------
\* What the kernel's invariant says to its programs: a thread that a cell holds
\* does not run and has no result, and the thread that runs has one.
LEMMA KernelFacts ==
  ASSUME IInv
  PROVE  /\ threads \subseteq Tids /\ counter \in Tids /\ Workers \subseteq Tids
         /\ Main \in Tids /\ Listener \in Tids /\ NoThread \notin Tids /\ Tids \subseteq Nat
         /\ Main \notin Workers /\ Listener \notin Workers /\ Listener # Main
         /\ \A t \in threads : t <= counter
         /\ running # NoThread => Caller /\ ctx[running].rax # Pending
         /\ \A k \in SocketIds : \A u \in Tids : \A m :
              sock[k] = Sending(u, m) \/ sock[k] = Receiving(u, m) =>
                u # running /\ u \in threads /\ ctx[u].rax = Pending
<1>1. /\ threads \subseteq Tids /\ counter \in Tids /\ \A t \in threads : t <= counter
      /\ running \in Tids \cup {NoThread} /\ NoThread \notin Tids
      /\ threads = Range(queue) \cup Blocked \cup ({running} \ {NoThread})
      /\ running \notin Blocked
      /\ \A t \in threads : ctx[t].rax = Pending <=> t \in Blocked
  BY InvFacts DEF IInv, CoreInv, TypeOK, ThreadsOK, ResultIffReleased
<1>2. /\ Workers \subseteq Tids /\ Main \notin Workers /\ Listener \notin Workers
      /\ Main \in Tids /\ Listener \in Tids /\ Listener # Main /\ Tids \subseteq Nat
  BY <1>1, MaxIdAssumption, SMT DEF Workers, Main, Listener, Tids
<1>3. running # NoThread => Caller /\ ctx[running].rax # Pending
  BY <1>1 DEF Caller
<1>4. ASSUME NEW k \in SocketIds, NEW u \in Tids, NEW m,
             sock[k] = Sending(u, m) \/ sock[k] = Receiving(u, m)
      PROVE  u # running /\ u \in threads /\ ctx[u].rax = Pending
  <2>1. sock[k].thread = u
    BY <1>4, SMT DEF Sending, Receiving, Cell
  <2>2. u \in Blocked
    BY <1>1, <2>1 DEF Blocked
  <2> QED  BY <1>1, <2>2
<1> QED  BY <1>1, <1>2, <1>3, <1>4

\* The sockets behind the handles main.rs and the listener use.
LEMMA Handles ==
  /\ \A t \in Tids \ {Idle, Listener} :
       /\ get_sockets(t, KEYBOARD) = "keyboard" /\ get_sockets(t, VGA) = "vga"
       /\ get_sockets(t, ID) = "id" /\ get_sockets(t, FIN) = "fin"
  /\ get_sockets(Listener, 0) = "vga"
  /\ {"keyboard", "vga", "id", "fin"} \subseteq SocketIds
BY SMT DEF get_sockets, KEYBOARD, VGA, ID, FIN, KernelThreads, UserSockets, SocketIds, Idle, Listener

\* goto moves the running thread only.
LEMMA Goto ==
  ASSUME SInv, running \in Tids, NEW p \in Places, goto(p)
  PROVE  /\ at' \in [Tids -> Places] /\ at'[running] = p
         /\ \A t \in Tids \ {running} : at'[t] = at[t]
BY DEF SInv, ShellTypeOK, goto

\* Main takes its own id, which the kernel left in the socket.
LEMMA MainReceivesId ==
  ASSUME IInv, SInv, running = Main, recv_id("prompt"), UNCHANGED typed
  PROVE  SInv'
<1>1. at[Main] = "start" /\ sys_receive(ID) /\ goto("prompt") /\ UNCHANGED <<id, entry, call, typed>>
  BY DEF recv_id
<1>2. Boots
  BY <1>1 DEF SInv, IdPhase, Quiet, Spawned, Offered
<1>3. /\ at' \in [Tids -> Places] /\ at'[Main] = "prompt"
      /\ \A t \in Tids \ {Main} : at'[t] = at[t]
  BY <1>1, Goto, KernelFacts DEF Places
<1>4. /\ UNCHANGED <<threads, counter>>
      /\ \A j \in SocketIds \ {"id"} : sock'[j] = sock[j]
      /\ sock'["id"] = Empty /\ ctx'[Main] = [rax |-> 0, data |-> Main]
      /\ \A t \in Tids \ {Main} : ctx'[t] = ctx[t]
  <2>1. CoreInv /\ Caller /\ "id" \in SocketIds /\ "id" = get_sockets(running, ID)
    BY KernelFacts, Handles, SMT DEF IInv, Main, Idle, Listener, NoThread
  <2>2. sock["id"] = Sending(NoThread, Main) /\ NoThread \in Tids \cup {NoThread} /\ Main \in Nat
    BY <1>2, KernelFacts DEF Boots
  <2> QED  BY <1>1, <2>1, <2>2, ReceiveEffect, KernelFacts, SMT DEF Received
<1>5. Workers' = {} /\ Workers = {}
  BY <1>2, <1>4 DEF Boots, Workers
<1>6. ShellTypeOK' /\ OwnId' /\ CallOK'
  BY <1>1, <1>3 DEF SInv, ShellTypeOK, OwnId, CallOK
<1>7. OnlyCompletionsPanic'
  BY <1>1, <1>3 DEF SInv, OnlyCompletionsPanic
<1>8. IdPhase'
  BY <1>3, <1>4, <1>5 DEF IdPhase, Quiet
<1>9. MainOK' /\ WorkersOK'
  BY <1>1, <1>2, <1>3, <1>4, <1>5, SMT DEF SInv, MainOK, WorkersOK, Boots
<1>10. VgaOK' /\ KeyboardOK' /\ FinOK'
  BY <1>1, <1>3, <1>4, <1>5, Handles DEF SInv, VgaOK, KeyboardOK, FinOK
<1> QED  BY <1>6, <1>7, <1>8, <1>9, <1>10 DEF SInv

\* A spawned thread asks for its id.
LEMMA WorkerReceivesId ==
  ASSUME IInv, SInv, running \in Workers, recv_id("running"), UNCHANGED typed
  PROVE  SInv'
<1>1. at[running] = "start" /\ sys_receive(ID) /\ goto("running") /\ UNCHANGED <<id, entry, call, typed>>
  BY DEF recv_id
<1>2. running = counter /\ (Offered \/ (Spawned /\ sock["id"] = Empty))
  <2>1. Needs(running)
    BY <1>1 DEF Needs
  <2>2. ~Boots /\ ~Quiet
    BY <2>1 DEF Boots, Quiet
  <2>3. CASE Spawned
    <3>1. running = counter
      BY <2>1, <2>3 DEF Spawned
    <3> QED  BY <1>1, <2>3, <3>1 DEF Spawned, New
  <2>4. CASE Offered
    BY <2>1, <2>4 DEF Offered
  <2> QED  BY <2>2, <2>3, <2>4 DEF SInv, IdPhase
<1>3. /\ at' \in [Tids -> Places] /\ at'[running] = "running"
      /\ \A t \in Tids \ {running} : at'[t] = at[t]
      /\ running # Main /\ running \in Tids
  BY <1>1, Goto, KernelFacts DEF Places
<1>4. CoreInv /\ Caller /\ "id" \in SocketIds /\ "id" = get_sockets(running, ID)
  BY KernelFacts, Handles DEF IInv, Main, Idle, Listener, NoThread, Workers
<1>5. UNCHANGED <<threads, counter>> /\ \A j \in SocketIds \ {"id"} : sock'[j] = sock[j]
  BY <1>1, <1>4, ReceiveEffect DEF Received
<1>6. ShellTypeOK' /\ OwnId' /\ CallOK' /\ OnlyCompletionsPanic'
  BY <1>1, <1>3, KernelFacts DEF SInv, ShellTypeOK, OwnId, CallOK, OnlyCompletionsPanic
<1>7. VgaOK' /\ KeyboardOK' /\ FinOK'
  <2>1. VgaOK' /\ KeyboardOK'
    BY <1>3, <1>5, Handles, KernelFacts DEF SInv, VgaOK, KeyboardOK
  <2> QED  BY <2>1, <1>1, <1>3, <1>5, Handles, KernelFacts DEF SInv, FinOK, Workers
<1>8. CASE Spawned /\ sock["id"] = Empty
  <2>1. /\ sock'["id"] = Receiving(running, NoThread) /\ ctx'[running].rax = Pending
        /\ \A t \in Tids \ {running} : ctx'[t] = ctx[t]
    BY <1>1, <1>4, <1>8, ReceiveEffect DEF Received
  <2>2. Spawned'
    BY <1>2, <1>3, <1>5, <1>8, <2>1, KernelFacts, SMT DEF Spawned, New, Needs, Workers
  <2>3. MainOK' /\ WorkersOK'
    BY <1>1, <1>3, <1>5, <2>1, KernelFacts, SMT DEF SInv, MainOK, WorkersOK, Workers
  <2> QED  BY <1>6, <1>7, <2>2, <2>3 DEF SInv, IdPhase
<1>9. CASE Offered
  <2>1. /\ sock'["id"] = Empty /\ ctx'[running] = [rax |-> 0, data |-> running]
        /\ \A t \in Tids \ {running, Main} : ctx'[t] = ctx[t]
    <3>1. sock["id"] = Sending(Main, running) /\ Main \in Tids \cup {NoThread} /\ running \in Nat
      BY <1>2, <1>9, KernelFacts DEF Offered
    <3> QED  BY <1>1, <1>4, <3>1, ReceiveEffect, SMT DEF Received
  <2>2. Quiet'
    <3>1. ASSUME NEW t \in Workers
          PROVE  ~Needs(t)'
      <4>1. CASE t = running
        BY <1>3, <2>1, <4>1, SMT DEF Needs, Pending
      <4>2. CASE t # running
        <5>1. ~Needs(t) /\ at'[t] = at[t] /\ ctx'[t] = ctx[t]
          BY <1>2, <1>3, <1>9, <2>1, <4>2, KernelFacts DEF Offered
        <5> QED  BY <5>1 DEF Needs
      <4> QED  BY <4>1, <4>2
    <3>2. Workers' = Workers
      BY <1>5 DEF Workers
    <3>3. at'[Main] = "id_sent"
      BY <1>3, <1>9, KernelFacts DEF Offered
    <3> QED  BY <2>1, <3>1, <3>2, <3>3 DEF Quiet
  <2>3. MainOK' /\ WorkersOK'
    BY <1>1, <1>3, <1>5, <1>9, <2>1, KernelFacts, SMT DEF SInv, MainOK, WorkersOK, Workers, Offered
  <2> QED  BY <1>6, <1>7, <2>2, <2>3 DEF SInv, IdPhase
<1> QED  BY <1>2, <1>8, <1>9

\* A user thread that runs can call on each of its sockets.
LEMMA UserCaller ==
  ASSUME IInv, running = Main \/ running \in Workers
  PROVE  /\ CoreInv /\ Caller /\ running \in Tids /\ running \in UserThreads
         /\ {"keyboard", "vga", "id", "fin"} \subseteq SocketIds
         /\ "keyboard" = get_sockets(running, KEYBOARD) /\ "vga" = get_sockets(running, VGA)
         /\ "id" = get_sockets(running, ID) /\ "fin" = get_sockets(running, FIN)
<1>1. CoreInv /\ Caller /\ running \in Tids
  BY KernelFacts DEF IInv, Main, NoThread, Caller
<1>2. running \notin {Idle, Listener}
  BY SMT DEF Workers, Main, Idle, Listener
<1> QED  BY <1>1, <1>2, Handles DEF Caller, UserThreads, KernelThreads

\* Main asks for a key: its first result was its id, a later one the echo's.
LEMMA MainPrompts ==
  ASSUME IInv, SInv, running = Main, main_prompt, UNCHANGED typed
  PROVE  SInv'
<1>1. /\ at[Main] = "prompt" /\ ctx[Main].rax = 0
      /\ id' = IF id[Main] = 0 THEN [id EXCEPT ![Main] = ctx[Main].data] ELSE id
      /\ sys_receive(KEYBOARD) /\ goto("dispatch") /\ UNCHANGED <<entry, call, typed>>
  <2>1. at[Main] = "prompt"
    BY DEF main_prompt
  <2>2. ctx[Main].rax = 0
    BY <2>1, UserCaller, KernelFacts DEF SInv, MainOK, Caller
  <2> QED  BY <2>1, <2>2 DEF main_prompt, unwrap, Ok, data
<1>2. Quiet
  BY <1>1 DEF SInv, IdPhase, Boots, Spawned, Offered
<1>3. /\ at' \in [Tids -> Places] /\ at'[Main] = "dispatch" /\ Main \in Tids
      /\ \A t \in Tids \ {Main} : at'[t] = at[t]
  BY <1>1, Goto, KernelFacts DEF Places
<1>4. /\ id' \in [Tids -> 0 .. MaxId] /\ id'[Main] = Main
      /\ \A t \in Tids \ {Main} : id'[t] = id[t]
  <2>1. id[Main] = Main \/ (id[Main] = 0 /\ ctx[Main].data = Main)
    BY <1>1, SMT DEF SInv, MainOK
  <2>2. Main \in 0 .. MaxId /\ Main # 0 /\ id \in [Tids -> 0 .. MaxId]
    BY MaxIdAssumption, SMT DEF Main, SInv, ShellTypeOK
  <2> QED  BY <1>1, <1>3, <2>1, <2>2
<1>5. /\ UNCHANGED <<threads, counter>>
      /\ \A j \in SocketIds \ {"keyboard"} : sock'[j] = sock[j]
      /\ \A t \in Tids \ {Main} : ctx'[t] = ctx[t]
      /\ ctx'[Main].rax = Pending \/ (ctx'[Main].rax = 0 /\ ctx'[Main].data \in Keys)
      /\ KeyboardOK'
  <2>1. UNCHANGED <<threads, counter>> /\ \A j \in SocketIds \ {"keyboard"} : sock'[j] = sock[j]
    BY <1>1, UserCaller, ReceiveEffect DEF Received
  <2>2. CASE sock["keyboard"] = Empty
    BY <1>1, <1>3, <2>1, <2>2, UserCaller, ReceiveEffect DEF Received, KeyboardOK
  <2>3. ASSUME NEW m \in Keys, sock["keyboard"] = Sending(NoThread, m)
        PROVE  <1>5!3 /\ <1>5!4 /\ <1>5!5
    <3>1. m \in Nat /\ NoThread \in Tids \cup {NoThread} /\ NoThread \notin Tids
      BY KeysAssumption, MsgsAssumption, KernelFacts
    <3>2. /\ sock'["keyboard"] = Empty /\ ctx'[Main] = [rax |-> 0, data |-> m]
          /\ \A t \in Tids \ {Main} : ctx'[t] = ctx[t]
      BY <1>1, <2>3, <3>1, UserCaller, ReceiveEffect, SMT DEF Received
    <3> QED  BY <3>2, SMT DEF KeyboardOK
  <2> QED  BY <1>1, <2>1, <2>2, <2>3 DEF SInv, KeyboardOK
<1>6. ShellTypeOK' /\ OwnId' /\ CallOK'
  BY <1>1, <1>3, <1>4 DEF SInv, ShellTypeOK, OwnId, CallOK
<1>7. OnlyCompletionsPanic'
  BY <1>3, <1>4 DEF SInv, OnlyCompletionsPanic
<1>8. Workers' = Workers /\ Workers \subseteq Tids \ {Main}
  BY <1>5, KernelFacts DEF Workers
<1>9. Quiet'
  BY <1>2, <1>3, <1>5, <1>8, Handles DEF Quiet, Needs
<1>10. MainOK'
  BY <1>1, <1>3, <1>4, <1>5 DEF SInv, MainOK
<1>11. WorkersOK'
  <2>1. entry' = entry
    BY <1>1
  <2>2. \A t \in Workers : at'[t] = at[t] /\ id'[t] = id[t] /\ ctx'[t] = ctx[t]
    BY <1>3, <1>4, <1>5, <1>8
  <2> QED  BY <2>1, <2>2, <1>8, ZenonT(30) DEF SInv, WorkersOK
<1>12. VgaOK' /\ FinOK'
  <2>1. sock'["vga"] = sock["vga"] /\ sock'["fin"] = sock["fin"]
    BY <1>5, Handles
  <2>2. \A m : sock["vga"] # Sending(Main, m)
    BY KernelFacts, Handles
  <2> QED  BY <1>1, <1>3, <1>8, <2>1, <2>2 DEF SInv, VgaOK, FinOK
<1> QED  BY <1>5, <1>6, <1>7, <1>9, <1>10, <1>11, <1>12 DEF SInv, IdPhase

\* Main echoes a key and comes back to its prompt.
LEMMA MainEchoes ==
  ASSUME IInv, SInv, Quiet, running = Main, at[Main] \in {"dispatch", "spawned", "id_sent"},
         NEW c \in Commands, c.key \in Keys, echo(c), UNCHANGED typed
  PROVE  SInv'
<1>1. sys_send(VGA, c.key) /\ goto("prompt") /\ call' = c /\ UNCHANGED <<id, entry, typed>>
  BY DEF echo
<1>2. /\ at' \in [Tids -> Places] /\ at'[Main] = "prompt" /\ Main \in Tids
      /\ \A t \in Tids \ {Main} : at'[t] = at[t]
  BY <1>1, Goto, KernelFacts DEF Places
<1>3. id[Main] = Main
  BY DEF SInv, MainOK
<1>4. /\ UNCHANGED <<threads, counter>>
      /\ \A j \in SocketIds \ {"vga"} : sock'[j] = sock[j]
      /\ \A t \in Tids \ {Main, Listener} : ctx'[t] = ctx[t]
      /\ ctx'[Main].rax \in {0, Pending}
      /\ VgaOK'
  <2> DEFINE m == c.key
  <2>1. m \in Nat /\ m \in Keys /\ sys_send(VGA, m)
    BY <1>1, KeysAssumption, MsgsAssumption
  <2> HIDE DEF m
  <2>5. CoreInv /\ Caller /\ "vga" \in SocketIds /\ "vga" = get_sockets(running, VGA)
    BY UserCaller
  <2>6. Sent("vga", m)
    BY <2>1, <2>5, SendEffect
  <2>2. UNCHANGED <<threads, counter>> /\ \A j \in SocketIds \ {"vga"} : sock'[j] = sock[j]
    BY <2>6 DEF Sent
  <2>3. CASE sock["vga"] = Empty
    <3>1. /\ sock'["vga"] = Sending(Main, m) /\ ctx'[Main].rax = Pending
          /\ \A t \in Tids \ {Main} : ctx'[t] = ctx[t]
      BY <2>1, <2>3, <2>6 DEF Sent
    <3> QED  BY <1>2, <2>1, <2>2, <3>1 DEF VgaOK
  <2>4. CASE sock["vga"] = Receiving(Listener, NoThread)
    <3>1. /\ sock'["vga"] = Empty /\ ctx'[Main].rax = 0
          /\ \A t \in Tids \ {Main, Listener} : ctx'[t] = ctx[t]
      BY <2>1, <2>4, <2>6, KernelFacts DEF Sent
    <3> QED  BY <2>2, <3>1 DEF VgaOK
  <2> QED  BY <2>3, <2>4 DEF SInv, VgaOK
<1>5. ShellTypeOK' /\ OwnId' /\ CallOK' /\ OnlyCompletionsPanic'
  <2>1. c.spawn \in 0 .. 4 /\ c.wait \in 0 .. 4
    BY DEF Commands
  <2> QED  BY <1>1, <1>2, <2>1 DEF SInv, ShellTypeOK, OwnId, CallOK, OnlyCompletionsPanic
<1>6. Workers' = Workers /\ Workers \subseteq Tids \ {Main, Listener}
  BY <1>4, KernelFacts DEF Workers
<1>7. Quiet'
  BY <1>2, <1>4, <1>6, Handles DEF Quiet, Needs
<1>8. MainOK'
  BY <1>1, <1>2, <1>3, <1>4 DEF SInv, MainOK
<1>9. WorkersOK'
  BY <1>1, <1>2, <1>4, <1>6, ZenonT(30) DEF SInv, WorkersOK
<1>10. KeyboardOK' /\ FinOK'
  <2>1. sock'["keyboard"] = sock["keyboard"] /\ sock'["fin"] = sock["fin"]
    BY <1>4, Handles
  <2>2. \A m : sock["keyboard"] # Receiving(Main, m) /\ sock["fin"] # Receiving(Main, m)
    BY KernelFacts, Handles
  <2> QED  BY <1>2, <1>6, <2>1, <2>2 DEF SInv, KeyboardOK, FinOK
<1> QED  BY <1>4, <1>5, <1>7, <1>8, <1>9, <1>10 DEF SInv, IdPhase

\* The command of a key.
LEMMA CommandOK ==
  ASSUME NEW ch \in Nat
  PROVE  /\ Command(ch) \in Commands /\ Command(ch).key = ch
         /\ Command(ch).spawn > 0 => Command(ch).func \in Spawns
<1>1. CASE ch = 98
  BY <1>1, SMT DEF Command, Commands, Spawns
<1>2. CASE ch \in 49 .. 52
  BY <1>2, SMT DEF Command, Commands, Spawns
<1>3. CASE ch = 114
  BY <1>3, SMT DEF Command, Commands, Spawns
<1>4. CASE ch = 101
  BY <1>4, SMT DEF Command, Commands, Spawns
<1>5. CASE ch # 98 /\ ch \notin 49 .. 52 /\ ch # 114 /\ ch # 101
  BY <1>5, SMT DEF Command, Commands, Spawns
<1> QED  BY <1>1, <1>2, <1>3, <1>4, <1>5

\* Main spawns a thread, which will want its id, or is told that it cannot.
LEMMA MainSpawns ==
  ASSUME IInv, SInv, Quiet, running = Main, at[Main] \in {"dispatch", "id_sent"},
         NEW c \in Commands, c.key \in Keys, c.spawn > 0, c.func \in Spawns,
         thread_spawn(c), UNCHANGED typed
  PROVE  SInv'
<1>1. /\ call' = [c EXCEPT !.spawn = @ - 1] /\ UNCHANGED <<id, typed>>
      /\ \/ /\ fork_ok
            /\ at' = [at EXCEPT ![Main] = "spawned", ![counter'] = "start"]
            /\ entry' = [entry EXCEPT ![counter'] = c.func]
         \/ fork_no_stack /\ goto("spawned") /\ UNCHANGED entry
  BY DEF thread_spawn
<1>2. call' \in Commands /\ call'.key = c.key /\ call'.func = c.func
  BY <1>1, SMT DEF Commands
<1>3. call'.spawn \in 0 .. 4 /\ call'.wait \in 0 .. 4
  BY <1>2 DEF Commands
<1>4. /\ at \in [Tids -> Places] /\ entry \in [Tids -> {"main", "tester", "heap_alloc"}]
      /\ id[Main] = Main /\ Main \in Tids /\ Main # counter + 2 /\ Workers \subseteq Tids \ {Main}
      /\ ctx \in [Tids -> Contexts]
      /\ \A t \in Workers : t # counter + 2
  <2>1. /\ at \in [Tids -> Places] /\ entry \in [Tids -> {"main", "tester", "heap_alloc"}]
        /\ id[Main] = Main
    BY DEF SInv, ShellTypeOK, MainOK
  <2>2. \A t \in threads : t # counter + 2
    BY KernelFacts, SMT
  <2>3. Main \in threads
    BY DEF SInv, MainOK
  <2> QED  BY <2>1, <2>2, <2>3, KernelFacts DEF Workers, IInv, CoreInv, TypeOK
<1>5. \A m : sock["keyboard"] # Receiving(Main, m) /\ sock["fin"] # Receiving(Main, m)
  BY KernelFacts, Handles
<1>6. CASE /\ fork_ok
           /\ at' = [at EXCEPT ![Main] = "spawned", ![counter'] = "start"]
           /\ entry' = [entry EXCEPT ![counter'] = c.func]
  <2> DEFINE tid == counter + 2
  <2>1. /\ tid \in Tids /\ counter' = tid /\ threads' = threads \cup {tid} /\ UNCHANGED sock
        /\ ctx' = [ctx EXCEPT ![tid] = [rax |-> 0, data |-> 0], ![Main] = [rax |-> 0, data |-> tid]]
    BY <1>6 DEF fork_ok
  <2>2. /\ tid \in Tids /\ tid # Main /\ \A t \in Workers : t # tid
    BY <1>4, <2>1
  <2>3. tid \notin {Idle, Listener, Main}
    BY <2>2, KernelFacts, MaxIdAssumption, SMT DEF Idle, Listener, Main, IInv, CoreInv, ThreadsOK
  <2> HIDE DEF tid
  <2>4. /\ at' \in [Tids -> Places] /\ at'[Main] = "spawned" /\ at'[tid] = "start"
        /\ \A t \in Tids \ {Main, tid} : at'[t] = at[t]
    BY <1>4, <1>6, <2>1, <2>2 DEF Places
  <2>5. /\ entry' \in [Tids -> {"main", "tester", "heap_alloc"}] /\ entry'[tid] \in Spawns
        /\ \A t \in Tids \ {tid} : entry'[t] = entry[t]
    BY <1>4, <1>6, <2>1, <2>2 DEF Spawns
  <2>6. /\ ctx'[Main] = [rax |-> 0, data |-> tid] /\ ctx'[tid] = [rax |-> 0, data |-> 0]
        /\ \A t \in Tids \ {Main, tid} : ctx'[t] = ctx[t]
    BY <1>4, <2>1, <2>2
  <2>7. Workers' = Workers \cup {tid}
    BY <2>1, <2>3 DEF Workers
  <2>8. ShellTypeOK'
    BY <1>1, <1>3, <2>4, <2>5 DEF SInv, ShellTypeOK
  <2>9. OwnId'
    BY <1>1 DEF SInv, OwnId
  <2>10. OnlyCompletionsPanic'
    BY <1>1, <2>4 DEF SInv, OnlyCompletionsPanic
  <2>11. Spawned'
    <3>1. ASSUME NEW t \in Workers
          PROVE  ~Needs(t)'
      BY <1>4, <2>2, <2>4, <2>6 DEF Quiet, Needs
    <3>2. New("start")' /\ sock'["id"] = Empty
      BY <2>1, <2>4, <2>7 DEF New, Quiet
    <3>3. at'[Main] = "spawned" /\ ctx'[Main] = [rax |-> 0, data |-> counter']
      BY <2>1, <2>4, <2>6
    <3> QED  BY <2>1, <2>7, <3>1, <3>2, <3>3 DEF Spawned
  <2>12. MainOK'
    <3>1. ctx'[Main].rax # Pending /\ id'[Main] = Main /\ Main \in threads'
      BY <1>1, <1>4, <2>1, <2>6, SMT DEF Pending, SInv, MainOK
    <3> QED  BY <2>4, <3>1 DEF MainOK
  <2>13. CallOK'
    BY <1>2 DEF CallOK
  <2>14. WorkersOK'
    <3>1. ASSUME NEW t \in Workers
          PROVE  /\ at'[t] = at[t] /\ entry'[t] = entry[t] /\ id'[t] = id[t] /\ ctx'[t] = ctx[t]
      BY <1>1, <1>4, <2>2, <2>4, <2>5, <2>6
    <3>2. ASSUME NEW t \in Workers'
          PROVE  /\ at'[t] \in {"start", "running", "finish", "done"}
                 /\ entry'[t] \in Spawns
                 /\ at'[t] = "running" =>
                      ctx'[t].rax = Pending \/ ctx'[t] = [rax |-> 0, data |-> t]
                 /\ at'[t] \in {"finish", "done"} => id'[t] = t
      <4>1. CASE t = tid
        BY <2>4, <2>5, <4>1
      <4>2. CASE t \in Workers
        BY <3>1, <4>2, SMT DEF SInv, WorkersOK
      <4> QED  BY <2>7, <4>1, <4>2
    <3> QED  BY <3>2 DEF WorkersOK
  <2>15. VgaOK' /\ KeyboardOK' /\ FinOK'
    <3>1. \A m : sock["vga"] # Sending(Main, m)
      BY KernelFacts, Handles
    <3>2. \A t \in Workers : at'[t] = at[t]
      BY <1>4, <2>2, <2>4
    <3> QED  BY <1>5, <2>1, <2>7, <3>1, <3>2 DEF SInv, VgaOK, KeyboardOK, FinOK
  <2> QED  BY <2>8, <2>9, <2>10, <2>11, <2>12, <2>13, <2>14, <2>15 DEF SInv, IdPhase
<1>7. CASE fork_no_stack /\ goto("spawned") /\ UNCHANGED entry
  <2>1. /\ at' \in [Tids -> Places] /\ at'[Main] = "spawned"
        /\ \A t \in Tids \ {Main} : at'[t] = at[t]
    BY <1>4, <1>7, Goto DEF Places
  <2>2. /\ UNCHANGED <<threads, sock, entry>> /\ ctx'[Main].rax = SYSCALL_ERROR_MEMALLOC
        /\ \A t \in Tids \ {Main} : ctx'[t] = ctx[t]
    BY <1>4, <1>7, SMT DEF fork_no_stack, return_error, Main, NoThread, Contexts
  <2>3. Workers' = Workers
    BY <2>2 DEF Workers
  <2>4. ShellTypeOK' /\ OwnId' /\ OnlyCompletionsPanic' /\ CallOK'
    BY <1>1, <1>2, <1>3, <2>1, <2>2 DEF SInv, ShellTypeOK, OwnId, OnlyCompletionsPanic, CallOK
  <2>5. Quiet'
    BY <1>4, <2>1, <2>2, <2>3, SMT DEF Quiet, Needs, SYSCALL_ERROR_MEMALLOC
  <2>6. MainOK'
    BY <1>1, <1>4, <2>1, <2>2, SMT DEF SInv, MainOK, SYSCALL_ERROR_MEMALLOC, Pending
  <2>7. WorkersOK'
    BY <1>1, <1>4, <2>1, <2>2, <2>3, ZenonT(30) DEF SInv, WorkersOK
  <2>8. VgaOK' /\ KeyboardOK' /\ FinOK'
    <3>1. \A m : sock["vga"] # Sending(Main, m)
      BY KernelFacts, Handles
    <3> QED  BY <1>4, <1>5, <2>1, <2>2, <2>3, <3>1 DEF SInv, VgaOK, KeyboardOK, FinOK
  <2> QED  BY <2>4, <2>5, <2>6, <2>7, <2>8 DEF SInv, IdPhase
<1> QED  BY <1>1, <1>6, <1>7

\* Main takes the key it was sent: it exits, echoes it or starts its command.
LEMMA MainDispatches ==
  ASSUME IInv, SInv, running = Main, main_dispatch, UNCHANGED typed
  PROVE  SInv'
<1> DEFINE ch == ctx[Main].data
           c == Command(ch)
<1>1. at[Main] = "dispatch" /\ ctx[Main].rax = 0 /\ ch \in Keys
  <2>1. at[Main] = "dispatch"
    BY DEF main_dispatch
  <2> QED  BY <2>1, UserCaller, KernelFacts DEF SInv, MainOK, Caller
<1>2. \/ thread_exit
      \/ c.spawn = 0 /\ echo(c)
      \/ c.spawn > 0 /\ thread_spawn(c)
  BY <1>1 DEF main_dispatch, unwrap, Ok, data
<1>3. Quiet
  BY <1>1 DEF SInv, IdPhase, Boots, Spawned, Offered
<1>4. /\ c \in Commands /\ c.key \in Keys
      /\ c.spawn > 0 => c.func \in Spawns
  <2>1. ch \in Nat
    BY <1>1, KeysAssumption, MsgsAssumption
  <2> HIDE DEF ch
  <2> QED  BY <1>1, <2>1, CommandOK
<1>5. CASE thread_exit
  <2>1. /\ goto("gone") /\ UNCHANGED <<id, entry, call, typed, sock, ctx, counter>>
        /\ threads' = threads \ {Main}
    BY <1>5 DEF thread_exit, exit_current_thread, drop_thread
  <2>2. /\ at' \in [Tids -> Places] /\ at'[Main] = "gone" /\ Main \in Tids
        /\ \A t \in Tids \ {Main} : at'[t] = at[t]
    BY <2>1, Goto, KernelFacts DEF Places
  <2>3. Workers' = Workers /\ Workers \subseteq Tids \ {Main}
    BY <2>1, KernelFacts DEF Workers
  <2>4. ShellTypeOK' /\ OwnId' /\ OnlyCompletionsPanic'
    BY <2>1, <2>2 DEF SInv, ShellTypeOK, OwnId, OnlyCompletionsPanic
  <2>5. Quiet' /\ MainOK' /\ CallOK'
    BY <1>3, <2>1, <2>2, <2>3 DEF SInv, Quiet, Needs, MainOK, CallOK
  <2>6. WorkersOK'
    BY <2>1, <2>2, <2>3 DEF SInv, WorkersOK
  <2>7. VgaOK' /\ KeyboardOK' /\ FinOK'
    <3>1. \A m : /\ sock["vga"] # Sending(Main, m)
                 /\ sock["keyboard"] # Receiving(Main, m) /\ sock["fin"] # Receiving(Main, m)
      BY KernelFacts, Handles
    <3> QED  BY <2>1, <2>2, <2>3, <3>1 DEF SInv, VgaOK, KeyboardOK, FinOK
  <2> QED  BY <2>4, <2>5, <2>6, <2>7 DEF SInv, IdPhase
<1> HIDE DEF c
<1>6. CASE echo(c)
  BY <1>1, <1>3, <1>4, <1>6, MainEchoes
<1>7. CASE c.spawn > 0 /\ thread_spawn(c)
  BY <1>1, <1>3, <1>4, <1>7, MainSpawns
<1> QED  BY <1>2, <1>5, <1>6, <1>7

\* Main sends the id of the thread it has spawned, which takes it if it waits.
LEMMA MainSendsId ==
  ASSUME IInv, SInv, running = Main, main_spawned, UNCHANGED typed
  PROVE  SInv'
<1>1. at[Main] = "spawned"
  BY DEF main_spawned
<1>2. CASE ctx[Main].rax # 0
  <2>1. echo(call)
    BY <1>2 DEF main_spawned, Ok
  <2>2. Quiet /\ call \in Commands /\ call.key \in Keys
    BY <1>1, <1>2, SMT DEF SInv, IdPhase, Boots, Spawned, Offered, CallOK
  <2> QED  BY <1>1, <2>1, <2>2, MainEchoes
<1>3. CASE ctx[Main].rax = 0
  <2>1. Spawned /\ ctx[Main].data = counter
    BY <1>1, <1>3, SMT DEF SInv, IdPhase, Boots, Spawned, Quiet, Offered
  <2>2. sys_send(ID, counter) /\ goto("id_sent") /\ UNCHANGED <<id, entry, call, typed>>
    BY <1>3, <2>1 DEF main_spawned, Ok, data
  <2>3. /\ at' \in [Tids -> Places] /\ at'[Main] = "id_sent" /\ Main \in Tids
        /\ \A t \in Tids \ {Main} : at'[t] = at[t]
    BY <2>2, Goto, KernelFacts DEF Places
  <2>4. Sent("id", counter)
    <3>1. CoreInv /\ Caller /\ "id" \in SocketIds /\ "id" = get_sockets(running, ID) /\ counter \in Nat
      BY UserCaller, KernelFacts
    <3> QED  BY <2>2, <3>1, SendEffect
  <2>5. UNCHANGED <<threads, counter>> /\ \A j \in SocketIds \ {"id"} : sock'[j] = sock[j]
    BY <2>4 DEF Sent
  <2>6. Workers' = Workers /\ Workers \subseteq Tids \ {Main} /\ counter \in Workers
    BY <2>1, <2>5, KernelFacts DEF Workers, Spawned, New
  <2>7. ShellTypeOK' /\ OwnId' /\ OnlyCompletionsPanic'
    BY <2>2, <2>3 DEF SInv, ShellTypeOK, OwnId, OnlyCompletionsPanic
  <2>8. MainOK' /\ CallOK'
    BY <1>1, <2>2, <2>3, <2>5 DEF SInv, MainOK, CallOK
  <2>9. VgaOK' /\ KeyboardOK' /\ FinOK'
    <3>1. /\ sock'["vga"] = sock["vga"] /\ sock'["keyboard"] = sock["keyboard"]
          /\ sock'["fin"] = sock["fin"]
      BY <2>5, Handles
    <3> QED  BY <1>1, <2>3, <2>6, <3>1 DEF SInv, VgaOK, KeyboardOK, FinOK
  <2>10. CASE New("start") /\ sock["id"] = Empty
    <3>1. sock'["id"] = Sending(Main, counter) /\ \A t \in Tids \ {Main} : ctx'[t] = ctx[t]
      BY <2>4, <2>10 DEF Sent
    <3>2. Offered'
      BY <2>1, <2>3, <2>5, <2>6, <2>10, <3>1 DEF Spawned, Offered, New, Needs
    <3>3. WorkersOK'
      BY <2>2, <2>3, <2>6, <3>1 DEF SInv, WorkersOK
    <3> QED  BY <2>7, <2>8, <2>9, <3>2, <3>3 DEF SInv, IdPhase
  <2>11. CASE New("running") /\ sock["id"] = Receiving(counter, NoThread)
    <3>1. /\ sock'["id"] = Empty /\ ctx'[counter] = [rax |-> 0, data |-> counter]
          /\ \A t \in Tids \ {Main, counter} : ctx'[t] = ctx[t]
      BY <2>4, <2>6, <2>11 DEF Sent
    <3>2. ASSUME NEW t \in Workers
          PROVE  ~Needs(t)'
      <4>1. CASE t = counter
        <5>1. at'[counter] = "running" /\ ctx'[counter].rax = 0
          BY <2>3, <2>6, <2>11, <3>1, SMT DEF New
        <5>2. 0 # Pending
          BY SMT DEF Pending
        <5> QED  BY <4>1, <5>1, <5>2 DEF Needs
      <4>2. CASE t # counter
        <5>1. ~Needs(t) /\ at'[t] = at[t] /\ ctx'[t] = ctx[t]
          BY <2>1, <2>3, <2>6, <3>1, <4>2 DEF Spawned
        <5> QED  BY <5>1 DEF Needs
      <4> QED  BY <4>1, <4>2
    <3>3. Quiet'
      BY <2>3, <2>6, <3>1, <3>2 DEF Quiet
    <3>4. WorkersOK'
      BY <2>2, <2>3, <2>6, <2>11, <3>1, ZenonT(30) DEF SInv, WorkersOK, New
    <3> QED  BY <2>7, <2>8, <2>9, <3>3, <3>4 DEF SInv, IdPhase
  <2> QED  BY <2>1, <2>10, <2>11 DEF Spawned
<1> QED  BY <1>2, <1>3

\* Main has sent the id: it spawns the next thread, waits for a completion or
\* echoes.
LEMMA MainWaits ==
  ASSUME IInv, SInv, running = Main, main_id_sent, UNCHANGED typed
  PROVE  SInv'
<1>1. /\ at[Main] = "id_sent" /\ call \in Commands /\ call.key \in Keys
      /\ call.spawn > 0 => call.func \in Spawns
  BY DEF main_id_sent, SInv, CallOK
<1>2. Quiet
  <2>1. ~Offered
    BY KernelFacts, Handles DEF Offered
  <2> QED  BY <1>1, <2>1 DEF SInv, IdPhase, Boots, Spawned
<1>3. CASE call.spawn > 0 /\ thread_spawn(call)
  BY <1>1, <1>2, <1>3, MainSpawns
<1>4. CASE echo(call)
  BY <1>1, <1>2, <1>4, MainEchoes
<1>5. CASE /\ call.wait > 0 /\ sys_receive(FIN)
           /\ call' = [call EXCEPT !.wait = @ - 1] /\ UNCHANGED <<at, id, entry>>
  <2>1. /\ call' \in Commands /\ call'.key = call.key /\ call'.func = call.func
        /\ call'.spawn = call.spawn
    BY <1>1, <1>5, SMT DEF Commands
  <2>2. call'.spawn \in 0 .. 4 /\ call'.wait \in 0 .. 4
    BY <2>1 DEF Commands
  <2>3. Received("fin")
    BY <1>5, UserCaller, ReceiveEffect
  <2>4. /\ UNCHANGED <<threads, counter>>
        /\ sock'["vga"] = sock["vga"] /\ sock'["keyboard"] = sock["keyboard"]
        /\ sock'["id"] = sock["id"]
    BY <2>3, Handles DEF Received
  <2>5. Workers' = Workers /\ Workers \subseteq Tids \ {Main}
    BY <2>4, KernelFacts DEF Workers
  <2>6. FinOK' /\ \A t \in Workers : ctx'[t] = ctx[t] \/ at[t] = "done"
    <3>1. CASE sock["fin"] = Empty
      <4>1. sock'["fin"] = Receiving(Main, NoThread) /\ \A t \in Tids \ {Main} : ctx'[t] = ctx[t]
        BY <2>3, <3>1 DEF Received
      <4> QED  BY <1>1, <1>5, <2>5, <4>1 DEF FinOK
    <3>2. ASSUME NEW u \in Workers, at[u] = "done", sock["fin"] = Sending(u, u)
          PROVE  sock'["fin"] = Empty /\ \A t \in Workers : ctx'[t] = ctx[t] \/ at[t] = "done"
      <4>1. u \in Tids \cup {NoThread} /\ u \in Nat
        BY KernelFacts
      <4>2. sock'["fin"] = Empty /\ \A t \in Tids \ {Main, u} : ctx'[t] = ctx[t]
        BY <2>3, <3>2, <4>1 DEF Received
      <4> QED  BY <2>5, <3>2, <4>2
    <3>3. \A m : sock["fin"] # Receiving(Main, m)
      BY KernelFacts, Handles
    <3> QED  BY <3>1, <3>2, <3>3 DEF SInv, FinOK
  <2>7. ShellTypeOK' /\ OwnId' /\ OnlyCompletionsPanic'
    BY <1>5, <2>2 DEF SInv, ShellTypeOK, OwnId, OnlyCompletionsPanic
  <2>8. Quiet'
    BY <1>1, <1>2, <1>5, <2>4, <2>5, <2>6 DEF Quiet, Needs
  <2>9. MainOK' /\ CallOK'
    BY <1>1, <1>5, <2>1, <2>4 DEF SInv, MainOK, CallOK
  <2>10. WorkersOK'
    BY <1>5, <2>5, <2>6 DEF SInv, WorkersOK
  <2>11. VgaOK' /\ KeyboardOK'
    BY <1>5, <2>4 DEF SInv, VgaOK, KeyboardOK
  <2> QED  BY <2>6, <2>7, <2>8, <2>9, <2>10, <2>11 DEF SInv, IdPhase
<1> QED  BY <1>3, <1>4, <1>5 DEF main_id_sent

\* What keeps the phase of the ID socket when main stays where it is: nobody
\* begins to need an id, and the thread that needs one stays as it is.
LEMMA PhaseStays ==
  ASSUME IdPhase, at'[Main] = at[Main], id'[Main] = id[Main],
         at[Main] = "spawned" => ctx'[Main] = ctx[Main],
         counter' = counter, sock'["id"] = sock["id"],
         \A t \in Workers' : t \in Workers /\ (Needs(t)' => Needs(t)),
         counter \in Workers /\ (Spawned \/ Offered) =>
           counter \in Workers' /\ at'[counter] = at[counter]
  PROVE  IdPhase'
<1>1. CASE Boots
  <2>1. Workers' = {}
    BY <1>1 DEF Boots
  <2> QED  BY <1>1, <2>1 DEF Boots, IdPhase
<1>2. CASE Quiet
  BY <1>2 DEF Quiet, IdPhase
<1>3. CASE Spawned
  <2>1. \A t \in Workers' \ {counter'} : ~Needs(t)'
    BY <1>3 DEF Spawned
  <2>2. counter' \in Workers' /\ at'[counter'] = at[counter]
    BY <1>3 DEF Spawned, New
  <2>3. Spawned'
    BY <1>3, <2>1, <2>2 DEF Spawned, New
  <2> QED  BY <2>3 DEF IdPhase
<1>4. CASE Offered
  <2>1. \A t \in Workers' \ {counter'} : ~Needs(t)'
    BY <1>4 DEF Offered
  <2>2. counter' \in Workers' /\ at'[counter'] = at[counter]
    BY <1>4 DEF Offered, New
  <2>3. Offered'
    BY <1>4, <2>1, <2>2 DEF Offered, New
  <2> QED  BY <2>3 DEF IdPhase
<1> QED  BY <1>1, <1>2, <1>3, <1>4 DEF IdPhase

\* A spawned thread yields with its id or reports: nothing but its own place,
\* its own id, the cell of FIN and what main waits for there changes.
LEMMA WorkerStays ==
  ASSUME IInv, SInv, running \in Workers, at[running] \in {"running", "finish"},
         NEW p \in {"finish", "done"}, goto(p), UNCHANGED <<threads, counter, entry, call, typed>>,
         id' = [id EXCEPT ![running] = running],
         sock'["id"] = sock["id"], sock'["vga"] = sock["vga"], sock'["keyboard"] = sock["keyboard"],
         \A t \in Tids \ {running} : (t = Main /\ at[Main] = "id_sent") \/ ctx'[t] = ctx[t],
         FinOK'
  PROVE  SInv'
<1>1. /\ at' \in [Tids -> Places] /\ at'[running] = p /\ running \in Tids /\ Main \in Tids
      /\ running # Main /\ \A t \in Tids \ {running} : at'[t] = at[t]
  <2>1. p \in Places /\ running \in Tids /\ Main \in Tids /\ running # Main
    BY KernelFacts DEF Places
  <2> QED  BY <2>1, Goto
<1>2. /\ id' \in [Tids -> 0 .. MaxId] /\ id'[running] = running
      /\ \A t \in Tids \ {running} : id'[t] = id[t]
  BY <1>1, SMT DEF SInv, ShellTypeOK, Tids
<1>3. Workers' = Workers /\ Workers \subseteq Tids \ {Main}
  BY KernelFacts DEF Workers
<1>4. ShellTypeOK' /\ OwnId' /\ OnlyCompletionsPanic'
  BY <1>1, <1>2, SMT DEF SInv, ShellTypeOK, OwnId, OnlyCompletionsPanic
<1>5. IdPhase'
  <2>1. \A t \in Workers' : t \in Workers /\ (Needs(t)' => Needs(t))
    BY <1>1, <1>3 DEF Needs
  <2>2. running = counter => ~(Spawned \/ Offered)
    <3>1. \A m : sock["id"] # Receiving(running, m)
      BY <1>1, KernelFacts, Handles
    <3> QED  BY <3>1 DEF Spawned, Offered, New
  <2>3. /\ IdPhase /\ at'[Main] = at[Main] /\ id'[Main] = id[Main]
        /\ at[Main] = "spawned" => ctx'[Main] = ctx[Main]
    BY <1>1, <1>2 DEF SInv
  <2>4. counter \in Workers /\ (Spawned \/ Offered) =>
          counter \in Workers' /\ at'[counter] = at[counter]
    BY <1>1, <1>3, <2>2
  <2> QED  BY <2>1, <2>3, <2>4, PhaseStays
<1>6. MainOK'
  <2>1. ctx'[Main] = ctx[Main] \/ at[Main] = "id_sent"
    BY <1>1
  <2> QED  BY <1>1, <1>2, <2>1 DEF SInv, MainOK
<1>7. WorkersOK'
  <2>1. ASSUME NEW t \in Workers
        PROVE  /\ at'[t] \in {"start", "running", "finish", "done"}
               /\ entry'[t] \in Spawns
               /\ at'[t] = "running" =>
                    ctx'[t].rax = Pending \/ ctx'[t] = [rax |-> 0, data |-> t]
               /\ at'[t] \in {"finish", "done"} => id'[t] = t
    <3>1. CASE t = running
      BY <1>1, <1>2, <3>1 DEF SInv, WorkersOK
    <3>2. CASE t # running
      <4>1. at'[t] = at[t] /\ id'[t] = id[t] /\ ctx'[t] = ctx[t] /\ entry'[t] = entry[t]
        BY <1>1, <1>2, <1>3, <3>2
      <4> QED  BY <4>1 DEF SInv, WorkersOK
    <3> QED  BY <3>1, <3>2
  <2> QED  BY <1>3, <2>1 DEF WorkersOK
<1>8. CallOK' /\ VgaOK' /\ KeyboardOK'
  BY <1>1 DEF SInv, CallOK, VgaOK, KeyboardOK
<1> QED  BY <1>4, <1>5, <1>6, <1>7, <1>8 DEF SInv

\* A spawned thread leaves, with its id: the cells and the others stay.
LEMMA WorkerLeaves ==
  ASSUME IInv, SInv, running \in Workers, at[running] \in {"running", "done"},
         NEW p \in {"gone", "panicked"}, goto(p), UNCHANGED <<counter, entry, call, typed, sock, ctx>>,
         id' = [id EXCEPT ![running] = running],
         threads' = threads \ {running}
  PROVE  SInv'
<1>1. /\ at' \in [Tids -> Places] /\ at'[running] = p /\ running \in Tids /\ Main \in Tids
      /\ running # Main /\ \A t \in Tids \ {running} : at'[t] = at[t]
  <2>1. p \in Places /\ running \in Tids /\ Main \in Tids /\ running # Main
    BY KernelFacts DEF Places
  <2> QED  BY <2>1, Goto
<1>2. /\ id' \in [Tids -> 0 .. MaxId] /\ id'[running] = running
      /\ \A t \in Tids \ {running} : id'[t] = id[t]
  BY <1>1, SMT DEF SInv, ShellTypeOK, Tids
<1>3. Workers' = Workers \ {running} /\ Workers \subseteq Tids \ {Main}
  BY KernelFacts DEF Workers
<1>4. ShellTypeOK' /\ OwnId' /\ OnlyCompletionsPanic'
  BY <1>1, <1>2 DEF SInv, ShellTypeOK, OwnId, OnlyCompletionsPanic
<1>5. IdPhase'
  <2>1. \A t \in Workers' : t \in Workers /\ (Needs(t)' => Needs(t))
    BY <1>1, <1>3 DEF Needs
  <2>2. running = counter => ~(Spawned \/ Offered)
    <3>1. \A m : sock["id"] # Receiving(running, m)
      BY <1>1, KernelFacts, Handles
    <3> QED  BY <3>1 DEF Spawned, Offered, New
  <2>3. /\ IdPhase /\ at'[Main] = at[Main] /\ id'[Main] = id[Main]
        /\ at[Main] = "spawned" => ctx'[Main] = ctx[Main]
    BY <1>1, <1>2 DEF SInv
  <2>4. counter \in Workers /\ (Spawned \/ Offered) =>
          counter \in Workers' /\ at'[counter] = at[counter]
    BY <1>1, <1>3, <2>2
  <2> QED  BY <2>1, <2>3, <2>4, PhaseStays
<1>6. MainOK'
  BY <1>1, <1>2 DEF SInv, MainOK
<1>7. WorkersOK'
  <2>1. \A t \in Workers' : t \in Workers /\ at'[t] = at[t] /\ id'[t] = id[t]
    BY <1>1, <1>2, <1>3
  <2> QED  BY <2>1 DEF SInv, WorkersOK
<1>8. CallOK' /\ VgaOK' /\ KeyboardOK'
  BY <1>1 DEF SInv, CallOK, VgaOK, KeyboardOK
<1>9. FinOK'
  <2>1. \A m : sock["fin"] # Sending(running, m)
    BY <1>1, KernelFacts, Handles
  <2> QED  BY <1>1, <1>3, <2>1 DEF SInv, FinOK
<1> QED  BY <1>4, <1>5, <1>6, <1>7, <1>8, <1>9 DEF SInv

\* exit_current_thread, as the programs see it.
LEMMA ExitEffect ==
  exit_current_thread => UNCHANGED <<counter, sock, ctx>> /\ threads' = threads \ {running}
BY DEF exit_current_thread, drop_thread

\* A spawned thread has its own id, and no other.
LEMMA WorkerRuns ==
  ASSUME IInv, SInv, running \in Workers, worker_running, UNCHANGED typed
  PROVE  SInv'
<1>1. at[running] = "running" /\ ctx[running] = [rax |-> 0, data |-> running]
  <2>1. at[running] = "running"
    BY DEF worker_running
  <2> QED  BY <2>1, UserCaller, KernelFacts DEF SInv, WorkersOK, Caller
<1>2. /\ id' = [id EXCEPT ![running] = running] /\ UNCHANGED <<entry, call, typed>>
      /\ \/ sys_yield /\ goto("finish")
         \/ exit_current_thread /\ goto("gone")
  BY <1>1, SMT DEF worker_running, unwrap, Ok, data
<1>3. CASE sys_yield /\ goto("finish")
  <2>1. UNCHANGED <<threads, counter, sock, ctx>>
    BY <1>3 DEF sys_yield
  <2>2. FinOK'
    <3>1. \A t \in Workers : t # running => at'[t] = at[t]
      BY <1>3, Goto, KernelFacts DEF Places
    <3>2. at'[Main] = at[Main] /\ Workers' = Workers
      BY <1>3, <2>1, Goto, KernelFacts DEF Places, Workers
    <3> QED  BY <1>1, <2>1, <3>1, <3>2 DEF SInv, FinOK
  <2> QED  BY <1>1, <1>2, <1>3, <2>1, <2>2, WorkerStays
<1>4. CASE exit_current_thread /\ goto("gone")
  BY <1>1, <1>2, <1>4, ExitEffect, WorkerLeaves
<1> QED  BY <1>2, <1>3, <1>4

\* A spawned thread reports its id: to main if main waits for it.
LEMMA WorkerFinishes ==
  ASSUME IInv, SInv, running \in Workers, worker_finish, UNCHANGED typed
  PROVE  SInv'
<1>1. at[running] = "finish" /\ id[running] = running /\ id \in [Tids -> 0 .. MaxId]
  BY DEF worker_finish, SInv, WorkersOK, ShellTypeOK
<1>2. sys_send(FIN, running) /\ goto("done") /\ UNCHANGED <<id, entry, call, typed>>
  BY <1>1 DEF worker_finish
<1>3. id' = [id EXCEPT ![running] = running]
  BY <1>1, <1>2, KernelFacts
<1>4. Sent("fin", running)
  <2>1. CoreInv /\ Caller /\ "fin" \in SocketIds /\ "fin" = get_sockets(running, FIN) /\ running \in Nat
    BY UserCaller, KernelFacts
  <2> QED  BY <1>2, <2>1, SendEffect
<1>5. /\ UNCHANGED <<threads, counter>> /\ sock'["id"] = sock["id"]
      /\ sock'["vga"] = sock["vga"] /\ sock'["keyboard"] = sock["keyboard"]
  BY <1>4, Handles DEF Sent
<1>6. /\ at'[running] = "done" /\ \A t \in Tids \ {running} : at'[t] = at[t]
      /\ Workers' = Workers /\ Workers \subseteq Tids \ {Main} /\ Main \in Tids
  BY <1>2, <1>5, Goto, KernelFacts DEF Places, Workers
<1>7. FinOK' /\ \A t \in Tids \ {running} : (t = Main /\ at[Main] = "id_sent") \/ ctx'[t] = ctx[t]
  <2>1. CASE sock["fin"] = Empty
    <3>1. sock'["fin"] = Sending(running, running) /\ \A t \in Tids \ {running} : ctx'[t] = ctx[t]
      BY <1>4, <2>1 DEF Sent
    <3> QED  BY <1>6, <3>1 DEF FinOK
  <2>2. ASSUME NEW u \in Workers, at[u] = "done", sock["fin"] = Sending(u, u)
        PROVE  FinOK' /\ \A t \in Tids \ {running} : ctx'[t] = ctx[t]
    <3>1. u \in Tids \cup {NoThread} /\ u \in Nat
      BY KernelFacts
    <3>2. sock'["fin"] = Sending(u, u) /\ \A t \in Tids \ {running} : ctx'[t] = ctx[t]
      BY <1>4, <2>2, <3>1 DEF Sent
    <3> QED  BY <1>1, <1>6, <2>2, <3>2 DEF FinOK
  <2>3. CASE at[Main] = "id_sent" /\ sock["fin"] = Receiving(Main, NoThread)
    <3>1. sock'["fin"] = Empty /\ \A t \in Tids \ {running, Main} : ctx'[t] = ctx[t]
      BY <1>4, <1>6, <2>3 DEF Sent
    <3> QED  BY <2>3, <3>1 DEF FinOK
  <2> QED  BY <2>1, <2>2, <2>3 DEF SInv, FinOK
<1> QED  BY <1>1, <1>2, <1>3, <1>5, <1>7, WorkerStays

\* A spawned thread leaves after its report, or panics on a refused one.
LEMMA WorkerDone ==
  ASSUME IInv, SInv, running \in Workers, worker_done, UNCHANGED typed
  PROVE  SInv'
<1>1. at[running] = "done" /\ id[running] = running /\ id \in [Tids -> 0 .. MaxId]
  BY DEF worker_done, SInv, WorkersOK, ShellTypeOK
<1>2. /\ exit_current_thread /\ (goto("gone") \/ goto("panicked"))
      /\ UNCHANGED <<id, entry, call, typed>>
  BY DEF worker_done, unwrap, thread_exit, panic
<1>3. id' = [id EXCEPT ![running] = running]
  BY <1>1, <1>2, KernelFacts
<1> QED  BY <1>1, <1>2, <1>3, ExitEffect, WorkerLeaves

\* The kernel's own steps leave the programs where they are, and the workers'
\* registers and sockets as they are.
LEMMA KernelsOwn ==
  ASSUME IInv, SInv, UNCHANGED <<at, id, entry, call, threads, counter>>, typed' \in 0 .. MaxKeys,
         sock'["id"] = sock["id"], sock'["fin"] = sock["fin"],
         \A t \in Workers : ctx'[t] = ctx[t],
         at[Main] = "spawned" => ctx'[Main] = ctx[Main],
         MainOK', VgaOK', KeyboardOK'
  PROVE  SInv'
<1>1. Workers' = Workers
  BY DEF Workers
<1>2. ShellTypeOK' /\ OwnId' /\ OnlyCompletionsPanic' /\ CallOK'
  BY DEF SInv, ShellTypeOK, OwnId, OnlyCompletionsPanic, CallOK
<1>3. IdPhase'
  <2>1. \A t \in Workers' : t \in Workers /\ (Needs(t)' => Needs(t))
    BY <1>1 DEF Needs
  <2>2. IdPhase
    BY DEF SInv
  <2> QED  BY <1>1, <2>1, <2>2, PhaseStays
<1>4. WorkersOK' /\ FinOK'
  BY <1>1, SMT DEF SInv, WorkersOK, FinOK
<1> QED  BY <1>2, <1>3, <1>4 DEF SInv

\* The listener takes the next character.
LEMMA ListenerStep ==
  ASSUME IInv, SInv, listener, UNCHANGED typed
  PROVE  SInv'
<1>1. running = Listener /\ sys_receive(0) /\ UNCHANGED <<at, id, entry, call>>
  BY DEF listener
<1>2. Received("vga")
  <2>1. CoreInv /\ Caller
    BY <1>1, KernelFacts DEF IInv, Listener, NoThread
  <2>2. "vga" \in SocketIds /\ "vga" = get_sockets(running, 0)
    BY <1>1, Handles
  <2> QED  BY <1>1, <2>1, <2>2, ReceiveEffect
<1>3. /\ UNCHANGED <<threads, counter>> /\ sock'["id"] = sock["id"]
      /\ sock'["keyboard"] = sock["keyboard"] /\ sock'["fin"] = sock["fin"]
  BY <1>2, Handles DEF Received
<1>4. Workers \subseteq Tids \ {Main, Listener} /\ Main \in Tids \ {Listener}
  BY KernelFacts
<1>5. /\ VgaOK' /\ MainOK'
      /\ \A t \in Workers : ctx'[t] = ctx[t]
      /\ at[Main] = "spawned" => ctx'[Main] = ctx[Main]
  <2>1. CASE sock["vga"] = Empty
    <3>1. sock'["vga"] = Receiving(Listener, NoThread) /\ \A t \in Tids \ {Listener} : ctx'[t] = ctx[t]
      BY <1>1, <1>2, <2>1 DEF Received
    <3>2. MainOK'
      BY <1>1, <1>3, <1>4, <3>1 DEF SInv, MainOK
    <3> QED  BY <1>4, <3>1, <3>2 DEF VgaOK
  <2>2. ASSUME NEW m \in Keys, at[Main] = "prompt", sock["vga"] = Sending(Main, m)
        PROVE  VgaOK' /\ MainOK' /\ \A t \in Workers : ctx'[t] = ctx[t]
    <3>1. m \in Nat /\ Main \in Tids \cup {NoThread} /\ Main # NoThread
      BY KeysAssumption, MsgsAssumption, KernelFacts
    <3>2. /\ sock'["vga"] = Empty /\ ctx'[Main].rax = 0
          /\ \A t \in Tids \ {Listener, Main} : ctx'[t] = ctx[t]
      BY <1>1, <1>2, <2>2, <3>1 DEF Received
    <3>3. ctx[Main].rax = Pending
      BY <2>2, KernelFacts, Handles
    <3>4. id[Main] = Main
      <4>1. ctx[Main] # [rax |-> 0, data |-> Main]
        BY <3>3, SMT DEF Pending
      <4>2. MainOK
        BY DEF SInv
      <4> QED  BY <2>2, <4>1, <4>2 DEF MainOK
    <3>5. MainOK'
      BY <1>1, <1>3, <2>2, <3>2, <3>4 DEF SInv, MainOK
    <3> QED  BY <1>4, <3>2, <3>5 DEF VgaOK
  <2>3. \A m : sock["vga"] # Receiving(Listener, m)
    BY <1>1, KernelFacts, Handles
  <2> QED  BY <2>1, <2>2, <2>3 DEF SInv, VgaOK
<1>6. KeyboardOK' /\ typed' \in 0 .. MaxKeys
  BY <1>1, <1>3 DEF SInv, KeyboardOK, ShellTypeOK
<1> QED  BY <1>1, <1>3, <1>5, <1>6, KernelsOwn

\* A key is pressed, while main waits for it or not.
LEMMA KeypressStep ==
  ASSUME IInv, SInv, keypress
  PROVE  SInv'
<1> PICK key \in Keys : keyboard_handler_inner(key)
  BY DEF keypress
<1>1. UNCHANGED <<at, id, entry, call>> /\ typed' \in 0 .. MaxKeys
  BY MaxKeysAssumption, SMT DEF keypress, SInv, ShellTypeOK
<1>2. key \in Nat /\ CoreInv
  BY KeysAssumption, MsgsAssumption DEF IInv
<1>3. Pressed(key)
  BY <1>2, KeyEffect
<1>4. /\ UNCHANGED <<threads, counter>> /\ sock'["id"] = sock["id"]
      /\ sock'["vga"] = sock["vga"] /\ sock'["fin"] = sock["fin"]
  BY <1>3, Handles DEF Pressed
<1>5. Workers \subseteq Tids \ {Main} /\ Main \in Tids
  BY KernelFacts
<1>6. /\ KeyboardOK' /\ MainOK'
      /\ \A t \in Workers : ctx'[t] = ctx[t]
      /\ at[Main] = "spawned" => ctx'[Main] = ctx[Main]
  <2>1. CASE sock["keyboard"] = Empty
    <3>1. sock'["keyboard"] = Sending(NoThread, key) /\ ctx' = ctx
      BY <1>3, <2>1 DEF Pressed
    <3> QED  BY <1>1, <1>4, <3>1 DEF SInv, MainOK, KeyboardOK
  <2>2. ASSUME NEW m \in Keys, sock["keyboard"] = Sending(NoThread, m)
        PROVE  KeyboardOK' /\ MainOK' /\ ctx' = ctx
    <3>1. m \in Nat /\ NoThread \in Tids \cup {NoThread}
      BY KeysAssumption, MsgsAssumption
    <3>2. sock'["keyboard"] = sock["keyboard"] /\ ctx' = ctx
      BY <1>3, <2>2, <3>1 DEF Pressed
    <3> QED  BY <1>1, <1>4, <3>2 DEF SInv, MainOK, KeyboardOK
  <2>3. CASE at[Main] = "dispatch" /\ sock["keyboard"] = Receiving(Main, NoThread)
    <3>1. /\ sock'["keyboard"] = Empty /\ ctx'[Main] = [rax |-> 0, data |-> key]
          /\ \A t \in Tids \ {Main} : ctx'[t] = ctx[t]
      BY <1>3, <1>5, <2>3 DEF Pressed
    <3>2. MainOK'
      <4>1. MainOK
        BY DEF SInv
      <4>2. /\ at'[Main] = "dispatch" /\ id'[Main] = Main /\ Main \in threads'
            /\ ctx'[Main].rax = 0 /\ ctx'[Main].data \in Keys
        BY <1>1, <1>4, <2>3, <3>1, <4>1, SMT DEF MainOK
      <4> QED  BY <4>2 DEF MainOK
    <3> QED  BY <1>5, <2>3, <3>1, <3>2 DEF KeyboardOK
  <2> QED  BY <2>1, <2>2, <2>3 DEF SInv, KeyboardOK
<1>7. VgaOK'
  BY <1>1, <1>4 DEF SInv, VgaOK
<1> QED  BY <1>1, <1>4, <1>6, <1>7, KernelsOwn

\* Every step of the programs and of the devices keeps the invariant.
LEMMA ShellStep == IInv /\ SInv /\ ShellNext => SInv'
<1> SUFFICES ASSUME IInv, SInv, ShellNext
             PROVE  SInv'
  OBVIOUS
<1>1. CASE main /\ UNCHANGED typed
  BY <1>1, MainReceivesId, MainPrompts, MainDispatches, MainSendsId, MainWaits DEF main
<1>2. CASE tester /\ UNCHANGED typed
  <2>1. running \in Workers
    BY <1>2 DEF tester, UserThreads, KernelThreads, Workers
  <2> QED  BY <1>2, <2>1, WorkerReceivesId, WorkerRuns, WorkerFinishes, WorkerDone DEF tester
<1>3. CASE listener /\ UNCHANGED typed
  BY <1>3, ListenerStep
<1>4. CASE keypress
  BY <1>4, KeypressStep
<1>5. CASE tick
  <2>1. UNCHANGED <<at, id, entry, call, threads, counter, typed, sock, ctx>>
    BY <1>5 DEF tick, timer_handler
  <2>2. MainOK' /\ VgaOK' /\ KeyboardOK' /\ typed' \in 0 .. MaxKeys
    BY <2>1 DEF SInv, MainOK, VgaOK, KeyboardOK, ShellTypeOK
  <2> QED  BY <2>1, <2>2, KernelsOwn
<1> QED  BY <1>1, <1>2, <1>3, <1>4, <1>5 DEF ShellNext, Program

-----------------------------------------------------------------------------
\* Every step of the shell is a step the kernel allows a program.
LEMMA KernelStep == IInv /\ SInv /\ ShellNext => Next
<1> SUFFICES ASSUME IInv, SInv, ShellNext
             PROVE  Next
  OBVIOUS
<1> USE DEF Next, Syscall
<1>1. cpu = "on"
  BY DEF ShellNext
<1>2. KEYBOARD \in UserHandles /\ VGA \in UserHandles /\ ID \in UserHandles /\ FIN \in UserHandles
  BY UsedHandlesAssumption, SMT DEF KEYBOARD, VGA, ID, FIN
<1>3. CASE main
  <2>1. running = Main /\ running \in UserThreads
    BY <1>3, UserCaller DEF main
  <2>2. CASE recv_id("prompt")
    BY <1>1, <1>2, <2>1, <2>2 DEF recv_id
  <2>3. CASE main_prompt
    BY <1>1, <1>2, <2>1, <2>3 DEF main_prompt, unwrap, panic
  <2>4. CASE main_dispatch
    <3> DEFINE ch == ctx[Main].data
               c == Command(ch)
    <3>1. \/ exit_current_thread
          \/ at[Main] = "dispatch" /\ ctx[Main].rax = 0 /\ sys_send(VGA, c.key)
          \/ fork_ok \/ fork_no_stack
      BY <2>1, <2>4 DEF main_dispatch, unwrap, panic, thread_exit, echo, thread_spawn, Ok, data
    <3>2. at[Main] = "dispatch" /\ ctx[Main].rax = 0 => c.key \in Msgs
      <4> SUFFICES ASSUME at[Main] = "dispatch", ctx[Main].rax = 0
                   PROVE  c.key \in Msgs
        OBVIOUS
      <4>1. ch \in Keys
        BY SMT DEF SInv, MainOK, Pending
      <4> HIDE DEF ch
      <4>2. ch \in Msgs /\ ch \in Nat
        BY <4>1, KeysAssumption, MsgsAssumption
      <4> QED  BY <4>2, CommandOK
    <3> HIDE DEF c
    <3> QED  BY <1>1, <1>2, <2>1, <3>1, <3>2 DEF fork_current_thread
  <2>5. CASE main_spawned
    <3>1. \/ sys_send(VGA, call.key)
          \/ ctx[Main].rax = 0 /\ sys_send(ID, ctx[Main].data)
      BY <2>1, <2>5 DEF main_spawned, echo, Ok, data
    <3>2. call.key \in Msgs
      BY <2>5, KeysAssumption DEF SInv, CallOK, main_spawned
    <3>3. ctx[Main].rax = 0 => ctx[Main].data \in Msgs
      <4> SUFFICES ASSUME ctx[Main].rax = 0
                   PROVE  ctx[Main].data \in Msgs
        OBVIOUS
      <4>1. ctx[Main].data = counter
        <5>1. at[Main] = "spawned" /\ IdPhase
          BY <2>5 DEF SInv, main_spawned
        <5>2. Spawned
          BY <5>1 DEF IdPhase, Boots, Quiet, Offered
        <5> QED  BY <5>2, SMT DEF Spawned
      <4> QED  BY <4>1, KeysAssumption, KernelFacts
    <3> QED  BY <1>1, <1>2, <2>1, <3>1, <3>2, <3>3
  <2>6. CASE main_id_sent
    <3>1. sys_send(VGA, call.key) \/ fork_ok \/ fork_no_stack \/ sys_receive(FIN)
      BY <2>6 DEF main_id_sent, echo, thread_spawn
    <3>2. call.key \in Msgs
      BY <2>6, KeysAssumption DEF SInv, CallOK, main_id_sent
    <3> QED  BY <1>1, <1>2, <2>1, <3>1, <3>2 DEF fork_current_thread
  <2> QED  BY <1>3, <2>2, <2>3, <2>4, <2>5, <2>6 DEF main
<1>4. CASE tester
  <2>1. running \in Workers /\ running \in UserThreads
    BY <1>4 DEF tester, UserThreads, KernelThreads, Workers
  <2>2. \/ sys_receive(ID) \/ sys_yield \/ exit_current_thread
        \/ at[running] = "finish" /\ sys_send(FIN, id[running])
    BY <1>4 DEF tester, recv_id, worker_running, worker_finish, worker_done, unwrap, panic,
                thread_exit
  <2>3. at[running] = "finish" => id[running] \in Msgs
    BY <2>1, KeysAssumption, KernelFacts, ZenonT(30) DEF SInv, WorkersOK
  <2> QED  BY <1>1, <1>2, <2>1, <2>2, <2>3
<1>5. CASE listener
  BY <1>1, <1>5 DEF listener
<1>6. CASE keypress
  BY <1>1, <1>6, KeysAssumption DEF keypress, Interrupt
<1>7. CASE tick
  BY <1>1, <1>7 DEF tick, Interrupt
<1> QED  BY <1>3, <1>4, <1>5, <1>6, <1>7 DEF ShellNext, Program

\* The state the boot code leaves.
LEMMA ShellInitInv == ShellInit => SInv
<1> SUFFICES ASSUME ShellInit
             PROVE  SInv
  OBVIOUS
<1>1. /\ threads = {Idle, Listener, Main} /\ at = [t \in Tids |-> "start"]
      /\ id = [t \in Tids |-> 0] /\ entry = [t \in Tids |-> "main"]
      /\ call = Command(0) /\ typed = 0 /\ Main \in Tids
      /\ sock["id"] = Sending(NoThread, Main) /\ sock["vga"] = Empty
      /\ sock["keyboard"] = Empty /\ sock["fin"] = Empty
  BY InitInv, KernelFacts DEF ShellInit, Init, SocketIds
<1>2. call \in Commands
  BY <1>1, CommandOK
<1>3. call.spawn \in 0 .. 4 /\ call.wait \in 0 .. 4
  BY <1>2 DEF Commands
<1>4. Workers = {}
  BY <1>1 DEF Workers
<1>5. ShellTypeOK /\ OwnId /\ OnlyCompletionsPanic
  BY <1>1, <1>3, MaxKeysAssumption, MaxIdAssumption, SMT
     DEF ShellTypeOK, OwnId, OnlyCompletionsPanic, Places
<1>6. IdPhase
  BY <1>1, <1>4 DEF IdPhase, Boots
<1>7. MainOK /\ CallOK /\ WorkersOK
  BY <1>1, <1>2, <1>4 DEF MainOK, CallOK, WorkersOK
<1>8. VgaOK /\ KeyboardOK /\ FinOK
  BY <1>1 DEF VgaOK, KeyboardOK, FinOK
<1> QED  BY <1>5, <1>6, <1>7, <1>8 DEF SInv

\* A step that changes nothing.
LEMMA ShellStutter == SInv /\ UNCHANGED svars => SInv'
<1> SUFFICES ASSUME SInv, UNCHANGED svars
             PROVE  SInv'
  OBVIOUS
<1>1. UNCHANGED <<at, id, entry, call, typed, threads, counter, sock, ctx>>
  BY DEF svars, vars
<1>2. Workers' = Workers
  BY <1>1 DEF Workers
<1>3. ShellTypeOK' /\ OwnId' /\ OnlyCompletionsPanic' /\ CallOK' /\ MainOK'
  BY <1>1 DEF SInv, ShellTypeOK, OwnId, OnlyCompletionsPanic, CallOK, MainOK
<1>4. IdPhase'
  BY <1>1, <1>2 DEF SInv, IdPhase, Boots, Quiet, Spawned, Offered, New, Needs
<1>5. WorkersOK' /\ VgaOK' /\ KeyboardOK' /\ FinOK'
  BY <1>1, <1>2 DEF SInv, WorkersOK, VgaOK, KeyboardOK, FinOK
<1> QED  BY <1>3, <1>4, <1>5 DEF SInv

\* The invariants of the kernel and of the shell hold together, whatever the
\* keys typed, the number of threads and the interleaving.
THEOREM ShellInductive == ShellSpec => [](IInv /\ SInv)
<1>1. ShellInit => IInv /\ SInv
  BY InitInv, ShellInitInv DEF ShellInit
<1>2. IInv /\ SInv /\ [ShellNext]_svars => IInv' /\ SInv'
  <2> SUFFICES ASSUME IInv, SInv, [ShellNext]_svars
               PROVE  IInv' /\ SInv'
    OBVIOUS
  <2>1. [Next]_vars
    BY KernelStep DEF svars
  <2> QED  BY <2>1, NextInv, ShellStep, ShellStutter
<1> QED  BY <1>1, <1>2, PTL DEF ShellSpec

\* The shell (bin/src/main.rs) is one of the programs of module Kernel, so that
\* every theorem about all programs is one about it.
THEOREM ShellOnKernel == ShellSpec => RunsOnKernel
<1>1. ShellInit => Init
  BY DEF ShellInit
<1>2. IInv /\ SInv /\ [ShellNext]_svars => [Next]_vars
  BY KernelStep DEF svars
<1> QED  BY <1>1, <1>2, ShellInductive, PTL DEF ShellSpec, RunsOnKernel, Spec

\* The variables of main.rs keep their types.
THEOREM ShellTypes == ShellSpec => []ShellTypeOK
<1>1. SInv => ShellTypeOK
  BY DEF SInv
<1> QED  BY <1>1, ShellInductive, PTL

\* recv_id gives every thread its own id, with any number of threads spawned and
\* any preemption between spawner and spawned.
THEOREM OwnIds == ShellSpec => []OwnId
<1>1. SInv => OwnId
  BY DEF SInv
<1> QED  BY <1>1, ShellInductive, PTL

\* Only the unwrap() of a completion can fail; main never panics.
THEOREM MainSurvives == ShellSpec => []OnlyCompletionsPanic
<1>1. SInv => OnlyCompletionsPanic
  BY DEF SInv
<1> QED  BY <1>1, ShellInductive, PTL
=============================================================================
