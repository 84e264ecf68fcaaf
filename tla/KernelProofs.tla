---------------------------- MODULE KernelProofs ----------------------------
(***************************************************************************)
(* The inductive invariant of Kernel and the safety invariants and action  *)
(* properties it implies, for every message set, handle set and MaxId.     *)
(*                                                                         *)
(* First what the proofs need to know of the wait queue, a sequence        *)
(* without repetition, of the socket operations and of the scheduler; then *)
(* one lemma per handler, and the theorems.                                *)
(***************************************************************************)
EXTENDS Kernel, TLAPS

\* Zenon proves the steps, but for those that cite SMT.
USE Zenon

-----------------------------------------------------------------------------
(***************************************************************************)
(* The wait queue as a sequence without repetition.                        *)
(***************************************************************************)
\* push_front (schedule_thread) adds one thread and keeps the queue free of
\* repetitions.
LEMMA PushFront ==
  ASSUME NEW S, NEW q \in Seq(S), NEW t \in S
  PROVE  /\ <<t>> \o q \in Seq(S)
         /\ <<t>> \o q # <<>>
         /\ Head(<<t>> \o q) = t
         /\ Range(<<t>> \o q) = Range(q) \cup {t}
         /\ IsInjective(q) /\ t \notin Range(q) => IsInjective(<<t>> \o q)
<1> DEFINE p == <<t>> \o q
<1>1. /\ p \in Seq(S)
      /\ Len(p) = Len(q) + 1
      /\ p[1] = t
      /\ \A i \in 1 .. Len(q) : p[i + 1] = q[i]
      /\ Len(q) \in Nat
      /\ DOMAIN p = 1 .. Len(p)
      /\ DOMAIN q = 1 .. Len(q)
  BY SMT
<1> HIDE DEF p
<1>2. Range(p) = Range(q) \cup {t}
  <2>1. \A x \in Range(p) : x \in Range(q) \cup {t}
    <3>1. ASSUME NEW i \in 1 .. Len(p)
          PROVE  p[i] \in Range(q) \cup {t}
      <4>1. CASE i = 1
        BY <1>1, <4>1
      <4>2. CASE i # 1
        <5>1. i - 1 \in 1 .. Len(q) /\ p[i] = q[i - 1]
          BY <1>1, <4>2, SMT
        <5> QED  BY <5>1, SMT DEF Range
      <4> QED  BY <4>1, <4>2
    <3> QED  BY <1>1, <3>1, ZenonT(30) DEF Range
  <2>2. \A i \in 1 .. Len(q) : q[i] \in Range(p)
    BY <1>1, SMT DEF Range
  <2>3. t \in Range(p)
    BY <1>1, SMT DEF Range
  <2> QED  BY <1>1, <2>1, <2>2, <2>3 DEF Range
<1>3. ASSUME IsInjective(q), t \notin Range(q)
      PROVE  IsInjective(p)
  <2> SUFFICES ASSUME NEW i \in 1 .. Len(p), NEW j \in 1 .. Len(p), p[i] = p[j]
               PROVE  i = j
    BY <1>1 DEF IsInjective
  <2>1. \A n \in 2 .. Len(p) : n - 1 \in 1 .. Len(q) /\ p[n] = q[n - 1] /\ p[n] # t
    BY <1>1, <1>3, SMT DEF Range
  <2>2. CASE i = 1 \/ j = 1
    BY <1>1, <2>1, <2>2, SMT
  <2>3. CASE i # 1 /\ j # 1
    <3>1. i - 1 \in DOMAIN q /\ j - 1 \in DOMAIN q /\ q[i - 1] = q[j - 1]
      BY <1>1, <2>1, <2>3, SMT
    <3>2. i - 1 = j - 1
      BY <1>3, <3>1 DEF IsInjective
    <3> QED  BY <1>1, <3>2, SMT
  <2> QED  BY <2>2, <2>3
<1> QED  BY <1>1, <1>2, <1>3, SMT DEF p

\* push_back (update_current_thread, fork) likewise.
LEMMA PushBack ==
  ASSUME NEW S, NEW q \in Seq(S), NEW t \in S
  PROVE  /\ Append(q, t) \in Seq(S)
         /\ Append(q, t) # <<>>
         /\ Range(Append(q, t)) = Range(q) \cup {t}
         /\ IsInjective(q) /\ t \notin Range(q) => IsInjective(Append(q, t))
<1> DEFINE p == Append(q, t)
<1>1. /\ p \in Seq(S)
      /\ Len(p) = Len(q) + 1
      /\ p[Len(p)] = t
      /\ \A i \in 1 .. Len(q) : p[i] = q[i]
      /\ Len(q) \in Nat
      /\ DOMAIN p = 1 .. Len(p)
      /\ DOMAIN q = 1 .. Len(q)
  BY SMT
<1> HIDE DEF p
<1>2. Range(p) = Range(q) \cup {t}
  BY <1>1, SMT DEF Range
<1>3. ASSUME IsInjective(q), t \notin Range(q)
      PROVE  IsInjective(p)
  <2>1. \A n \in 1 .. Len(q) : p[n] # t
    BY <1>1, <1>3 DEF Range
  <2> QED  BY <1>1, <1>3, <2>1, SMT DEF IsInjective
<1> QED  BY <1>1, <1>2, <1>3, SMT DEF p

\* pop_front (schedule) takes out one thread, which is then no longer queued.
LEMMA PopFront ==
  ASSUME NEW S, NEW q \in Seq(S), q # <<>>
  PROVE  /\ Head(q) \in S
         /\ Tail(q) \in Seq(S)
         /\ Range(q) = Range(Tail(q)) \cup {Head(q)}
         /\ IsInjective(q) => IsInjective(Tail(q)) /\ Head(q) \notin Range(Tail(q))
<1> DEFINE p == Tail(q)
<1>1. /\ p \in Seq(S)
      /\ Len(p) = Len(q) - 1
      /\ Head(q) = q[1]
      /\ q[1] \in S
      /\ Len(q) \in Nat \ {0}
      /\ \A i \in 1 .. Len(p) : p[i] = q[i + 1]
      /\ DOMAIN p = 1 .. Len(p)
      /\ DOMAIN q = 1 .. Len(q)
  BY SMT
<1> HIDE DEF p
<1>2. \A i \in 2 .. Len(q) : i - 1 \in 1 .. Len(p) /\ q[i] = p[i - 1]
  BY <1>1, SMT
<1>3. Range(q) = Range(p) \cup {Head(q)}
  <2>1. \A i \in 1 .. Len(q) : q[i] \in Range(p) \cup {Head(q)}
    <3> TAKE i \in 1 .. Len(q)
    <3>1. CASE i = 1  BY <1>1, <3>1
    <3>2. CASE i # 1  BY <1>1, <1>2, <3>2, SMTT(30) DEF Range
    <3> QED  BY <3>1, <3>2
  <2>2. \A i \in 1 .. Len(p) : p[i] \in Range(q)
    BY <1>1, SMT DEF Range
  <2>3. Head(q) \in Range(q)
    BY <1>1, SMT DEF Range
  <2>4. \A x \in Range(q) : x \in Range(p) \cup {Head(q)}
    BY <1>1, <2>1, SMT DEF Range
  <2>5. \A x \in Range(p) : x \in Range(q)
    BY <1>1, <2>2 DEF Range
  <2> QED  BY <2>3, <2>4, <2>5
<1>4. ASSUME IsInjective(q)
      PROVE  IsInjective(p) /\ Head(q) \notin Range(p)
  <2>1. IsInjective(p)
    <3> SUFFICES ASSUME NEW i \in 1 .. Len(p), NEW j \in 1 .. Len(p), p[i] = p[j]
                 PROVE  i = j
      BY <1>1 DEF IsInjective
    <3>1. i + 1 \in DOMAIN q /\ j + 1 \in DOMAIN q /\ q[i + 1] = q[j + 1]
      BY <1>1, SMT
    <3>2. i + 1 = j + 1
      BY <1>4, <3>1 DEF IsInjective
    <3> QED  BY <1>1, <3>2, SMT
  <2>2. \A i \in 1 .. Len(p) : p[i] # q[1]
    BY <1>1, <1>4, SMTT(30) DEF IsInjective
  <2> QED  BY <1>1, <2>1, <2>2 DEF Range
<1> QED  BY <1>1, <1>3, <1>4 DEF p

-----------------------------------------------------------------------------
(***************************************************************************)
(* The contract of the socket operations: an operation called by `caller`  *)
(* on cell s returns, or leaves in the cell, exactly the caller and the    *)
(* thread the cell held; it touches no other context; and of the two, the  *)
(* one left in the cell is the one without a result.                       *)
(***************************************************************************)
Callable(s, c, caller) ==
  /\ s \in Cells(Tids, Nat)
  /\ CellOK(s)
  /\ c \in [Tids -> Contexts]
  /\ caller \in Tids \cup {NoThread}
  /\ caller = s.thread => caller = NoThread
  /\ \A t \in {caller, s.thread} \ {NoThread} : c[t].rax = Pending

Contract(s, c, caller, r) ==
  /\ r.sock \in Cells(Tids, Nat)
  /\ CellOK(r.sock)
  /\ r.ctx \in [Tids -> Contexts]
  /\ {r.thread1, r.thread2, r.sock.thread} \ {NoThread} = {caller, s.thread} \ {NoThread}
  /\ r.thread1 # NoThread => r.thread1 # r.thread2 /\ r.thread1 # r.sock.thread
  /\ r.thread2 # NoThread => r.thread2 # r.sock.thread
  /\ \A t \in Tids \ {caller, s.thread} : r.ctx[t] = c[t]
  /\ \A t \in {caller, s.thread} \ {NoThread} : r.ctx[t].rax = Pending <=> t = r.sock.thread

-----------------------------------------------------------------------------
(***************************************************************************)
(* The scheduler, and what the core invariant says of it.                  *)
(***************************************************************************)
\* schedule moves the current thread behind the queue and takes the front
\* out; the interrupt stack is that of the thread now running, and threads
\* in U keep the user page table, which is loaded when one of them runs.
LEMMA ScheduleStep ==
  ASSUME NEW q \in Seq(Tids), NEW current \in Tids \cup {NoThread}, NEW U,
         pt \in [Tids -> Tables], cr3 \in Tables \ {NoTable}, ist \in Tids,
         IsInjective(q), current \notin Range(q),
         Range(q) \cup ({current} \ {NoThread}) # {},
         \A t \in U : t \in Tids /\ pt[t] = UserTable,
         current \in U => cr3 = UserTable,
         schedule(q, current)
  PROVE  /\ queue' \in Seq(Tids)
         /\ running' \in Tids
         /\ IsInjective(queue')
         /\ running' \notin Range(queue')
         /\ Range(queue') \cup {running'} = Range(q) \cup ({current} \ {NoThread})
         /\ ist' = running'
         /\ pt' \in [Tids -> Tables]
         /\ cr3' \in Tables \ {NoTable}
         /\ \A t \in U : pt'[t] = UserTable
         /\ running' \in U => cr3' = UserTable
<1> DEFINE w == update_current_thread(q, current)
           p == save_page_table(current)
<1>1. /\ w \in Seq(Tids)
      /\ IsInjective(w)
      /\ Range(w) = Range(q) \cup ({current} \ {NoThread})
  <2>1. CASE current = NoThread
    BY <2>1 DEF update_current_thread
  <2>2. CASE current # NoThread
    BY <2>2, PushBack, SMT DEF update_current_thread
  <2> QED  BY <2>1, <2>2
<1>2. w # <<>>
  <2> HIDE DEF w
  <2>1. Range(<<>>) = {}
    BY SMT DEF Range
  <2> QED  BY <1>1, <2>1
<1>3. /\ p \in [Tids -> Tables]
      /\ \A t \in U : p[t] = UserTable
  BY DEF save_page_table
<1>4. /\ running' = Head(w)
      /\ queue' = Tail(w)
      /\ pt' = p
      /\ ist' = (IF Head(w) = NoThread THEN ist ELSE Head(w))
      /\ cr3' = IF Head(w) = NoThread \/ p[Head(w)] = NoTable THEN cr3 ELSE p[Head(w)]
  BY <1>2 DEF schedule
<1> HIDE DEF w, p
<1>5. /\ Head(w) \in Tids
      /\ Tail(w) \in Seq(Tids)
      /\ Range(w) = Range(Tail(w)) \cup {Head(w)}
      /\ IsInjective(Tail(w)) /\ Head(w) \notin Range(Tail(w))
  BY <1>1, <1>2, PopFront
<1>6. Head(w) # NoThread
  BY <1>5, SMT DEF Tids, NoThread
<1>7. UserTable # NoTable
  BY DEF UserTable, NoTable
<1> QED  BY <1>1, <1>3, <1>4, <1>5, <1>6, <1>7

\* Queueing a thread that is not queued, or nobody, at the front.
LEMMA ScheduleSome ==
  ASSUME NEW q \in Seq(Tids), IsInjective(q), NEW t \in Tids \cup {NoThread},
         t \notin Range(q)
  PROVE  /\ schedule_some(q, t) \in Seq(Tids)
         /\ IsInjective(schedule_some(q, t))
         /\ Range(schedule_some(q, t)) = Range(q) \cup ({t} \ {NoThread})
<1>1. CASE t = NoThread
  BY <1>1 DEF schedule_some
<1>2. CASE t # NoThread
  BY <1>2, PushFront, SMT DEF schedule_some, schedule_thread
<1> QED  BY <1>1, <1>2

\* Facts about the invariant that every switch of threads uses.
LEMMA InvFacts ==
  ASSUME CoreInv
  PROVE  /\ queue \in Seq(Tids) /\ IsInjective(queue)
         /\ threads \subseteq Tids /\ NoThread \notin Tids
         /\ running \in Tids \cup {NoThread}
         /\ threads = Range(queue) \cup Blocked \cup ({running} \ {NoThread})
         /\ Range(queue) \cap Blocked = {}
         /\ running \notin Range(queue) \cup Blocked
         /\ NoThread \notin Range(queue) \cup Blocked
         /\ pt \in [Tids -> Tables] /\ cr3 \in Tables \ {NoTable} /\ ist \in Tids
         /\ \A t \in UserThreads : t \in Tids /\ pt[t] = UserTable
         /\ running \in UserThreads => cr3 = UserTable
         /\ Range(queue) \cup ({running} \ {NoThread}) # {}
<1>1. /\ queue \in Seq(Tids) /\ IsInjective(queue)
      /\ threads \subseteq Tids /\ NoThread \notin Tids
      /\ running \in Tids \cup {NoThread}
      /\ threads = Range(queue) \cup Blocked \cup ({running} \ {NoThread})
      /\ Range(queue) \cap Blocked = {}
      /\ running \notin Range(queue) \cup Blocked
      /\ pt \in [Tids -> Tables] /\ cr3 \in Tables \ {NoTable} /\ ist \in Tids
  BY SMT DEF CoreInv, TypeOK, EveryThreadHeldOnce, Tids, NoThread
<1>2. NoThread \notin Range(queue) \cup Blocked
  <2>1. \A i \in DOMAIN queue : queue[i] \in Tids
    BY <1>1, SMT
  <2> QED  BY <1>1, <2>1 DEF Range, Blocked
<1>3. \A t \in UserThreads : t \in Tids /\ pt[t] = UserTable
  BY <1>1 DEF CoreInv, ThreadsOK, UserThreads
<1>4. Idle \in Range(queue) \cup ({running} \ {NoThread})
  BY <1>1 DEF CoreInv, ThreadsOK, KernelThreads
<1>5. running \in UserThreads => cr3 = UserTable
  BY DEF CoreInv, OwnAddressSpace
<1> QED  BY <1>1, <1>2, <1>3, <1>4, <1>5

\* What an operation on cell k by a thread that no cell holds does to the
\* cells: they stay well formed, hold each thread once, and exchange the
\* thread cell k held for the one it holds now; and a thread has no result
\* exactly if a cell holds it.
LEMMA CellUpdate ==
  ASSUME CoreInv, NEW k \in SocketIds, NEW caller \in Tids \cup {NoThread},
         caller \notin Blocked, NEW c, NEW r,
         c \in [Tids -> Contexts],
         \A t \in Tids \ {caller} : c[t] = ctx[t],
         Contract(sock[k], c, caller, r),
         sock' = [sock EXCEPT ![k] = r.sock], ctx' = r.ctx, threads' \subseteq threads
  PROVE  /\ sock' \in [SocketIds -> Cells(Tids, Nat)]
         /\ \A j \in SocketIds : CellOK(sock'[j])
         /\ ctx' \in [Tids -> Contexts]
         /\ Blocked' = (Blocked \ {sock[k].thread}) \cup ({r.sock.thread} \ {NoThread})
         /\ \A i, j \in SocketIds :
              sock'[i].thread = sock'[j].thread /\ i # j => sock'[i].thread = NoThread
         /\ ResultIffReleased'
<1> DEFINE s == sock[k]
<1>1. /\ sock \in [SocketIds -> Cells(Tids, Nat)]
      /\ \A j \in SocketIds : CellOK(sock[j])
      /\ threads \subseteq Tids
      /\ \A i, j \in SocketIds :
           sock[i].thread = sock[j].thread /\ i # j => sock[i].thread = NoThread
      /\ \A t \in threads : ctx[t].rax = Pending <=> t \in Blocked
  BY DEF CoreInv, TypeOK, EveryThreadHeldOnce, ResultIffReleased
<1>2. /\ r.sock \in Cells(Tids, Nat)
      /\ CellOK(r.sock)
      /\ r.ctx \in [Tids -> Contexts]
      /\ {r.thread1, r.thread2, r.sock.thread} \ {NoThread} = {caller, s.thread} \ {NoThread}
      /\ \A t \in Tids \ {caller, s.thread} : r.ctx[t] = c[t]
      /\ \A t \in {caller, s.thread} \ {NoThread} : r.ctx[t].rax = Pending <=> t = r.sock.thread
  BY DEF Contract
<1>3. /\ sock'[k] = r.sock
      /\ \A j \in SocketIds \ {k} : sock'[j] = sock[j]
      /\ sock' \in [SocketIds -> Cells(Tids, Nat)]
      /\ \A j \in SocketIds : CellOK(sock'[j])
  BY <1>1, <1>2
<1>4. \A j \in SocketIds : sock[j].thread # NoThread => sock[j].thread \in Blocked
  BY DEF Blocked
<1>5. r.sock.thread \in {caller, s.thread, NoThread}
  BY <1>2
<1>6. \A i, j \in SocketIds :
        sock'[i].thread = sock'[j].thread /\ i # j => sock'[i].thread = NoThread
  <2> SUFFICES ASSUME NEW i \in SocketIds, NEW j \in SocketIds, i # j,
                      sock'[i].thread = sock'[j].thread, sock'[i].thread # NoThread
               PROVE  FALSE
    OBVIOUS
  <2> QED  BY <1>1, <1>3, <1>4, <1>5, SMT
<1>7. Blocked' = (Blocked \ {s.thread}) \cup ({r.sock.thread} \ {NoThread})
  <2>1. ASSUME NEW t \in Blocked'
        PROVE  t \in (Blocked \ {s.thread}) \cup ({r.sock.thread} \ {NoThread})
    <3>1. PICK j \in SocketIds : t = sock'[j].thread /\ t # NoThread
      BY DEF Blocked
    <3> QED  BY <1>1, <1>3, <1>4, <3>1
  <2>2. ASSUME NEW t \in Blocked \ {s.thread}
        PROVE  t \in Blocked'
    <3>1. PICK j \in SocketIds : t = sock[j].thread /\ t # NoThread
      BY DEF Blocked
    <3>2. j # k /\ t = sock'[j].thread
      BY <1>3, <2>2, <3>1
    <3> QED  BY <3>1, <3>2 DEF Blocked
  <2>3. r.sock.thread # NoThread => r.sock.thread \in Blocked'
    BY <1>3 DEF Blocked
  <2> QED  BY <2>1, <2>2, <2>3
<1>8. ResultIffReleased'
  <2> SUFFICES ASSUME NEW t \in threads'
               PROVE  r.ctx[t].rax = Pending <=> t \in Blocked'
    BY DEF ResultIffReleased
  <2>0. t \in threads /\ t \in Tids /\ t # NoThread
    BY <1>1, SMT DEF Tids, NoThread
  <2>1. CASE t \notin {caller, s.thread}
    <3>1. r.ctx[t] = ctx[t]
      BY <1>2, <2>0, <2>1
    <3>2. t \in Blocked' <=> t \in Blocked
      BY <1>5, <1>7, <2>0, <2>1
    <3> QED  BY <1>1, <3>1, <3>2
  <2>2. CASE t \in {caller, s.thread}
    <3>1. r.ctx[t].rax = Pending <=> t = r.sock.thread
      BY <1>2, <2>0, <2>2
    <3>2. t \in Blocked' <=> t = r.sock.thread
      BY <1>7, <2>0, <2>2
    <3> QED  BY <3>1, <3>2
  <2> QED  BY <2>1, <2>2
<1> QED  BY <1>2, <1>3, <1>6, <1>7, <1>8

\* The invariant holds again after sys_receive or sys_send has dealt with the
\* outcome of any operation that satisfies the contract.
LEMMA RendezvousInv ==
  ASSUME CoreInv, running \in threads \ {Idle}, NEW k \in SocketIds, NEW c, NEW r,
         c \in [Tids -> Contexts],
         \A t \in Tids \ {running} : c[t] = ctx[t],
         Contract(sock[k], c, running, r),
         rendezvous(k, r)
  PROVE  CoreInv'
<1> DEFINE s == sock[k]
           q2 == wake(queue, r.thread2)
           q1 == wake(q2, r.thread1)
<1>1. /\ sock' = [sock EXCEPT ![k] = r.sock]
      /\ ctx' = r.ctx
      /\ UNCHANGED <<threads, counter, tables>>
      /\ \/ /\ running \in {r.thread1, r.thread2}
            /\ queue' = q1
            /\ UNCHANGED <<running, pt, cr3, ist, cpu>>
         \/ /\ running \notin {r.thread1, r.thread2}
            /\ schedule(q1, NoThread)
            /\ launch_thread
  BY DEF rendezvous
<1>2. /\ queue \in Seq(Tids) /\ IsInjective(queue)
      /\ threads \subseteq Tids /\ NoThread \notin Tids
      /\ threads = Range(queue) \cup Blocked \cup {running}
      /\ Range(queue) \cap Blocked = {}
      /\ running \notin Range(queue) \cup Blocked
      /\ s.thread \in Blocked \cup {NoThread}
  BY SMT DEF CoreInv, TypeOK, EveryThreadHeldOnce, Blocked, Tids, NoThread
<1>3. /\ {r.thread1, r.thread2, r.sock.thread} \ {NoThread} = {running, s.thread} \ {NoThread}
      /\ r.thread1 # NoThread => r.thread1 # r.thread2 /\ r.thread1 # r.sock.thread
      /\ r.thread2 # NoThread => r.thread2 # r.sock.thread
  BY DEF Contract
<1>4. /\ sock' \in [SocketIds -> Cells(Tids, Nat)]
      /\ \A j \in SocketIds : CellOK(sock'[j])
      /\ ctx' \in [Tids -> Contexts]
      /\ Blocked' = (Blocked \ {s.thread}) \cup ({r.sock.thread} \ {NoThread})
      /\ \A i, j \in SocketIds :
           sock'[i].thread = sock'[j].thread /\ i # j => sock'[i].thread = NoThread
      /\ ResultIffReleased'
  <2>1. running \in Tids \cup {NoThread} /\ running \notin Blocked
    BY <1>2
  <2> QED  BY <1>1, <2>1, CellUpdate
<1>5. /\ q2 \in Seq(Tids) /\ IsInjective(q2)
      /\ Range(q2) = Range(queue) \cup ({r.thread2} \ {NoThread, running})
  <2>1. r.thread2 \in {running, s.thread, NoThread}
    BY <1>3
  <2>2. CASE r.thread2 = running
    BY <1>2, <2>2 DEF wake
  <2>3. CASE r.thread2 # running
    <3>1. r.thread2 \in Tids \cup {NoThread} /\ r.thread2 \notin Range(queue)
      <4>1. \A i \in DOMAIN queue : queue[i] \in Tids
        BY <1>2, SMT
      <4> QED  BY <1>2, <2>1, <2>3, <4>1 DEF Range
    <3> QED  BY <1>2, <2>3, <3>1, ScheduleSome, ZenonT(30) DEF wake
  <2> QED  BY <2>2, <2>3
<1> HIDE DEF q2
<1>6. /\ q1 \in Seq(Tids) /\ IsInjective(q1)
      /\ Range(q1) = Range(queue) \cup ({r.thread1, r.thread2} \ {NoThread, running})
  <2>1. r.thread1 \in {running, s.thread, NoThread}
    BY <1>3
  <2>2. CASE r.thread1 = running
    BY <1>5, <2>2 DEF wake
  <2>3. CASE r.thread1 # running
    <3>1. r.thread1 \in Tids \cup {NoThread} /\ r.thread1 \notin Range(q2)
      <4>1. \A i \in DOMAIN queue : queue[i] \in Tids
        BY <1>2, SMT
      <4>2. NoThread \notin Range(queue)
        BY <1>2, <4>1 DEF Range
      <4> QED  BY <1>2, <1>3, <1>5, <2>1, <2>3, <4>2
    <3> QED  BY <1>5, <2>3, <3>1, ScheduleSome, ZenonT(30) DEF wake
  <2> QED  BY <2>2, <2>3
<1> HIDE DEF q1
<1>7. CASE /\ running \in {r.thread1, r.thread2}
           /\ queue' = q1
           /\ UNCHANGED <<running, pt, cr3, ist, cpu>>
  <2>1. running # r.sock.thread
    BY <1>2, <1>3, <1>7
  <2>2. TypeOK'
    BY <1>1, <1>4, <1>6, <1>7 DEF CoreInv, TypeOK
  <2>3. EveryThreadHeldOnce'
    <3>1. running' \notin Range(queue') \cup Blocked'
      BY <1>2, <1>4, <1>6, <1>7, <2>1
    <3>2. Range(queue') \cap Blocked' = {}
      BY <1>2, <1>3, <1>4, <1>6, <1>7, ZenonT(30)
    <3>3. threads' = Range(queue') \cup Blocked' \cup ({running'} \ {NoThread})
      <4> DEFINE A == {r.thread1, r.thread2} \ {NoThread, running}
                 B == {r.sock.thread} \ {NoThread}
      <4>1. A \cup B = {s.thread} \ {NoThread}
        BY <1>2, <1>3, <1>7, <2>1
      <4>2. /\ Range(queue') = Range(queue) \cup A
            /\ Blocked' = (Blocked \ {s.thread}) \cup B
            /\ threads' = Range(queue) \cup Blocked \cup {running}
            /\ s.thread \in Blocked \cup {NoThread}
            /\ NoThread \notin Blocked
            /\ running' = running /\ running # NoThread
        BY <1>1, <1>2, <1>4, <1>6, <1>7 DEF Blocked
      <4> HIDE DEF A, B, s
      <4> QED  BY <4>1, <4>2
    <3> QED  BY <1>4, <1>6, <1>7, <3>1, <3>2, <3>3 DEF EveryThreadHeldOnce
  <2>4. ThreadsOK'
    <3>1. Idle \notin Blocked'
      BY <1>2, <1>3, <1>4 DEF CoreInv, ThreadsOK
    <3> QED  BY <1>1, <1>7, <3>1 DEF CoreInv, ThreadsOK, UserThreads
  <2> QED
    BY <1>1, <1>4, <1>7, <2>2, <2>3, <2>4
    DEF CoreInv, LaunchNeverNull, OwnInterruptStack, OwnAddressSpace, UserThreads
<1>8. CASE /\ running \notin {r.thread1, r.thread2}
           /\ schedule(q1, NoThread)
           /\ launch_thread
  <2>0. running \notin {r.thread1, r.thread2} /\ running # NoThread
    BY <1>2, <1>8
  <2>1. running = r.sock.thread
    BY <1>3, <2>0
  <2>2. Idle \in Range(q1)
    BY <1>2, <1>6 DEF CoreInv, ThreadsOK, KernelThreads
  <2>3. NoThread \notin Range(q1)
    <3>1. \A i \in DOMAIN q1 : q1[i] \in Tids
      BY <1>6, SMT
    <3> QED  BY <1>2, <3>1 DEF Range
  <2>4. /\ queue' \in Seq(Tids) /\ running' \in Tids /\ IsInjective(queue')
        /\ running' \notin Range(queue')
        /\ Range(queue') \cup {running'} = Range(q1)
        /\ ist' = running'
        /\ pt' \in [Tids -> Tables] /\ cr3' \in Tables \ {NoTable}
        /\ \A t \in UserThreads : pt'[t] = UserTable
        /\ running' \in UserThreads => cr3' = UserTable
    <3>1. /\ pt \in [Tids -> Tables] /\ cr3 \in Tables \ {NoTable} /\ ist \in Tids
          /\ \A t \in UserThreads : t \in Tids /\ pt[t] = UserTable
          /\ NoThread \notin UserThreads
      BY <1>2 DEF CoreInv, TypeOK, ThreadsOK, UserThreads
    <3> QED  BY <1>6, <1>8, <2>2, <2>3, <3>1, ScheduleStep
  <2>5. cpu' = "on"
    BY <1>2, <1>8, <2>4 DEF launch_thread
  <2>6. TypeOK'
    BY <1>1, <1>4, <2>4, <2>5 DEF CoreInv, TypeOK
  <2>7. EveryThreadHeldOnce'
    <3>1. Range(q1) \cap Blocked' = {}
      BY <1>2, <1>3, <1>4, <1>6, <2>0, <2>1, ZenonT(30)
    <3>2. threads' = Range(q1) \cup Blocked'
      <4>1. {r.thread1, r.thread2} \ {NoThread, running} = {s.thread} \ {NoThread}
        BY <1>2, <1>3, <2>0, <2>1
      <4>2. {r.sock.thread} \ {NoThread} = {running}
        BY <2>0, <2>1
      <4>3. /\ Range(q1) = Range(queue) \cup ({s.thread} \ {NoThread})
            /\ Blocked' = (Blocked \ {s.thread}) \cup {running}
            /\ threads' = Range(queue) \cup Blocked \cup {running}
            /\ s.thread \in Blocked \cup {NoThread}
            /\ NoThread \notin Blocked
        BY <1>1, <1>2, <1>4, <1>6, <4>1, <4>2 DEF Blocked
      <4> HIDE DEF s
      <4> QED  BY <4>3
    <3>3. running' # NoThread
      BY <1>2, <2>4
    <3> QED  BY <1>4, <2>4, <3>1, <3>2, <3>3 DEF EveryThreadHeldOnce
  <2>8. ThreadsOK'
    <3>1. Idle \notin Blocked'
      BY <1>4, <2>1 DEF CoreInv, ThreadsOK
    <3> QED  BY <1>1, <2>4, <3>1 DEF CoreInv, ThreadsOK, UserThreads
  <2> QED
    BY <1>1, <1>4, <2>4, <2>5, <2>6, <2>7, <2>8
    DEF CoreInv, LaunchNeverNull, OwnInterruptStack, OwnAddressSpace, UserThreads
<1> QED  BY <1>1, <1>7, <1>8

-----------------------------------------------------------------------------
(***************************************************************************)
(* The socket operations satisfy the contract, and the IPC system calls    *)
(* keep the core invariant.                                                *)
(***************************************************************************)
\* return_error gives its thread that code and changes nothing else.
LEMMA ReturnError ==
  ASSUME NEW c \in [Tids -> Contexts], NEW t \in Tids \cup {NoThread}, NEW code \in Codes
  PROVE  /\ return_error(c, t, code) \in [Tids -> Contexts]
         /\ \A u \in Tids \ {t} : return_error(c, t, code)[u] = c[u]
         /\ t # NoThread => return_error(c, t, code)[t].rax = code
BY DEF return_error, Contexts

\* return_message gives its thread the message with rax = 0 and changes
\* nothing else.
LEMMA ReturnMessage ==
  ASSUME NEW c \in [Tids -> Contexts], NEW t \in Tids, NEW m \in Nat
  PROVE  /\ return_message(c, t, m) \in [Tids -> Contexts]
         /\ \A u \in Tids \ {t} : return_message(c, t, m)[u] = c[u]
         /\ return_message(c, t, m)[t] = [rax |-> 0, data |-> m]
BY DEF return_message, Contexts, Codes

\* A refused call hands the caller back with an error and leaves the cell.
LEMMA RefuseContract ==
  ASSUME NEW s, NEW c, NEW thread, NEW code \in Codes \ {Pending},
         Callable(s, c, thread)
  PROVE  Contract(s, c, thread, Refuse(s, c, thread, code))
<1> DEFINE r == Refuse(s, c, thread, code)
<1>1. /\ r.sock = s /\ r.thread1 = thread /\ r.thread2 = NoThread
      /\ r.ctx = return_error(c, thread, code)
  BY DEF Refuse, Outcome
<1> HIDE DEF r
<1>2. /\ r.ctx \in [Tids -> Contexts]
      /\ \A u \in Tids \ {thread} : r.ctx[u] = c[u]
      /\ thread # NoThread => r.ctx[thread].rax = code
  <2>1. c \in [Tids -> Contexts] /\ thread \in Tids \cup {NoThread} /\ code \in Codes
    BY DEF Callable
  <2>2. /\ return_error(c, thread, code) \in [Tids -> Contexts]
        /\ \A u \in Tids \ {thread} : return_error(c, thread, code)[u] = c[u]
        /\ thread # NoThread => return_error(c, thread, code)[thread].rax = code
    BY <2>1, ReturnError
  <2> QED  BY <1>1, <2>2
<1>3. s.thread \in Tids \cup {NoThread}
  BY DEF Callable, Cells
<1>4. Contract(s, c, thread, r)
  BY <1>1, <1>2, <1>3, SMT DEF Callable, Contract
<1> QED  BY <1>4 DEF r

\* Socket::send_message satisfies the contract, with or without a sender.
LEMMA SendMessageContract ==
  ASSUME NEW s, NEW c, NEW thread, NEW m \in Nat, Callable(s, c, thread)
  PROVE  Contract(s, c, thread, send_message(s, c, thread, m))
<1> DEFINE r == send_message(s, c, thread, m)
<1>0. /\ s.thread \in Tids \cup {NoThread}
      /\ s.st \in Variants
      /\ {SYSCALL_ERROR_SEND_BLOCKING, ERROR_SEND_RECEIVING, ERROR_RESTRICTED}
           \subseteq Codes \ {Pending}
  BY SMT DEF Callable, Cells, Codes, Pending, SYSCALL_ERROR_SEND_BLOCKING,
         ERROR_SEND_RECEIVING, ERROR_RESTRICTED
<1>1. CASE s.st = "Empty"
  <2>1. r = Outcome(Sending(thread, m), c, NoThread, NoThread)
    BY <1>1 DEF send_message
  <2>2. s.thread = NoThread
    BY <1>1 DEF Callable, CellOK
  <2>3. Sending(thread, m) \in Cells(Tids, Nat) /\ CellOK(Sending(thread, m))
    BY SMT DEF Callable, Sending, Cell, Cells, Variants, CellOK, NoMsg, NoThread
  <2>4. Sending(thread, m).thread = thread
    BY DEF Sending, Cell
  <2> HIDE DEF r
  <2>5. Contract(s, c, thread, r)
    BY <2>1, <2>2, <2>3, <2>4 DEF Callable, Contract, Outcome
  <2> QED  BY <2>5 DEF r
<1>2. CASE s.st = "Sending"
  BY <1>0, <1>2, RefuseContract DEF send_message
<1>3. CASE s.st = "SendReceiving"
  BY <1>0, <1>3, RefuseContract DEF send_message
<1>4. CASE s.st = "Receiving" /\ WrongSender(s, thread)
  BY <1>0, <1>4, RefuseContract DEF send_message
<1>5. CASE s.st = "Receiving" /\ ~WrongSender(s, thread)
  <2> DEFINE c1 == return_message(c, s.thread, m)
             c2 == return_error(c1, thread, 0)
  <2>1. r = Outcome(Empty, c2, s.thread, thread)
    BY <1>5 DEF send_message
  <2>2. s.thread \in Tids
    BY <1>0, <1>5 DEF Callable, CellOK
  <2>3. /\ c1 \in [Tids -> Contexts]
        /\ \A u \in Tids \ {s.thread} : c1[u] = c[u]
        /\ c1[s.thread].rax = 0
    <3>1. c \in [Tids -> Contexts]
      BY DEF Callable
    <3>2. c1[s.thread] = [rax |-> 0, data |-> m]
      BY <2>2, <3>1, ReturnMessage, SMT
    <3> QED  BY <2>2, <3>1, <3>2, ReturnMessage, SMT
  <2>4. /\ c2 \in [Tids -> Contexts]
        /\ \A u \in Tids \ {thread} : c2[u] = c1[u]
        /\ thread # NoThread => c2[thread].rax = 0
    <3> HIDE DEF c1
    <3> QED  BY <2>3, ReturnError DEF Callable, Codes
  <2>5. Empty \in Cells(Tids, Nat) /\ CellOK(Empty) /\ Empty.thread = NoThread
    BY DEF Empty, Cell, Cells, Variants, CellOK, NoMsg, NoThread
  <2> HIDE DEF r, c1, c2
  <2>6. Contract(s, c, thread, r)
    BY <2>1, <2>2, <2>3, <2>4, <2>5, SMT DEF Callable, Contract, Outcome, Pending, NoThread, Tids
  <2> QED  BY <2>6 DEF r
<1> QED  BY <1>0, <1>1, <1>2, <1>3, <1>4, <1>5 DEF Variants

\* Socket::receive satisfies the contract; its caller is always a thread.
LEMMA ReceiveContract ==
  ASSUME NEW s, NEW c, NEW thread \in Tids, Callable(s, c, thread)
  PROVE  Contract(s, c, thread, receive(s, c, thread))
<1> DEFINE r == receive(s, c, thread)
<1>0. /\ s.thread \in Tids \cup {NoThread}
      /\ s.st \in Variants
      /\ s.msg \in Nat \cup {NoMsg}
      /\ c \in [Tids -> Contexts]
      /\ SYSCALL_ERROR_RECV_BLOCKING \in Codes \ {Pending}
  BY SMT DEF Callable, Cells, Codes, Pending, SYSCALL_ERROR_RECV_BLOCKING
<1>1. CASE s.st = "Empty"
  <2>1. r = Outcome(Receiving(thread, NoThread), c, NoThread, NoThread)
    BY <1>1 DEF receive
  <2>2. s.thread = NoThread
    BY <1>1 DEF Callable, CellOK
  <2>3. /\ Receiving(thread, NoThread) \in Cells(Tids, Nat)
        /\ CellOK(Receiving(thread, NoThread))
        /\ Receiving(thread, NoThread).thread = thread
    BY SMT DEF Receiving, Cell, Cells, Variants, CellOK, NoMsg, NoThread, Tids
  <2> HIDE DEF r
  <2>4. Contract(s, c, thread, r)
    BY <2>1, <2>2, <2>3 DEF Callable, Contract, Outcome
  <2> QED  BY <2>4 DEF r
<1>2. CASE s.st = "Sending"
  <2> DEFINE c1 == return_message(c, thread, s.msg)
             c2 == return_error(c1, s.thread, 0)
  <2>1. r = Outcome(Empty, c2, thread, s.thread)
    BY <1>2 DEF receive
  <2>2. s.msg \in Nat
    BY <1>0, <1>2 DEF Callable, CellOK
  <2>3. /\ c1 \in [Tids -> Contexts]
        /\ \A u \in Tids \ {thread} : c1[u] = c[u]
        /\ c1[thread].rax = 0
    <3>1. c1[thread] = [rax |-> 0, data |-> s.msg]
      BY <1>0, <2>2, ReturnMessage, SMT
    <3> QED  BY <1>0, <2>2, <3>1, ReturnMessage, SMT
  <2>4. /\ c2 \in [Tids -> Contexts]
        /\ \A u \in Tids \ {s.thread} : c2[u] = c1[u]
        /\ s.thread # NoThread => c2[s.thread].rax = 0
    <3> HIDE DEF c1
    <3> QED  BY <1>0, <2>3, ReturnError, ZenonT(30) DEF Codes
  <2>5. Empty \in Cells(Tids, Nat) /\ CellOK(Empty) /\ Empty.thread = NoThread
    BY DEF Empty, Cell, Cells, Variants, CellOK, NoMsg, NoThread
  <2> HIDE DEF r, c1, c2
  <2>6. Contract(s, c, thread, r)
    BY <1>0, <2>1, <2>3, <2>4, <2>5, SMT DEF Callable, Contract, Outcome, Pending, NoThread, Tids
  <2> QED  BY <2>6 DEF r
<1>3. CASE s.st = "Receiving"
  BY <1>0, <1>3, RefuseContract DEF receive
<1>4. CASE s.st = "SendReceiving"
  <2> DEFINE c1 == return_message(c, thread, s.msg)
             s1 == Receiving(s.thread, thread)
  <2>1. r = Outcome(s1, c1, thread, NoThread)
    BY <1>4 DEF receive
  <2>2. s.msg \in Nat /\ s.thread \in Tids
    BY <1>0, <1>4 DEF Callable, CellOK
  <2>3. /\ c1 \in [Tids -> Contexts]
        /\ \A u \in Tids \ {thread} : c1[u] = c[u]
        /\ c1[thread].rax = 0
    <3>1. c1[thread] = [rax |-> 0, data |-> s.msg]
      BY <1>0, <2>2, ReturnMessage, SMT
    <3> QED  BY <1>0, <2>2, <3>1, ReturnMessage, SMT
  <2>4. s1 \in Cells(Tids, Nat) /\ CellOK(s1) /\ s1.thread = s.thread
    BY <2>2, SMT DEF Receiving, Cell, Cells, Variants, CellOK, NoMsg, NoThread, Tids
  <2> HIDE DEF r, c1, s1
  <2>5. Contract(s, c, thread, r)
    BY <1>0, <2>1, <2>2, <2>3, <2>4, SMT DEF Callable, Contract, Outcome, Pending, NoThread, Tids
  <2> QED  BY <2>5 DEF r
<1> QED  BY <1>0, <1>1, <1>2, <1>3, <1>4 DEF Variants

\* Socket::send_receive satisfies the contract.
LEMMA SendReceiveContract ==
  ASSUME NEW s, NEW c, NEW thread \in Tids, NEW m \in Nat, Callable(s, c, thread)
  PROVE  Contract(s, c, thread, send_receive(s, c, thread, m))
<1> DEFINE r == send_receive(s, c, thread, m)
<1>0. /\ s.thread \in Tids \cup {NoThread}
      /\ s.st \in Variants
      /\ c \in [Tids -> Contexts]
      /\ {SYSCALL_ERROR_SEND_BLOCKING, SYSCALL_ERROR_RECV_BLOCKING} \subseteq Codes \ {Pending}
  BY SMT DEF Callable, Cells, Codes, Pending, SYSCALL_ERROR_SEND_BLOCKING,
         SYSCALL_ERROR_RECV_BLOCKING
<1>1. CASE s.st = "Empty"
  <2> DEFINE s1 == SendReceiving(thread, m)
  <2>1. r = Outcome(s1, c, NoThread, NoThread)
    BY <1>1 DEF send_receive
  <2>2. s.thread = NoThread
    BY <1>1 DEF Callable, CellOK
  <2>3. s1 \in Cells(Tids, Nat) /\ CellOK(s1) /\ s1.thread = thread
    BY SMT DEF SendReceiving, Cell, Cells, Variants, CellOK, NoMsg, NoThread, Tids
  <2> HIDE DEF r, s1
  <2>4. Contract(s, c, thread, r)
    BY <2>1, <2>2, <2>3 DEF Callable, Contract, Outcome
  <2> QED  BY <2>4 DEF r
<1>2. CASE s.st \in {"Sending", "SendReceiving"}
  BY <1>0, <1>2, RefuseContract DEF send_receive
<1>3. CASE s.st = "Receiving" /\ WrongSender(s, thread)
  BY <1>0, <1>3, RefuseContract DEF send_receive
<1>4. CASE s.st = "Receiving" /\ ~WrongSender(s, thread)
  <2> DEFINE c1 == return_message(c, s.thread, m)
             s1 == Receiving(thread, s.thread)
  <2>1. r = Outcome(s1, c1, s.thread, NoThread)
    BY <1>4 DEF send_receive
  <2>2. s.thread \in Tids
    BY <1>0, <1>4 DEF Callable, CellOK
  <2>3. /\ c1 \in [Tids -> Contexts]
        /\ \A u \in Tids \ {s.thread} : c1[u] = c[u]
        /\ c1[s.thread].rax = 0
    <3>1. c1[s.thread] = [rax |-> 0, data |-> m]
      BY <1>0, <2>2, ReturnMessage, SMT
    <3> QED  BY <1>0, <2>2, <3>1, ReturnMessage, SMT
  <2>4. s1 \in Cells(Tids, Nat) /\ CellOK(s1) /\ s1.thread = thread
    BY <2>2, SMT DEF Receiving, Cell, Cells, Variants, CellOK, NoMsg, NoThread, Tids
  <2> HIDE DEF r, c1, s1
  <2>5. Contract(s, c, thread, r)
    BY <1>0, <2>1, <2>2, <2>3, <2>4, SMT DEF Callable, Contract, Outcome, Pending, NoThread, Tids
  <2> QED  BY <2>5 DEF r
<1> QED  BY <1>0, <1>1, <1>2, <1>3, <1>4 DEF Variants

\* Only the thread a restricted cell waits for changes it.
LEMMA RestrictedCell ==
  ASSUME NEW s, NEW c, NEW t, NEW m, CellOK(s), s.only # NoThread
  PROVE  /\ receive(s, c, t).sock = s
         /\ send_message(s, c, t, m).sock # s => t = s.only
         /\ send_receive(s, c, t, m).sock # s => t = s.only
<1>1. s.st = "Receiving"
  BY DEF CellOK
<1>2. receive(s, c, t).sock = s
  BY <1>1 DEF receive, Refuse, Outcome
<1>3. CASE WrongSender(s, t)
  BY <1>1, <1>2, <1>3 DEF send_message, send_receive, Refuse, Outcome
<1>4. CASE ~WrongSender(s, t)
  BY <1>2, <1>4 DEF WrongSender
<1> QED  BY <1>3, <1>4

\* A cell that holds a message refuses another one.
LEMMA FullCellRefuses ==
  ASSUME NEW s, NEW c, NEW t, NEW m, CellOK(s), s.st \in Variants, s.msg # NoMsg
  PROVE  send_message(s, c, t, m).sock = s /\ send_receive(s, c, t, m).sock = s
<1>1. s.st \in {"Sending", "SendReceiving"}
  BY DEF CellOK
<1> QED  BY <1>1 DEF send_message, send_receive, Refuse, Outcome

\* A receive takes the message into the receiver's registers and tells the
\* sender, or keeps it waiting for this receiver's reply.
LEMMA FullCellReceive ==
  ASSUME NEW s, NEW c \in [Tids -> Contexts], NEW t \in Tids, CellOK(s),
         s.st \in Variants, s.msg # NoMsg, s.thread \in Tids \cup {NoThread}, s.thread # t
  PROVE  /\ receive(s, c, t).ctx[t] = [rax |-> 0, data |-> s.msg]
         /\ s.st = "Sending" /\ s.thread # NoThread =>
              receive(s, c, t).ctx[s.thread].rax = 0
         /\ s.st = "SendReceiving" => receive(s, c, t).sock = Receiving(s.thread, t)
<1> DEFINE c1 == return_message(c, t, s.msg)
<1>1. s.st \in {"Sending", "SendReceiving"}
  BY DEF CellOK
<1>2. /\ DOMAIN c1 = Tids /\ c1[t] = [rax |-> 0, data |-> s.msg]
      /\ \A u \in Tids \ {t} : c1[u] = c[u]
  BY DEF return_message
<1>3. CASE s.st = "Sending"
  <2>1. receive(s, c, t).ctx = return_error(c1, s.thread, 0)
    BY <1>3 DEF receive, Outcome
  <2> HIDE DEF c1
  <2>2. return_error(c1, s.thread, 0)[t] = c1[t]
    BY <1>2 DEF return_error
  <2>3. s.thread # NoThread => return_error(c1, s.thread, 0)[s.thread].rax = 0
    <3>1. s.thread # NoThread => c1[s.thread] \in Contexts /\ s.thread \in DOMAIN c1
      BY <1>2
    <3> QED  BY <3>1 DEF return_error, Contexts
  <2> QED  BY <1>2, <1>3, <2>1, <2>2, <2>3
<1>4. CASE s.st = "SendReceiving"
  BY <1>2, <1>4 DEF receive, Outcome
<1> QED  BY <1>1, <1>3, <1>4

\* The caller's context while an operation runs: no result, so the operation
\* may be called; an unknown handle gives it a result and nothing else.
LEMMA SetContext ==
  ASSUME CoreInv, running \in threads, NEW m \in Nat \cup {NoMsg}
  PROVE  /\ set_context(m) \in [Tids -> Contexts]
         /\ \A t \in Tids \ {running} : set_context(m)[t] = ctx[t]
         /\ \A k \in SocketIds : Callable(sock[k], set_context(m), running)
         /\ invalid_handle(set_context(m)) => CoreInv'
<1> DEFINE c == set_context(m)
<1>1. /\ ctx \in [Tids -> Contexts] /\ running \in Tids /\ running # NoThread
      /\ running \notin Blocked
  BY InvFacts DEF CoreInv, TypeOK
<1>2. /\ c \in [Tids -> Contexts]
      /\ c[running].rax = Pending
      /\ \A t \in Tids \ {running} : c[t] = ctx[t]
  BY <1>1 DEF set_context, Contexts, Codes
<1> HIDE DEF c
<1>3. ASSUME NEW k \in SocketIds
      PROVE  Callable(sock[k], c, running)
  <2>1. sock[k].thread # NoThread =>
          /\ sock[k].thread \in Blocked /\ sock[k].thread \in threads
          /\ sock[k].thread \in Tids /\ sock[k].thread # running
    BY <1>1, InvFacts DEF Blocked
  <2>2. sock[k].thread # NoThread => c[sock[k].thread].rax = Pending
    BY <1>2, <2>1 DEF CoreInv, ResultIffReleased
  <2>3. sock[k] \in Cells(Tids, Nat) /\ CellOK(sock[k])
    BY DEF CoreInv, TypeOK
  <2> QED  BY <1>1, <1>2, <2>1, <2>2, <2>3 DEF Callable
<1>4. ASSUME invalid_handle(c)
      PROVE  CoreInv'
  <2>1. /\ UNCHANGED <<queue, running, threads, counter, sock, pt, cr3, tables, ist, cpu>>
        /\ ctx' \in [Tids -> Contexts]
        /\ ctx'[running].rax # Pending
        /\ \A t \in Tids \ {running} : ctx'[t] = ctx[t]
    BY <1>1, <1>2, <1>4, SMT
    DEF invalid_handle, return_error, SYSCALL_ERROR_INVALID_HANDLE, Contexts, Codes, Pending
  <2>2. Blocked' = Blocked /\ UserThreads' = UserThreads
    BY <2>1 DEF Blocked, UserThreads
  <2>3. ResultIffReleased'
    BY <1>1, <2>1, <2>2, InvFacts DEF CoreInv, ResultIffReleased
  <2> QED
    BY <2>1, <2>2, <2>3
    DEF CoreInv, TypeOK, EveryThreadHeldOnce, LaunchNeverNull, OwnInterruptStack,
        OwnAddressSpace, ThreadsOK
<1> QED  BY <1>2, <1>3, <1>4 DEF c

\* An IPC system call is given an unknown handle, or is a rendezvous with the
\* outcome of an operation that satisfies the contract.
LEMMA IpcStep ==
  ASSUME CoreInv, running \in threads, NEW h \in Nat, NEW m \in Nat,
         sys_receive(h) \/ sys_send(h, m) \/ sys_send_receive(h, m)
  PROVE  \/ \E d \in Nat \cup {NoMsg} : invalid_handle(set_context(d))
         \/ \E k \in SocketIds, c \in [Tids -> Contexts] : \E r :
              /\ k = get_sockets(running, h)
              /\ \A t \in Tids \ {running} : c[t] = ctx[t]
              /\ Contract(sock[k], c, running, r)
              /\ rendezvous(k, r)
<1> DEFINE k == get_sockets(running, h)
<1>1. k \in SocketIds \cup {NoSocket}
  BY SMT DEF get_sockets, SocketIds, UserSockets
<1>2. running \in Tids /\ k = get_sockets(running, h)
  BY InvFacts
<1> HIDE DEF k
<1>3. CASE sys_receive(h)
  <2> DEFINE c == set_context(NoMsg)
  <2>1. CASE k = NoSocket /\ invalid_handle(c)
    BY <2>1
  <2>2. CASE k # NoSocket /\ rendezvous(k, receive(sock[k], c, running))
    <3>1. /\ c \in [Tids -> Contexts] /\ Callable(sock[k], c, running)
          /\ \A t \in Tids \ {running} : c[t] = ctx[t]
      BY <1>1, <2>2, SetContext
    <3> HIDE DEF c
    <3>2. Contract(sock[k], c, running, receive(sock[k], c, running))
      BY <1>2, <3>1, ReceiveContract
    <3> QED  BY <1>1, <1>2, <2>2, <3>1, <3>2
  <2> QED  BY <1>3, <2>1, <2>2 DEF sys_receive, k
<1>4. CASE sys_send(h, m) \/ sys_send_receive(h, m)
  <2> DEFINE c == set_context(m)
  <2>1. CASE k = NoSocket /\ invalid_handle(c)
    BY <2>1
  <2>2. ASSUME k # NoSocket
        PROVE  /\ c \in [Tids -> Contexts] /\ Callable(sock[k], c, running)
               /\ \A t \in Tids \ {running} : c[t] = ctx[t]
    BY <1>1, <2>2, SetContext
  <2> HIDE DEF c
  <2>3. CASE k # NoSocket /\ rendezvous(k, send_message(sock[k], c, running, m))
    <3>1. Contract(sock[k], c, running, send_message(sock[k], c, running, m))
      BY <2>2, <2>3, SendMessageContract
    <3> QED  BY <1>1, <1>2, <2>2, <2>3, <3>1
  <2>4. CASE k # NoSocket /\ rendezvous(k, send_receive(sock[k], c, running, m))
    <3>1. Contract(sock[k], c, running, send_receive(sock[k], c, running, m))
      BY <1>2, <2>2, <2>4, SendReceiveContract
    <3> QED  BY <1>1, <1>2, <2>2, <2>4, <3>1
  <2> QED  BY <1>4, <2>1, <2>3, <2>4 DEF sys_send, sys_send_receive, k, c
<1> QED  BY <1>3, <1>4

\* The three IPC system calls keep the invariant.
LEMMA IpcInv ==
  ASSUME CoreInv, running \in threads \ {Idle}, NEW h \in Nat, NEW m \in Nat,
         sys_receive(h) \/ sys_send(h, m) \/ sys_send_receive(h, m)
  PROVE  CoreInv'
<1>1. CASE \E d \in Nat \cup {NoMsg} : invalid_handle(set_context(d))
  BY <1>1, SetContext
<1>2. CASE \E k \in SocketIds, c \in [Tids -> Contexts] : \E r :
              /\ \A t \in Tids \ {running} : c[t] = ctx[t]
              /\ Contract(sock[k], c, running, r)
              /\ rendezvous(k, r)
  BY <1>2, RendezvousInv
<1> QED  BY <1>1, <1>2, IpcStep


-----------------------------------------------------------------------------
\* A timer tick, or a yield, keeps the invariant.
LEMMA SwitchInv ==
  ASSUME CoreInv, schedule(queue, running),
         UNCHANGED <<threads, counter, sock, ctx, tables>>, cpu' = "on"
  PROVE  CoreInv'
<1>1. /\ queue' \in Seq(Tids) /\ running' \in Tids /\ IsInjective(queue')
      /\ running' \notin Range(queue')
      /\ Range(queue') \cup {running'} = Range(queue) \cup ({running} \ {NoThread})
      /\ ist' = running'
      /\ pt' \in [Tids -> Tables] /\ cr3' \in Tables \ {NoTable}
      /\ \A t \in UserThreads : pt'[t] = UserTable
      /\ running' \in UserThreads => cr3' = UserTable
  BY InvFacts, ScheduleStep
<1>2. Blocked' = Blocked /\ UserThreads' = UserThreads
  BY DEF Blocked, UserThreads
<1>3. TypeOK'
  BY <1>1 DEF CoreInv, TypeOK
<1>4. EveryThreadHeldOnce'
  <2>1. \A j, i \in SocketIds :
          sock'[j].thread = sock'[i].thread /\ j # i => sock'[j].thread = NoThread
    BY DEF CoreInv, EveryThreadHeldOnce
  <2>2. running' # NoThread
    BY <1>1, InvFacts
  <2>3. /\ threads' = Range(queue') \cup Blocked' \cup {running'}
        /\ Range(queue') \cap Blocked' = {}
        /\ running' \notin Range(queue') \cup Blocked'
    BY <1>1, <1>2, InvFacts, SMT
  <2> QED  BY <1>1, <2>1, <2>2, <2>3 DEF EveryThreadHeldOnce
<1>5. ThreadsOK'
  BY <1>1, <1>2 DEF CoreInv, ThreadsOK
<1>6. LaunchNeverNull' /\ OwnInterruptStack' /\ OwnAddressSpace' /\ ResultIffReleased'
  BY <1>1, <1>2
  DEF CoreInv, LaunchNeverNull, OwnInterruptStack, OwnAddressSpace, ResultIffReleased
<1> QED  BY <1>3, <1>4, <1>5, <1>6 DEF CoreInv

\* A key keeps the invariant, whoever it interrupts.
LEMMA KeyboardInv ==
  ASSUME CoreInv, cpu = "on", NEW key \in Msgs, keyboard_handler_inner(key)
  PROVE  CoreInv'
<1> DEFINE s == sock["keyboard"]
           r == send_message(s, ctx, NoThread, key)
           q2 == schedule_some(queue, r.thread2)
           q1 == schedule_some(q2, r.thread1)
<1>1. /\ sock' = [sock EXCEPT !["keyboard"] = r.sock]
      /\ ctx' = r.ctx
      /\ \/ /\ r.thread1 = NoThread
            /\ queue' = q1
            /\ UNCHANGED <<running, pt, cr3, ist>>
         \/ /\ r.thread1 # NoThread
            /\ schedule(q1, running)
      /\ UNCHANGED <<threads, counter, tables, cpu>>
  BY DEF keyboard_handler_inner
<1>2. "keyboard" \in SocketIds /\ key \in Nat /\ NoThread \notin Blocked
  BY MsgsAssumption DEF SocketIds, Blocked
<1>3. Callable(s, ctx, NoThread)
  <2>1. s.thread # NoThread => s.thread \in Blocked /\ s.thread \in threads
    BY <1>2, InvFacts DEF Blocked
  <2> QED  BY <1>2, <2>1 DEF CoreInv, TypeOK, ResultIffReleased, Callable
<1>4. Contract(s, ctx, NoThread, r)
  BY <1>2, <1>3, SendMessageContract
<1> HIDE DEF r
<1>5. /\ {r.thread1, r.thread2, r.sock.thread} \ {NoThread} = {s.thread} \ {NoThread}
      /\ r.thread1 # NoThread => r.thread1 # r.thread2 /\ r.thread1 # r.sock.thread
      /\ r.thread2 # NoThread => r.thread2 # r.sock.thread
      /\ s.thread \in Blocked \cup {NoThread}
  BY <1>2, <1>4 DEF Contract, Blocked
<1>6. /\ sock' \in [SocketIds -> Cells(Tids, Nat)]
      /\ \A j \in SocketIds : CellOK(sock'[j])
      /\ ctx' \in [Tids -> Contexts]
      /\ Blocked' = (Blocked \ {s.thread}) \cup ({r.sock.thread} \ {NoThread})
      /\ \A i, j \in SocketIds :
           sock'[i].thread = sock'[j].thread /\ i # j => sock'[i].thread = NoThread
      /\ ResultIffReleased'
  <2>1. ctx \in [Tids -> Contexts]
    BY DEF CoreInv, TypeOK
  <2> QED  BY <1>1, <1>2, <1>4, <2>1, CellUpdate
<1> HIDE DEF s
<1>7. /\ q2 \in Seq(Tids) /\ IsInjective(q2)
      /\ Range(q2) = Range(queue) \cup ({r.thread2} \ {NoThread})
  <2>1. r.thread2 \in Tids \cup {NoThread} /\ r.thread2 \notin Range(queue)
    BY <1>5, InvFacts
  <2> QED  BY <2>1, InvFacts, ScheduleSome
<1> HIDE DEF q2
<1>8. /\ q1 \in Seq(Tids) /\ IsInjective(q1)
      /\ Range(q1) = Range(queue) \cup ({r.thread1, r.thread2} \ {NoThread})
  <2>1. r.thread1 \in Tids \cup {NoThread} /\ r.thread1 \notin Range(q2)
    BY <1>5, <1>7, InvFacts
  <2> QED  BY <1>7, <2>1, ScheduleSome, SMT
<1> HIDE DEF q1
<1>9. /\ threads = Range(q1) \cup Blocked' \cup ({running} \ {NoThread})
      /\ Range(q1) \cap Blocked' = {}
      /\ running \notin Range(q1) \cup Blocked'
      /\ Idle \notin Blocked'
  <2>1. {r.thread1, r.thread2} \ {NoThread} = ({s.thread} \ {NoThread}) \ {r.sock.thread}
    BY <1>5
  <2>2. {r.sock.thread} \ {NoThread} \subseteq {s.thread} \cap Blocked
    BY <1>5
  <2>3. Idle \notin Blocked
    BY DEF CoreInv, ThreadsOK
  <2>4. CASE r.sock.thread = NoThread
    <3>1. /\ Range(q1) = Range(queue) \cup ({s.thread} \ {NoThread})
          /\ Blocked' = Blocked \ {s.thread}
      BY <1>6, <1>8, <2>1, <2>4
    <3> QED  BY <1>5, <2>3, <3>1, InvFacts, SMT
  <2>5. CASE r.sock.thread # NoThread
    <3>1. Range(q1) = Range(queue) /\ Blocked' = Blocked
      BY <1>6, <1>8, <2>1, <2>2, <2>5
    <3> QED  BY <2>3, <3>1, InvFacts
  <2> QED  BY <2>4, <2>5
<1>10. UserThreads' = UserThreads
  BY <1>1 DEF UserThreads
<1>11. CASE r.thread1 = NoThread
  <2>1. queue' = q1 /\ UNCHANGED <<running, pt, cr3, ist>>
    BY <1>1, <1>11
  <2>2. TypeOK'
    BY <1>1, <1>6, <1>8, <2>1 DEF CoreInv, TypeOK
  <2>3. EveryThreadHeldOnce'
    BY <1>1, <1>6, <1>8, <1>9, <2>1 DEF EveryThreadHeldOnce
  <2>4. ThreadsOK'
    BY <1>1, <1>9, <1>10, <2>1 DEF CoreInv, ThreadsOK
  <2> QED
    BY <1>1, <1>6, <1>10, <2>1, <2>2, <2>3, <2>4
    DEF CoreInv, LaunchNeverNull, OwnInterruptStack, OwnAddressSpace
<1>12. CASE r.thread1 # NoThread
  <2>1. schedule(q1, running)
    BY <1>1, <1>12
  <2>2. /\ queue' \in Seq(Tids) /\ running' \in Tids /\ IsInjective(queue')
        /\ running' \notin Range(queue')
        /\ Range(queue') \cup {running'} = Range(q1) \cup ({running} \ {NoThread})
        /\ ist' = running'
        /\ pt' \in [Tids -> Tables] /\ cr3' \in Tables \ {NoTable}
        /\ \A t \in UserThreads : pt'[t] = UserTable
        /\ running' \in UserThreads => cr3' = UserTable
    <3>1. Range(q1) \cup ({running} \ {NoThread}) # {} /\ running \notin Range(q1)
      BY <1>8, <1>9, <1>12
    <3> QED  BY <1>8, <2>1, <3>1, InvFacts, ScheduleStep
  <2>3. TypeOK'
    BY <1>1, <1>6, <2>2 DEF CoreInv, TypeOK
  <2>4. EveryThreadHeldOnce'
    <3>1. running' # NoThread
      BY <2>2, InvFacts
    <3>2. /\ threads' = Range(queue') \cup Blocked' \cup {running'}
          /\ Range(queue') \cap Blocked' = {}
          /\ running' \notin Range(queue') \cup Blocked'
      BY <1>1, <1>9, <2>2
    <3> QED  BY <1>6, <2>2, <3>1, <3>2 DEF EveryThreadHeldOnce
  <2>5. ThreadsOK'
    BY <1>1, <1>9, <1>10, <2>2 DEF CoreInv, ThreadsOK
  <2> QED
    BY <1>1, <1>6, <1>10, <2>2, <2>3, <2>4, <2>5
    DEF CoreInv, LaunchNeverNull, OwnInterruptStack, OwnAddressSpace
<1> QED  BY <1>11, <1>12

\* fork_current_thread, whether it finds a stack or not, keeps the invariant.
LEMMA ForkInv ==
  ASSUME CoreInv, running \in UserThreads, fork_current_thread
  PROVE  CoreInv'
<1>1. /\ running \in Tids /\ running \in threads /\ running # NoThread
      /\ pt[running] = UserTable /\ running \notin Blocked
      /\ ctx \in [Tids -> Contexts] /\ counter \in Nat
  BY InvFacts, SMT DEF UserThreads, CoreInv, TypeOK, Tids
<1>2. CASE fork_no_stack
  <2>1. /\ UNCHANGED <<queue, running, threads, sock, pt, cr3, tables, ist, cpu>>
        /\ counter' = counter + 1 /\ counter' \in Tids
        /\ ctx' \in [Tids -> Contexts]
        /\ ctx'[running].rax # Pending
        /\ \A t \in Tids \ {running} : ctx'[t] = ctx[t]
    BY <1>1, <1>2, SMT
    DEF fork_no_stack, return_error, SYSCALL_ERROR_MEMALLOC, Contexts, Codes, Pending
  <2>2. Blocked' = Blocked /\ UserThreads' = UserThreads
    BY <2>1 DEF Blocked, UserThreads
  <2>3. ResultIffReleased'
    BY <1>1, <2>1, <2>2, InvFacts DEF CoreInv, ResultIffReleased
  <2>4. \A t \in threads' : t <= counter'
    BY <1>1, <2>1, InvFacts, SMT DEF CoreInv, ThreadsOK, Tids
  <2> QED
    BY <2>1, <2>2, <2>3, <2>4
    DEF CoreInv, TypeOK, EveryThreadHeldOnce, LaunchNeverNull, OwnInterruptStack,
        OwnAddressSpace, ThreadsOK
<1>3. CASE fork_ok
  <2> DEFINE tid == counter + 2
  <2>1. /\ tid \in Tids /\ counter' = tid
        /\ threads' = threads \cup {tid}
        /\ queue' = Append(queue, tid)
        /\ ctx' = [ctx EXCEPT ![tid] = [rax |-> 0, data |-> 0],
                              ![running] = [rax |-> 0, data |-> tid]]
        /\ pt' = [pt EXCEPT ![tid] = pt[running]]
        /\ UNCHANGED <<running, sock, cr3, tables, ist, cpu>>
    BY <1>3 DEF fork_ok
  <2>2. tid \notin threads /\ \A t \in threads' : t <= counter'
    BY <1>1, <2>1, InvFacts, SMT DEF CoreInv, ThreadsOK, Tids
  <2>3. tid \in Nat /\ tid # NoThread
    BY <2>1, SMT DEF Tids, NoThread
  <2> HIDE DEF tid
  <2>4. /\ ctx' \in [Tids -> Contexts]
        /\ ctx'[running].rax # Pending /\ ctx'[tid].rax # Pending
        /\ \A t \in Tids \ {running, tid} : ctx'[t] = ctx[t]
    BY <1>1, <2>1, <2>2, <2>3, SMT DEF Contexts, Codes, Pending
  <2>5. /\ pt' \in [Tids -> Tables]
        /\ pt'[tid] = UserTable
        /\ \A t \in Tids \ {tid} : pt'[t] = pt[t]
    BY <1>1, <2>1, InvFacts
  <2>6. Blocked' = Blocked /\ UserThreads' \subseteq UserThreads \cup {tid}
    BY <2>1 DEF Blocked, UserThreads
  <2>7. tid \notin Blocked /\ tid \notin Range(queue) /\ tid # running
    BY <1>1, <2>2, InvFacts
  <2>8. /\ queue' \in Seq(Tids) /\ IsInjective(queue')
        /\ Range(queue') = Range(queue) \cup {tid}
    BY <2>1, <2>7, InvFacts, PushBack, SMT
  <2>9. TypeOK'
    BY <2>1, <2>4, <2>5, <2>8 DEF CoreInv, TypeOK
  <2>10. EveryThreadHeldOnce'
    BY <2>1, <2>6, <2>7, <2>8 DEF CoreInv, EveryThreadHeldOnce
  <2>11. ResultIffReleased'
    BY <1>1, <2>1, <2>4, <2>6, <2>7, InvFacts, ZenonT(30) DEF CoreInv, ResultIffReleased
  <2>12. ThreadsOK'
    BY <2>1, <2>2, <2>5, <2>6, InvFacts DEF CoreInv, ThreadsOK
  <2>13. OwnAddressSpace'
    BY <1>1, <2>1, <2>6, <2>7 DEF CoreInv, OwnAddressSpace
  <2> QED
    BY <2>1, <2>9, <2>10, <2>11, <2>12, <2>13 DEF CoreInv, LaunchNeverNull, OwnInterruptStack
<1> QED  BY <1>2, <1>3 DEF fork_current_thread

\* exit_current_thread keeps the invariant: the thread is in no queue and no
\* socket, so dropping it leaves nothing behind that refers to it.
LEMMA ExitInv ==
  ASSUME CoreInv, running \in UserThreads, exit_current_thread
  PROVE  CoreInv'
<1>1. /\ running' = NoThread
      /\ queue' = queue
      /\ threads' = threads \ {running}
      /\ tables' = IF UserThreads = {running} THEN tables \ {UserTable} ELSE tables
      /\ cr3' = IF UserThreads = {running} /\ cr3 = UserTable THEN KernelTable ELSE cr3
      /\ UNCHANGED <<counter, sock, ctx, pt, ist, cpu>>
  BY InvFacts DEF exit_current_thread, drop_thread, retain
<1>2. Blocked' = Blocked /\ UserThreads' = UserThreads \ {running}
  BY <1>1 DEF Blocked, UserThreads
<1>3. TypeOK'
  BY <1>1 DEF CoreInv, TypeOK, Tables, KernelTable, NoTable
<1>4. EveryThreadHeldOnce'
  <2>1. /\ threads' = Range(queue') \cup Blocked' \cup ({running'} \ {NoThread})
        /\ running' \notin Range(queue') \cup Blocked'
    BY <1>1, <1>2, InvFacts
  <2> QED  BY <1>1, <1>2, <2>1 DEF CoreInv, EveryThreadHeldOnce
<1>5. ThreadsOK'
  <2>1. running # Idle
    BY DEF UserThreads, KernelThreads
  <2> QED  BY <1>1, <1>2, <2>1 DEF CoreInv, ThreadsOK
<1>6. OwnAddressSpace'
  <2>1. running' \notin UserThreads'
    BY <1>1, <1>2, InvFacts
  <2>2. UserThreads' # {} => UserTable \in tables'
    BY <1>1, <1>2 DEF CoreInv, OwnAddressSpace
  <2> QED  BY <2>1, <2>2 DEF OwnAddressSpace
<1> QED
  BY <1>1, <1>2, <1>3, <1>4, <1>5, <1>6
  DEF CoreInv, LaunchNeverNull, OwnInterruptStack, ResultIffReleased

-----------------------------------------------------------------------------
(***************************************************************************)
(* The induction.                                                          *)
(***************************************************************************)
\* The state boot leaves satisfies the invariant.
LEMMA InitInv == Init => IInv
<1> SUFFICES ASSUME Init PROVE IInv
  OBVIOUS
<1>1. 1 \in Tids /\ 2 \in Tids /\ 3 \in Tids /\ 4 \in Tids /\ 0 \notin Tids
  BY MaxIdAssumption, SMT DEF Tids
<1>2. /\ sock \in [SocketIds -> Cells(Tids, Nat)]
      /\ \A k \in SocketIds : CellOK(sock[k]) /\ sock[k].thread = NoThread
  BY <1>1, SMT
  DEF Init, Cells, Cell, CellOK, Sending, Empty, Main, NoThread, NoMsg, Variants
<1>3. Blocked = {}
  BY <1>2 DEF Blocked
<1>4. /\ queue = <<3, 2>> /\ queue \in Seq(Tids) /\ DOMAIN queue = {1, 2}
      /\ queue[1] = 3 /\ queue[2] = 2
  BY <1>1, SMT DEF Init, Main, Listener
<1>5. IsInjective(queue) /\ Range(queue) = {2, 3}
  BY <1>4, SMT DEF IsInjective, Range
<1>6. UserThreads = {3}
  BY SMT DEF Init, UserThreads, KernelThreads, Idle, Listener, Main
<1>7. /\ pt \in [Tids -> Tables] /\ pt[3] = UserTable
      /\ cr3 = KernelTable /\ UserTable \in tables /\ tables \subseteq Tables \ {NoTable}
      /\ cr3 \in Tables \ {NoTable}
  BY <1>1, SMT DEF Init, Tables, NoTable, KernelTable, UserTable, Idle, Main
<1>8. /\ running = 1 /\ threads = {1, 2, 3} /\ counter = 4 /\ ist = 1 /\ cpu = "on"
      /\ ctx = [t \in Tids |-> [rax |-> 0, data |-> NoMsg]]
  BY DEF Init, Idle, Listener, Main
<1>9. ctx \in [Tids -> Contexts] /\ \A t \in Tids : ctx[t].rax # Pending
  BY <1>8, SMT DEF Contexts, Codes, Pending
<1>10. TypeOK
  BY <1>1, <1>2, <1>4, <1>7, <1>8, <1>9 DEF TypeOK
<1>11. EveryThreadHeldOnce
  BY <1>2, <1>3, <1>5, <1>8, SMT DEF EveryThreadHeldOnce, NoThread
<1>12. ThreadsOK
  BY <1>3, <1>6, <1>7, <1>8, SMT DEF ThreadsOK, KernelThreads, Idle, Listener
<1>13. OwnAddressSpace /\ OwnInterruptStack /\ LaunchNeverNull
  BY <1>6, <1>7, <1>8, SMT DEF OwnAddressSpace, OwnInterruptStack, LaunchNeverNull
<1>14. ResultIffReleased
  BY <1>1, <1>3, <1>8, <1>9 DEF ResultIffReleased
<1> QED  BY <1>8, <1>10, <1>11, <1>12, <1>13, <1>14 DEF IInv, CoreInv, Listener

\* Every system call and every interrupt keeps the core invariant.
LEMMA CoreStep == CoreInv /\ Next => CoreInv'
<1> SUFFICES ASSUME CoreInv, Next PROVE CoreInv'
  OBVIOUS
<1>1. CASE Syscall
  <2>1. CASE running = Listener /\ sys_receive(0)
    <3>1. running \in threads \ {Idle}
      BY <2>1, InvFacts, SMT DEF Listener, Idle, NoThread
    <3> QED  BY <2>1, <3>1, IpcInv
  <2>2. CASE running \in UserThreads /\ \E h \in UserHandles : sys_receive(h)
    <3>1. running \in threads \ {Idle}
      BY <2>2 DEF UserThreads, KernelThreads
    <3> QED  BY <2>2, <3>1, IpcInv, HandlesAssumption
  <2>3. CASE /\ running \in UserThreads
             /\ \E h \in UserHandles, m \in Msgs : sys_send(h, m) \/ sys_send_receive(h, m)
    <3>1. running \in threads \ {Idle}
      BY <2>3 DEF UserThreads, KernelThreads
    <3> QED  BY <2>3, <3>1, IpcInv, HandlesAssumption, MsgsAssumption
  <2>4. CASE running \in UserThreads /\ sys_yield
    <3>1. running' # NoThread
      BY <2>4, InvFacts, ScheduleStep DEF sys_yield
    <3> QED  BY <2>4, <3>1, SwitchInv DEF sys_yield, launch_thread
  <2>5. CASE running \in UserThreads /\ fork_current_thread
    BY <2>5, ForkInv
  <2>6. CASE running \in UserThreads /\ exit_current_thread
    BY <2>6, ExitInv
  <2> QED  BY <1>1, <2>1, <2>2, <2>3, <2>4, <2>5, <2>6 DEF Syscall
<1>2. CASE timer_handler
  BY <1>2, SwitchInv DEF timer_handler, Next
<1>3. CASE \E key \in Msgs : keyboard_handler_inner(key)
  BY <1>3, KeyboardInv DEF Next
<1> QED  BY <1>1, <1>2, <1>3 DEF Next, Interrupt

\* A step that changes nothing keeps the core invariant.
LEMMA CoreStutter == CoreInv /\ UNCHANGED vars => CoreInv'
<1> SUFFICES ASSUME CoreInv, UNCHANGED vars PROVE CoreInv'
  OBVIOUS
<1>1. Blocked' = Blocked /\ UserThreads' = UserThreads
  BY DEF vars, Blocked, UserThreads
<1>2. TypeOK'
  BY DEF vars, CoreInv, TypeOK
<1>3. EveryThreadHeldOnce' /\ ThreadsOK'
  BY <1>1 DEF vars, CoreInv, EveryThreadHeldOnce, ThreadsOK
<1>4. LaunchNeverNull' /\ OwnInterruptStack' /\ OwnAddressSpace' /\ ResultIffReleased'
  BY <1>1
  DEF vars, CoreInv, LaunchNeverNull, OwnInterruptStack, OwnAddressSpace, ResultIffReleased
<1> QED  BY <1>2, <1>3, <1>4 DEF CoreInv

\* Only a user thread that exits ceases to exist.
LEMMA KernelThreadsStay == [Next]_vars => (Listener \in threads => Listener \in threads')
<1> SUFFICES ASSUME Next, Listener \in threads PROVE Listener \in threads'
  BY DEF vars
<1>1. ASSUME NEW h, NEW m, sys_receive(h) \/ sys_send(h, m) \/ sys_send_receive(h, m)
      PROVE  UNCHANGED threads
  BY <1>1 DEF sys_receive, sys_send, sys_send_receive, rendezvous, invalid_handle
<1>2. sys_yield \/ timer_handler => UNCHANGED threads
  BY DEF sys_yield, timer_handler
<1>3. fork_current_thread => Listener \in threads'
  BY DEF fork_current_thread, fork_ok, fork_no_stack
<1>4. running \in UserThreads /\ exit_current_thread => Listener \in threads'
  BY DEF exit_current_thread, drop_thread, UserThreads, KernelThreads
<1>5. \A key : keyboard_handler_inner(key) => UNCHANGED threads
  BY DEF keyboard_handler_inner
<1> QED  BY <1>1, <1>2, <1>3, <1>4, <1>5 DEF Next, Syscall, Interrupt

\* Every system call and every interrupt keeps the invariant.
LEMMA NextInv == IInv /\ [Next]_vars => IInv'
BY CoreStep, CoreStutter, KernelThreadsStay DEF IInv

\* The conjunction of all safety invariants holds in every reachable state.
THEOREM Inductive == Spec => []IInv
<1> QED  BY InitInv, NextInv, PTL DEF Spec

\* Every variable keeps its type and every socket cell is well formed.
THEOREM TypeCorrect == Spec => []TypeOK
<1>1. IInv => TypeOK
  BY DEF IInv, CoreInv
<1> QED  BY <1>1, Inductive, PTL

\* No system call, context switch or interrupt loses a Thread object or makes
\* one reachable twice.
THEOREM ThreadsHeldOnce == Spec => []EveryThreadHeldOnce
<1>1. IInv => EveryThreadHeldOnce
  BY DEF IInv, CoreInv
<1> QED  BY <1>1, Inductive, PTL

\* launch_thread is never given the null context.
THEOREM LaunchSafe == Spec => []LaunchNeverNull
<1>1. IInv => LaunchNeverNull
  BY DEF IInv, CoreInv
<1> QED  BY <1>1, Inductive, PTL

\* Interrupts are taken on the running thread's own kernel stack.
THEOREM InterruptStackSafe == Spec => []OwnInterruptStack
<1>1. IInv => OwnInterruptStack
  BY DEF IInv, CoreInv
<1> QED  BY <1>1, Inductive, PTL

\* A user thread runs on its own, live page table.
THEOREM AddressSpaceSafe == Spec => []OwnAddressSpace
<1>1. IInv => OwnAddressSpace
  BY DEF IInv, CoreInv
<1> QED  BY <1>1, Inductive, PTL

\* Exactly the blocked threads have no system call result.
THEOREM ResultsSafe == Spec => []ResultIffReleased
<1>1. IInv => ResultIffReleased
  BY DEF IInv, CoreInv
<1> QED  BY <1>1, Inductive, PTL

-----------------------------------------------------------------------------
(***************************************************************************)
(* The action properties: what a step may do to a request or a message     *)
(* that a socket holds.                                                    *)
(***************************************************************************)
\* Applied(k, r): cell k and the contexts change as operation outcome r says.
Applied(k, r) == sock' = [sock EXCEPT ![k] = r.sock] /\ ctx' = r.ctx

\* A step changes the sockets only by one operation on one of them: a receive,
\* a send or a send_receive of the running thread, or a send of the keyboard
\* interrupt, which has no sending thread.
LEMMA SocketStep ==
  ASSUME IInv, Next
  PROVE  \/ UNCHANGED sock
         \/ /\ running \in threads
            /\ \E k \in SocketIds, m \in Nat :
                 \/ Applied(k, receive(sock[k], set_context(NoMsg), running))
                 \/ Applied(k, send_message(sock[k], set_context(m), running, m))
                 \/ Applied(k, send_receive(sock[k], set_context(m), running, m))
         \/ \E m \in Nat : Applied("keyboard", send_message(sock["keyboard"], ctx, NoThread, m))
<1>1. \A h : get_sockets(running, h) \in SocketIds \cup {NoSocket}
  BY SMT DEF get_sockets, SocketIds, UserSockets
<1>2. ASSUME NEW h, sys_receive(h), running \in threads
      PROVE  \/ UNCHANGED sock
             \/ \E k \in SocketIds : Applied(k, receive(sock[k], set_context(NoMsg), running))
  BY <1>1, <1>2 DEF sys_receive, rendezvous, invalid_handle, Applied
<1>3. ASSUME NEW h, NEW m \in Msgs, sys_send(h, m)
      PROVE  \/ UNCHANGED sock
             \/ \E k \in SocketIds : Applied(k, send_message(sock[k], set_context(m), running, m))
  BY <1>1, <1>3 DEF sys_send, rendezvous, invalid_handle, Applied
<1>4. ASSUME NEW h, NEW m \in Msgs, sys_send_receive(h, m)
      PROVE  \/ UNCHANGED sock
             \/ \E k \in SocketIds : Applied(k, send_receive(sock[k], set_context(m), running, m))
  BY <1>1, <1>4 DEF sys_send_receive, rendezvous, invalid_handle, Applied
<1>5. Msgs \subseteq Nat /\ 0 \in Nat
  BY MsgsAssumption
<1>6. running = Listener => running \in threads
  BY DEF IInv
<1>7. running \in UserThreads => running \in threads
  BY DEF UserThreads
<1>8. sys_yield \/ fork_current_thread \/ exit_current_thread \/ timer_handler => UNCHANGED sock
  BY DEF sys_yield, fork_current_thread, fork_ok, fork_no_stack, exit_current_thread, drop_thread,
         timer_handler
<1>9. ASSUME NEW key \in Msgs, keyboard_handler_inner(key)
      PROVE  Applied("keyboard", send_message(sock["keyboard"], ctx, NoThread, key))
  BY <1>9 DEF keyboard_handler_inner, Applied
<1>10. CASE Syscall
  BY <1>2, <1>3, <1>4, <1>5, <1>6, <1>7, <1>8, <1>10 DEF Syscall
<1>11. CASE Interrupt
  BY <1>5, <1>8, <1>9, <1>11 DEF Interrupt
<1> QED  BY <1>10, <1>11 DEF Next

\* A thread waiting for a reply is answered only by the thread that took its
\* request.
THEOREM RepliesFromPeer == Spec => ReplyOnlyFromPeer
<1> DEFINE P == \A k \in SocketIds :
                  sock[k].only # NoThread /\ sock'[k] # sock[k] => running = sock[k].only
<1>1. IInv /\ [Next]_vars => [P]_vars
  <2> SUFFICES ASSUME IInv, Next, NEW k \in SocketIds, sock[k].only # NoThread,
                      sock'[k] # sock[k]
               PROVE  running = sock[k].only
    OBVIOUS
  <2>1. CellOK(sock[k]) /\ sock \in [SocketIds -> Cells(Tids, Nat)]
    BY DEF IInv, CoreInv, TypeOK
  <2>2. \A j, r : j \in SocketIds /\ Applied(j, r) => j = k /\ r.sock # sock[k]
    BY <2>1 DEF Applied
  <2>3. "keyboard" \in SocketIds
    BY DEF SocketIds
  <2>4. CASE \E m \in Nat : Applied("keyboard", send_message(sock["keyboard"], ctx, NoThread, m))
    BY <2>1, <2>2, <2>3, <2>4, RestrictedCell, SMT
  <2>5. CASE \E j \in SocketIds, m \in Nat :
               \/ Applied(j, receive(sock[j], set_context(NoMsg), running))
               \/ Applied(j, send_message(sock[j], set_context(m), running, m))
               \/ Applied(j, send_receive(sock[j], set_context(m), running, m))
    <3>1. PICK j \in SocketIds, m \in Nat :
            \/ Applied(j, receive(sock[j], set_context(NoMsg), running))
            \/ Applied(j, send_message(sock[j], set_context(m), running, m))
            \/ Applied(j, send_receive(sock[j], set_context(m), running, m))
      BY <2>5
    <3>2. j = k
      BY <2>2, <3>1
    <3>3. /\ receive(sock[k], set_context(NoMsg), running).sock = sock[k]
          /\ send_message(sock[k], set_context(m), running, m).sock # sock[k] => running = sock[k].only
          /\ send_receive(sock[k], set_context(m), running, m).sock # sock[k] => running = sock[k].only
      BY <2>1, RestrictedCell, SMT
    <3> QED  BY <2>2, <3>1, <3>2, <3>3
  <2> QED  BY <2>4, <2>5, SocketStep
<1> QED  BY <1>1, Inductive, PTL DEF Spec, ReplyOnlyFromPeer

\* A message a socket holds reaches exactly one thread, and its sender learns
\* of it.
THEOREM MessagesDelivered == Spec => AcceptedMessageDelivered
<1> DEFINE D(k) ==
             /\ ctx'[running] = [rax |-> 0, data |-> sock[k].msg]
             /\ sock[k].st = "Sending" /\ sock[k].thread # NoThread =>
                  ctx'[sock[k].thread].rax = 0
             /\ sock[k].st = "SendReceiving" =>
                  sock'[k] = Receiving(sock[k].thread, running)
<1>1. ASSUME IInv, Next, NEW k \in SocketIds, sock[k].msg # NoMsg, sock'[k] # sock[k]
      PROVE  D(k)
  <2>1. CellOK(sock[k]) /\ sock \in [SocketIds -> Cells(Tids, Nat)]
    BY <1>1 DEF IInv, CoreInv, TypeOK
  <2>2. sock[k].st \in Variants /\ sock[k].thread \in Tids \cup {NoThread}
    BY <2>1 DEF Cells
  <2>3. \A j, r : j \in SocketIds /\ Applied(j, r) => j = k /\ r.sock # sock[k]
    BY <1>1, <2>1 DEF Applied
  <2>4. "keyboard" \in SocketIds
    BY DEF SocketIds
  <2>5. running \in threads /\ Applied(k, receive(sock[k], set_context(NoMsg), running))
    <3>1. \A c, t, m : /\ send_message(sock[k], c, t, m).sock = sock[k]
                      /\ send_receive(sock[k], c, t, m).sock = sock[k]
      <4>1. CellOK(sock[k]) /\ sock[k].st \in Variants /\ sock[k].msg # NoMsg
        BY <1>1, <2>1, <2>2
      <4> QED  BY <4>1, FullCellRefuses, SMT
    <3>2. ~UNCHANGED sock
      BY <1>1
    <3>3. ~\E m \in Nat : Applied("keyboard", send_message(sock["keyboard"], ctx, NoThread, m))
      BY <2>3, <2>4, <3>1, SMT
    <3>4. PICK j \in SocketIds, m \in Nat :
            \/ Applied(j, receive(sock[j], set_context(NoMsg), running))
            \/ Applied(j, send_message(sock[j], set_context(m), running, m))
            \/ Applied(j, send_receive(sock[j], set_context(m), running, m))
      BY <1>1, <3>2, <3>3, SocketStep
    <3>5. running \in threads
      BY <1>1, <3>2, <3>3, SocketStep
    <3>6. j = k
      BY <2>3, <3>4
    <3>7. ~Applied(k, send_message(sock[k], set_context(m), running, m))
      BY <2>3, <3>1, SMT
    <3>8. ~Applied(k, send_receive(sock[k], set_context(m), running, m))
      BY <2>3, <3>1, SMT
    <3> QED  BY <3>4, <3>5, <3>6, <3>7, <3>8
  <2>6. /\ set_context(NoMsg) \in [Tids -> Contexts] /\ running \in Tids
        /\ sock[k].thread # running
    <3>1. CoreInv
      BY <1>1 DEF IInv
    <3> QED  BY <2>5, <3>1, SetContext, InvFacts DEF Blocked
  <2>7. /\ ctx' = receive(sock[k], set_context(NoMsg), running).ctx
        /\ sock'[k] = receive(sock[k], set_context(NoMsg), running).sock
    BY <2>1, <2>5 DEF Applied
  <2> DEFINE c == set_context(NoMsg)
  <2> HIDE DEF c
  <2>8. /\ receive(sock[k], c, running).ctx[running] = [rax |-> 0, data |-> sock[k].msg]
        /\ sock[k].st = "Sending" /\ sock[k].thread # NoThread =>
             receive(sock[k], c, running).ctx[sock[k].thread].rax = 0
        /\ sock[k].st = "SendReceiving" =>
             receive(sock[k], c, running).sock = Receiving(sock[k].thread, running)
    <3>1. c \in [Tids -> Contexts]
      BY <2>6 DEF c
    <3>2. CellOK(sock[k]) /\ sock[k].st \in Variants /\ sock[k].msg # NoMsg
      BY <1>1, <2>1, <2>2
    <3>3. /\ running \in Tids /\ sock[k].thread \in Tids \cup {NoThread}
          /\ sock[k].thread # running
      BY <2>2, <2>6
    <3> QED  BY <3>1, <3>2, <3>3, FullCellReceive
  <2> QED  BY <2>7, <2>8 DEF c
<1>2. IInv /\ [Next]_vars =>
        [\A k \in SocketIds : sock[k].msg # NoMsg /\ sock'[k] # sock[k] => D(k)]_vars
  BY <1>1
<1> QED  BY <1>2, Inductive, PTL DEF Spec, AcceptedMessageDelivered

\* A rendezvous that releases a thread puts it at the front of the queue, or
\* launches it because the caller blocks.
LEMMA RendezvousWakes ==
  ASSUME CoreInv, running \in threads, NEW k \in SocketIds, NEW c, NEW r,
         Contract(sock[k], c, running, r), rendezvous(k, r),
         NEW t \in Blocked, t \notin Blocked'
  PROVE  running' = t \/ (running' = running /\ Head(queue') = t)
<1> DEFINE q == schedule_some(queue, t)
<1>1. /\ sock' = [sock EXCEPT ![k] = r.sock]
      /\ {r.thread1, r.thread2, r.sock.thread} \ {NoThread} = {running, sock[k].thread} \ {NoThread}
      /\ r.thread1 # NoThread => r.thread1 # r.thread2 /\ r.thread1 # r.sock.thread
      /\ r.thread2 # NoThread => r.thread2 # r.sock.thread
  BY DEF rendezvous, Contract
<1>2. /\ t # NoThread /\ t # running /\ running # NoThread /\ t \in Tids
      /\ queue \in Seq(Tids) /\ sock \in [SocketIds -> Cells(Tids, Nat)]
  BY InvFacts DEF CoreInv, TypeOK
<1>3. t = sock[k].thread /\ t # r.sock.thread
  BY <1>1, <1>2 DEF Blocked
<1>4. wake(wake(queue, r.thread2), r.thread1) = q
  <2>1. \/ r.thread1 = t /\ r.thread2 \in {running, NoThread}
        \/ r.thread2 = t /\ r.thread1 \in {running, NoThread}
    BY <1>1, <1>2, <1>3
  <2> QED  BY <1>2, <2>1 DEF wake, schedule_some
<1>5. q # <<>> /\ Head(q) = t
  BY <1>2, PushFront, SMT DEF schedule_some, schedule_thread
<1> HIDE DEF q
<1>6. (running' = running /\ queue' = q) \/ schedule(q, NoThread)
  BY <1>4 DEF rendezvous
<1>7. schedule(q, NoThread) => running' = t
  BY <1>5 DEF schedule, update_current_thread
<1> QED  BY <1>5, <1>6, <1>7

\* A key that releases a thread runs it at once.
LEMMA KeyboardWakes ==
  ASSUME CoreInv, NEW key \in Msgs, keyboard_handler_inner(key),
         NEW t \in Blocked, t \notin Blocked'
  PROVE  running' = t \/ (running' = running /\ Head(queue') = t)
<1> DEFINE s == sock["keyboard"]
           r == send_message(s, ctx, NoThread, key)
           q == schedule_some(queue, t)
<1>1. "keyboard" \in SocketIds /\ key \in Nat /\ NoThread \notin Blocked
  BY MsgsAssumption DEF SocketIds, Blocked
<1>2. Contract(s, ctx, NoThread, r)
  <2>1. s.thread # NoThread => s.thread \in Blocked /\ s.thread \in threads
    BY <1>1, InvFacts DEF Blocked
  <2>2. Callable(s, ctx, NoThread)
    BY <1>1, <2>1 DEF CoreInv, TypeOK, ResultIffReleased, Callable
  <2> QED  BY <1>1, <2>2, SendMessageContract
<1>3. /\ sock' = [sock EXCEPT !["keyboard"] = r.sock]
      /\ \/ /\ r.thread1 = NoThread
            /\ queue' = schedule_some(schedule_some(queue, r.thread2), r.thread1)
            /\ running' = running
         \/ /\ r.thread1 # NoThread
            /\ schedule(schedule_some(schedule_some(queue, r.thread2), r.thread1), running)
  BY DEF keyboard_handler_inner
<1> HIDE DEF r
<1>4. /\ {r.thread1, r.thread2, r.sock.thread} \ {NoThread} = {s.thread} \ {NoThread}
      /\ r.thread1 # NoThread => r.thread1 # r.thread2 /\ r.thread1 # r.sock.thread
      /\ r.thread2 # NoThread => r.thread2 # r.sock.thread
  BY <1>2 DEF Contract
<1>5. /\ t # NoThread /\ t \in Tids /\ queue \in Seq(Tids) /\ running \in Tids \cup {NoThread}
      /\ sock \in [SocketIds -> Cells(Tids, Nat)]
  BY InvFacts DEF CoreInv, TypeOK
<1>6. t = s.thread /\ t # r.sock.thread
  <2>1. PICK k \in SocketIds : t = sock[k].thread
    BY DEF Blocked
  <2>2. \A j \in SocketIds : sock'[j].thread # t
    BY <1>5 DEF Blocked
  <2>3. k = "keyboard"
    BY <1>3, <1>5, <2>1, <2>2
  <2> QED  BY <1>1, <1>3, <1>5, <2>1, <2>2, <2>3
<1>7. schedule_some(schedule_some(queue, r.thread2), r.thread1) = q
  <2>1. \/ r.thread1 = t /\ r.thread2 = NoThread
        \/ r.thread2 = t /\ r.thread1 = NoThread
    BY <1>4, <1>5, <1>6
  <2> QED  BY <1>5, <2>1 DEF schedule_some
<1>8. q \in Seq(Tids) /\ q # <<>> /\ Head(q) = t
  BY <1>5, PushFront, SMT DEF schedule_some, schedule_thread
<1>9. Append(q, running) # <<>> /\ Head(Append(q, running)) = t
  <2> HIDE DEF q
  <2> QED  BY <1>8, SMT
<1> HIDE DEF q
<1> QED  BY <1>3, <1>7, <1>8, <1>9 DEF schedule, update_current_thread

\* A thread that a socket releases runs before everyone who was queued.
THEOREM WokenRunsNext == Spec => WokenThreadRunsNext
<1> DEFINE W == \A t \in Blocked :
                  t \notin Blocked' => running' = t \/ (running' = running /\ Head(queue') = t)
<1>1. IInv /\ [Next]_vars => [W]_vars
  <2> SUFFICES ASSUME CoreInv, Next, NEW t \in Blocked, t \notin Blocked'
               PROVE  running' = t \/ (running' = running /\ Head(queue') = t)
    BY DEF IInv
  <2>1. ~UNCHANGED sock
    BY DEF Blocked
  <2>2. \A d : ~invalid_handle(set_context(d))
    BY <2>1 DEF invalid_handle
  <2>3. ASSUME NEW h \in Nat, NEW m \in Nat, running \in threads,
               sys_receive(h) \/ sys_send(h, m) \/ sys_send_receive(h, m)
        PROVE  running' = t \/ (running' = running /\ Head(queue') = t)
    BY <2>2, <2>3, IpcStep, RendezvousWakes
  <2>4. /\ UserHandles \subseteq Nat /\ Msgs \subseteq Nat /\ 0 \in Nat
        /\ running \in UserThreads => running \in threads
        /\ running = Listener => running \in threads
    BY HandlesAssumption, MsgsAssumption, InvFacts, SMT DEF UserThreads, Listener, NoThread
  <2>5. ~sys_yield /\ ~fork_current_thread /\ ~exit_current_thread /\ ~timer_handler
    BY <2>1 DEF sys_yield, fork_current_thread, fork_ok, fork_no_stack,
                exit_current_thread, timer_handler
  <2>6. CASE Syscall
    BY <2>3, <2>4, <2>5, <2>6 DEF Syscall
  <2>7. CASE Interrupt
    BY <2>5, <2>7, KeyboardWakes DEF Interrupt
  <2> QED  BY <2>6, <2>7 DEF Next
<1> QED  BY <1>1, Inductive, PTL DEF Spec, WokenThreadRunsNext
=============================================================================
