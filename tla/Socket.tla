------------------------------- MODULE Socket -------------------------------
(***************************************************************************)
(* The rendezvous socket of kernel/src/sync.rs: one shared cell that is    *)
(* empty or holds one blocked party, and the three operations on it.       *)
(*                                                                         *)
(* Each operation is a pure function of the cell and of the saved register *)
(* contexts of the threads.  It returns                                    *)
(*   sock     the new cell,                                                *)
(*   ctx      the register contexts after return_error / return_message,   *)
(*   thread1  the first component of the returned tuple ("the receiving    *)
(*            thread", or the caller that is handed back with an error),   *)
(*   thread2  the second component ("the sending thread").                 *)
(* The caller of an operation owns both returned threads and has to put    *)
(* them somewhere; a thread that is not returned is now held by the cell.  *)
(*                                                                         *)
(* A thread is represented by its id, Option::None by NoThread.  A message *)
(* is the one word that tells messages apart.                              *)
(***************************************************************************)
EXTENDS Integers

\* Option::None for a thread or a thread id; unique_id() starts at 1.
NoThread == 0
\* "No message": the register still holds a syscall argument.
NoMsg == -1
\* rax while the syscall is in progress: the caller has no result yet.
Pending == -1

\* Error codes of kernel/src/syscall.rs and the literals 7 and 8 of sync.rs.
SYSCALL_ERROR_SEND_BLOCKING == 1
SYSCALL_ERROR_RECV_BLOCKING == 2
SYSCALL_ERROR_INVALID_HANDLE == 3
ERROR_RESTRICTED == 7
ERROR_SEND_RECEIVING == 8
SYSCALL_ERROR_MEMALLOC == 9

Codes == {0, Pending, SYSCALL_ERROR_SEND_BLOCKING, SYSCALL_ERROR_RECV_BLOCKING,
          SYSCALL_ERROR_INVALID_HANDLE, ERROR_RESTRICTED,
          ERROR_SEND_RECEIVING, SYSCALL_ERROR_MEMALLOC}

-----------------------------------------------------------------------------
\* The four variants of enum Socket; `only` is the id a Receiving cell is
\* restricted to.
Variants == {"Empty", "Sending", "Receiving", "SendReceiving"}
Cells(T, M) == [st : Variants, thread : T \cup {NoThread},
                msg : M \cup {NoMsg}, only : T \cup {NoThread}]

Cell(s, t, m, o) == [st |-> s, thread |-> t, msg |-> m, only |-> o]
Empty == Cell("Empty", NoThread, NoMsg, NoThread)
Sending(t, m) == Cell("Sending", t, m, NoThread)
Receiving(t, o) == Cell("Receiving", t, NoMsg, o)
SendReceiving(t, m) == Cell("SendReceiving", t, m, NoThread)

\* Thread::return_error: rax of the saved context; nothing for None.
return_error(ctx, t, code) ==
  IF t = NoThread THEN ctx ELSE [ctx EXCEPT ![t].rax = code]

\* Thread::return_message: rax = 0 and the message registers.
return_message(ctx, t, m) == [ctx EXCEPT ![t] = [rax |-> 0, data |-> m]]

Outcome(s, c, t1, t2) == [sock |-> s, ctx |-> c, thread1 |-> t1, thread2 |-> t2]

\* The cell is untouched and the caller handed back with an error code.
Refuse(s, ctx, thread, code) ==
  Outcome(s, return_error(ctx, thread, code), thread, NoThread)

\* Mutant: the kernel, which has no thread id, is let through.
WrongSender_kernel(s, thread) ==
  s.only # NoThread /\ thread # NoThread /\ thread # s.only

\* A Receiving cell restricted to another sender than `thread`.
WrongSender(s, thread) == s.only # NoThread /\ thread # s.only

-----------------------------------------------------------------------------
\* Mutant: the receiver is taken out and the cell left in the Receiving state.
send_message_noreset(s, ctx, thread, message) ==
  CASE s.st = "Empty" ->
         Outcome(Sending(thread, message), ctx, NoThread, NoThread)
    [] s.st \in {"Sending", "SendReceiving"} ->
         Refuse(s, ctx, thread, SYSCALL_ERROR_SEND_BLOCKING)
    [] s.st = "Receiving" /\ WrongSender(s, thread) ->
         Refuse(s, ctx, thread, ERROR_RESTRICTED)
    [] s.st = "Receiving" /\ ~WrongSender(s, thread) ->
         Outcome([s EXCEPT !.thread = NoThread],
                 return_error(return_message(ctx, s.thread, message), thread, 0),
                 s.thread, thread)

(***************************************************************************)
(* Socket::send_message.  `thread` is NoThread when the kernel itself      *)
(* sends (keyboard interrupt, boot): then a refused message is dropped.    *)
(***************************************************************************)
send_message(s, ctx, thread, message) ==
  CASE s.st = "Empty" ->
         Outcome(Sending(thread, message), ctx, NoThread, NoThread)
    [] s.st = "Sending" ->
         Refuse(s, ctx, thread, SYSCALL_ERROR_SEND_BLOCKING)
    [] s.st = "SendReceiving" ->
         Refuse(s, ctx, thread, ERROR_SEND_RECEIVING)
    [] s.st = "Receiving" /\ WrongSender(s, thread) ->
         Refuse(s, ctx, thread, ERROR_RESTRICTED)
    [] s.st = "Receiving" /\ ~WrongSender(s, thread) ->
         Outcome(Empty,
                 return_error(return_message(ctx, s.thread, message), thread, 0),
                 s.thread, thread)

\* Mutant: the sender is released without being told the result.
receive_mute(s, ctx, thread) ==
  CASE s.st = "Empty" ->
         Outcome(Receiving(thread, NoThread), ctx, NoThread, NoThread)
    [] s.st = "Sending" ->
         Outcome(Empty, return_message(ctx, thread, s.msg), thread, s.thread)
    [] s.st = "Receiving" ->
         Refuse(s, ctx, thread, SYSCALL_ERROR_RECV_BLOCKING)
    [] s.st = "SendReceiving" ->
         Outcome(Receiving(s.thread, thread),
                 return_message(ctx, thread, s.msg), thread, NoThread)

\* Mutant: a request is handed over and anybody may answer it.
receive_unrestricted(s, ctx, thread) ==
  CASE s.st = "Empty" ->
         Outcome(Receiving(thread, NoThread), ctx, NoThread, NoThread)
    [] s.st = "Sending" ->
         Outcome(Empty,
                 return_error(return_message(ctx, thread, s.msg), s.thread, 0),
                 thread, s.thread)
    [] s.st = "Receiving" ->
         Refuse(s, ctx, thread, SYSCALL_ERROR_RECV_BLOCKING)
    [] s.st = "SendReceiving" ->
         Outcome(Receiving(s.thread, NoThread),
                 return_message(ctx, thread, s.msg), thread, NoThread)

(***************************************************************************)
(* Socket::receive.  A SendReceiving cell turns into a Receiving cell that *)
(* only the thread that took the request may answer.                       *)
(***************************************************************************)
receive(s, ctx, thread) ==
  CASE s.st = "Empty" ->
         Outcome(Receiving(thread, NoThread), ctx, NoThread, NoThread)
    [] s.st = "Sending" ->
         Outcome(Empty,
                 return_error(return_message(ctx, thread, s.msg), s.thread, 0),
                 thread, s.thread)
    [] s.st = "Receiving" ->
         Refuse(s, ctx, thread, SYSCALL_ERROR_RECV_BLOCKING)
    [] s.st = "SendReceiving" ->
         Outcome(Receiving(s.thread, thread),
                 return_message(ctx, thread, s.msg), thread, NoThread)

(***************************************************************************)
(* Socket::send_receive.  The caller always waits for a reply; only the    *)
(* receiver is returned.                                                   *)
(***************************************************************************)
send_receive(s, ctx, thread, message) ==
  CASE s.st = "Empty" ->
         Outcome(SendReceiving(thread, message), ctx, NoThread, NoThread)
    [] s.st \in {"Sending", "SendReceiving"} ->
         Refuse(s, ctx, thread, SYSCALL_ERROR_SEND_BLOCKING)
    [] s.st = "Receiving" /\ WrongSender(s, thread) ->
         Refuse(s, ctx, thread, SYSCALL_ERROR_RECV_BLOCKING)
    [] s.st = "Receiving" /\ ~WrongSender(s, thread) ->
         Outcome(Receiving(thread, s.thread),
                 return_message(ctx, s.thread, message), s.thread, NoThread)
=============================================================================
