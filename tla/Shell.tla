------------------------------- MODULE Shell --------------------------------
(***************************************************************************)
(* The user program (bin/src/main.rs, with the runtime in api/src) running *)
(* on the kernel of module Kernel: where Kernel lets a user thread make    *)
(* any system call, here each thread follows its code.                     *)
(*                                                                         *)
(* A step of a thread looks at the result of its last system call and runs *)
(* up to and including the next one; at[t] names the place in between.     *)
(* The workers' yields are one yield: a timer tick does the same anywhere. *)
(* Keys m and t, whose threads fault, are left to module Faults.           *)
(***************************************************************************)
EXTENDS Kernel, FiniteSets

CONSTANTS
  Keys,     \* the keys typed, by character code
  MaxKeys   \* bound on the number of key presses

ASSUME KeysAssumption == Keys \subseteq Msgs /\ Tids \subseteq Msgs
ASSUME UsedHandlesAssumption == 0 .. 3 \subseteq UserHandles
ASSUME MaxKeysAssumption == MaxKeys \in Nat

VARIABLES
  at,      \* per thread: where its program is
  id,      \* per thread: what recv_id returned, 0 before
  entry,   \* per thread: the function it was spawned with
  call,    \* locals of main: the key and the threads to spawn and to wait for
  typed    \* number of keys pressed

svars == <<vars, at, id, entry, call, typed>>

\* Handles: the positions of the sockets in main.rs.
KEYBOARD == 0
VGA == 1
ID == 2
FIN == 3

Places == {"start", "prompt", "dispatch", "spawned", "id_sent", "running",
           "finish", "done", "gone", "panicked"}

KeyX == 120
\* Per key: how many threads it spawns, with which entry, how many it waits for.
Command(ch) ==
  CASE ch = 98 -> [key |-> ch, spawn |-> 3, wait |-> 3, func |-> "tester"]
    [] ch \in 49 .. 52 -> [key |-> ch, spawn |-> ch - 48, wait |-> ch - 48, func |-> "tester"]
    [] ch = 114 -> [key |-> ch, spawn |-> 1, wait |-> 1, func |-> "tester"]
    [] ch = 101 -> [key |-> ch, spawn |-> 1, wait |-> 0, func |-> "heap_alloc"]
    [] OTHER -> [key |-> ch, spawn |-> 0, wait |-> 0, func |-> "none"]

ShellInit ==
  /\ Init
  /\ at = [t \in Tids |-> "start"]
  /\ id = [t \in Tids |-> 0]
  /\ entry = [t \in Tids |-> "main"]
  /\ call = Command(0)
  /\ typed = 0

-----------------------------------------------------------------------------
\* The last system call of the running thread returned Ok(data).
Ok == ctx[running].rax = 0
data == ctx[running].data

goto(place) == at' = [at EXCEPT ![running] = place]

\* The panic handler prints and exits the thread.
panic ==
  /\ exit_current_thread
  /\ goto("panicked")
  /\ UNCHANGED <<id, entry, call>>

\* unwrap() of the last result: the thread goes on with A, or panics.
unwrap(A) == IF Ok THEN A ELSE panic

thread_exit ==
  /\ exit_current_thread
  /\ goto("gone")
  /\ UNCHANGED <<id, entry, call>>

\* recv_id, up to the system call.
recv_id(place) ==
  /\ at[running] = "start"
  /\ sys_receive(ID)
  /\ goto(place)
  /\ UNCHANGED <<id, entry, call>>

-----------------------------------------------------------------------------
\* The message is echoed to the VGA listener.
echo(c) ==
  /\ sys_send(VGA, c.key)
  /\ goto("prompt")
  /\ call' = c
  /\ UNCHANGED <<id, entry>>

\* thread_spawn of the next thread of command c.
thread_spawn(c) ==
  /\ call' = [c EXCEPT !.spawn = @ - 1]
  /\ \/ /\ fork_ok
        /\ at' = [at EXCEPT ![running] = "spawned", ![counter'] = "start"]
        /\ entry' = [entry EXCEPT ![counter'] = c.func]
     \/ fork_no_stack /\ goto("spawned") /\ UNCHANGED entry
  /\ UNCHANGED id

\* The top of main's loop: the id was received, or the echo sent.
main_prompt ==
  /\ at[Main] = "prompt"
  /\ unwrap(/\ id' = IF id[Main] = 0 THEN [id EXCEPT ![Main] = data] ELSE id
            /\ sys_receive(KEYBOARD)
            /\ goto("dispatch")
            /\ UNCHANGED <<entry, call>>)

main_dispatch ==
  LET c == Command(data)
  IN  /\ at[Main] = "dispatch"
      /\ unwrap(\/ data = KeyX /\ thread_exit
                \/ data # KeyX /\ c.spawn = 0 /\ echo(c)
                \/ data # KeyX /\ c.spawn > 0 /\ thread_spawn(c))

\* Mutant: the ids are sent only once all the threads have been spawned.
main_spawned_late ==
  /\ at[Main] = "spawned"
  /\ \/ ~Ok /\ echo(call)
     \/ Ok /\ call.spawn > 0 /\ thread_spawn(call)
     \/ /\ Ok /\ call.spawn = 0
        /\ sys_send(ID, data)
        /\ goto("id_sent")
        /\ UNCHANGED <<id, entry, call>>

\* A failed spawn ends the command; otherwise the new thread's id is sent.
main_spawned ==
  /\ at[Main] = "spawned"
  /\ \/ ~Ok /\ echo(call)
     \/ /\ Ok
        /\ sys_send(ID, data)
        /\ goto("id_sent")
        /\ UNCHANGED <<id, entry, call>>

\* Mutant: main waits for one completion too many.
main_id_sent_extra ==
  /\ at[Main] = "id_sent"
  /\ \/ call.spawn > 0 /\ thread_spawn(call)
     \/ /\ call.spawn = 0 /\ call.wait >= 0
        /\ sys_receive(FIN)
        /\ call' = [call EXCEPT !.wait = @ - 1]
        /\ UNCHANGED <<at, id, entry>>

\* The result of the send, or of a receive on FIN, is not looked at: spawn the
\* next thread, then wait for each of them, then echo.
main_id_sent ==
  /\ at[Main] = "id_sent"
  /\ \/ call.spawn > 0 /\ thread_spawn(call)
     \/ /\ call.spawn = 0 /\ call.wait > 0
        /\ sys_receive(FIN)
        /\ call' = [call EXCEPT !.wait = @ - 1]
        /\ UNCHANGED <<at, id, entry>>
     \/ call.spawn = 0 /\ call.wait = 0 /\ echo(call)

main ==
  /\ running = Main
  /\ recv_id("prompt") \/ main_prompt \/ main_dispatch \/ main_spawned \/ main_id_sent

-----------------------------------------------------------------------------
\* A spawned thread has its id.
worker_running ==
  /\ at[running] = "running"
  /\ unwrap(/\ id' = [id EXCEPT ![running] = data]
            /\ \/ entry[running] = "tester" /\ sys_yield /\ goto("finish")
               \/ entry[running] = "heap_alloc" /\ exit_current_thread /\ goto("gone")
            /\ UNCHANGED <<entry, call>>)

\* Mutant: the thread exits without reporting.
worker_finish_silent == at[running] = "finish" /\ thread_exit

\* The completion is sent to FIN.
worker_finish ==
  /\ at[running] = "finish"
  /\ sys_send(FIN, id[running])
  /\ goto("done")
  /\ UNCHANGED <<id, entry, call>>

worker_done ==
  /\ at[running] = "done"
  /\ unwrap(thread_exit)

tester ==
  /\ running \in UserThreads \ {Main}
  /\ recv_id("running") \/ worker_running \/ worker_finish \/ worker_done

\* Mutant: the listener returns after a message instead of looping.
listener_returns ==
  /\ running = Listener
  /\ IF ctx[Listener].data = NoMsg THEN sys_receive(0) ELSE exit_current_thread
  /\ UNCHANGED <<at, id, entry, call>>

listener ==
  /\ running = Listener
  /\ sys_receive(0)
  /\ UNCHANGED <<at, id, entry, call>>

keypress ==
  /\ typed < MaxKeys
  /\ typed' = typed + 1
  /\ \E key \in Keys : keyboard_handler_inner(key)
  /\ UNCHANGED <<at, id, entry, call>>

tick == timer_handler /\ UNCHANGED <<at, id, entry, call, typed>>

Program == UNCHANGED typed /\ (main \/ tester \/ listener)

ShellNext == cpu = "on" /\ (Program \/ keypress \/ tick)

ShellSpec == ShellInit /\ [][ShellNext]_svars

\* The timer ticks for ever, and a thread that gets the CPU again and again
\* at last reaches its next system call.
ShellFair ==
  /\ ShellSpec
  /\ WF_svars(cpu = "on" /\ tick)
  /\ \A t \in Tids \ {Idle} : SF_svars(cpu = "on" /\ running = t /\ Program)

-----------------------------------------------------------------------------
\* The threads main has spawned.
Workers == threads \ {Idle, Listener, Main}

\* Every variable has its type.
ShellTypeOK ==
  /\ at \in [Tids -> Places]
  /\ id \in [Tids -> 0 .. MaxId]
  /\ entry \in [Tids -> {"main", "tester", "heap_alloc"}]
  /\ call.spawn \in 0 .. 4 /\ call.wait \in 0 .. 4
  /\ typed \in 0 .. MaxKeys

\* A thread takes its own id out of the shared ID socket, never that of
\* another thread, whoever of spawner and spawned is preempted in between.
OwnId == \A t \in Tids : id[t] \in {0, t}

\* No unwrap() of the shell fails except that of a completion: main survives
\* every key and every spawned thread gets past recv_id.
OnlyCompletionsPanic ==
  \A t \in Tids : at[t] = "panicked" => t # Main /\ id[t] = t

\* "Wait for the two threads to complete": while main is blocked on FIN there
\* are still as many threads to report as it waits for.
AwaitedThreadsLive ==
  sock["fin"].st = "Receiving" =>
    \E W \in SUBSET {t \in Workers : at[t] \in {"start", "running", "finish"}} :
       Cardinality(W) = call.wait + 1

\* The shell comes back to its prompt after a command that spawns one thread:
\* main is not blocked for ever on the id it sends, on the completion or on the
\* echo, even if it takes the completion an earlier command left behind.
PromptReturns ==
  (at[Main] = "spawned" /\ Command(call.key).spawn = 1) ~> at[Main] = "dispatch"

\* The shell is one of the programs Kernel allows, so that what holds of every
\* program holds of it.
RunsOnKernel == Spec
=============================================================================
