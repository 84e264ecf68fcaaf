------------------------------ MODULE Keyboard ------------------------------
(***************************************************************************)
(* dev/keyboard.rs on the screen of module VgaBuffer: add_scancode, called *)
(* by an interrupt at any point, feeds SCANCODE_QUEUE and wakes the task   *)
(* output_keypress, which edits the screen.  Other code prints meanwhile:  *)
(* interrupt handlers and system calls, which run with interrupts off.     *)
(*                                                                         *)
(* print! locks WRITER with interrupts off and is one step.  The task also *)
(* locks WRITER itself, with interrupts on: such a statement is two steps, *)
(* and whoever prints in between, interrupts off, waits for a lock that    *)
(* can no longer be released.                                              *)
(*                                                                         *)
(* The executor that polls a woken task, the queue and the AtomicWaker are *)
(* crates (the kernel at this revision brings no executor and no caller of *)
(* add_scancode; the module checks the file on its own terms).             *)
(***************************************************************************)
EXTENDS VgaBuffer

CONSTANTS
  Capacity,   \* of SCANCODE_QUEUE (100)
  Keys,       \* what scancodes decode to; "none": nothing yet, or a key released
  RawKeys,    \* the keys among them without a character
  Name,       \* what {:?} of such a key prints
  FULL, UNINITIALISED,  \* the messages of add_scancode
  Texts,      \* what others print
  MaxKeys, MaxTexts     \* bounds on interrupts and on texts of others

Arrows == {"ArrowUp", "ArrowDown", "ArrowLeft", "ArrowRight"}

ASSUME KeysAssumption ==
  /\ Capacity \in Nat \ {0} /\ MaxKeys \in Nat /\ MaxTexts \in Nat
  /\ Arrows \subseteq RawKeys /\ RawKeys \subseteq Keys /\ "none" \in Keys
  /\ Keys \subseteq STRING
ASSUME TextsAssumption ==
  /\ {FULL, UNINITIALISED} \subseteq Seq(STRING) /\ Texts \subseteq Seq(STRING)
  /\ Name \in [RawKeys -> Seq(STRING)]

VARIABLES
  writer, lock,   \* WRITER, and whether the task holds its lock
  cpu,            \* "on", "spin" (waiting for the lock for ever) or "panic"
  SCANCODE_QUEUE, initialised,
  WAKER,          \* whether a waker is registered
  woken,          \* the executor will poll the task
  pc, key, pos, chars_to_right,   \* the task and its locals
  text, moved,    \* all that was printed, until the task moves the cursor
  keys, texts     \* how many interrupts and texts there were

screen_vars == <<writer, text, moved>>
task_vars == <<pc, key, pos, chars_to_right>>
queue_vars == <<SCANCODE_QUEUE, initialised, WAKER, woken>>
kvars == <<screen_vars, task_vars, queue_vars, lock, cpu, keys, texts>>

\* The statements that lock WRITER themselves.
Locking == {"pos", "back", "back2", "del_pos", "del_read", "del_write", "del_last",
            "arrow_pos", "arrow"}

KeyboardInit ==
  /\ writer = WRITER /\ lock = FALSE /\ cpu = "on"
  /\ SCANCODE_QUEUE = <<>> /\ initialised = FALSE /\ WAKER = FALSE /\ woken = TRUE
  /\ pc = "new" /\ key = "none" /\ pos = <<0, 0>> /\ chars_to_right = <<>>
  /\ text = <<>> /\ moved = FALSE /\ keys = 0 /\ texts = 0

\* _print, with interrupts off.
_print(s) ==
  /\ ~lock
  /\ writer' = write_string(writer, s)
  /\ text' = IF moved THEN text ELSE text \o s
  /\ UNCHANGED <<moved, lock, cpu>>

\* Whoever prints with interrupts off while the task holds the lock spins.
print(s) ==
  \/ _print(s)
  \/ lock /\ cpu' = "spin" /\ UNCHANGED <<screen_vars, lock>>

-----------------------------------------------------------------------------
\* Mutant: the waker is not woken.
add_scancode_unwoken(scancode) ==
  \/ /\ ~initialised /\ _print(UNINITIALISED) /\ UNCHANGED queue_vars
  \/ /\ initialised /\ Len(SCANCODE_QUEUE) = Capacity
     /\ print(FULL) /\ UNCHANGED queue_vars
  \/ /\ initialised /\ Len(SCANCODE_QUEUE) < Capacity
     /\ SCANCODE_QUEUE' = Append(SCANCODE_QUEUE, scancode)
     /\ UNCHANGED <<initialised, WAKER, woken, screen_vars, lock, cpu>>

\* Called by an interrupt.  (Until the queue exists the task holds no lock.)
add_scancode(scancode) ==
  \/ /\ ~initialised /\ _print(UNINITIALISED) /\ UNCHANGED queue_vars
  \/ /\ initialised /\ Len(SCANCODE_QUEUE) = Capacity
     /\ print(FULL) /\ UNCHANGED queue_vars
  \/ /\ initialised /\ Len(SCANCODE_QUEUE) < Capacity
     /\ SCANCODE_QUEUE' = Append(SCANCODE_QUEUE, scancode)
     /\ woken' = (woken \/ WAKER) /\ WAKER' = FALSE
     /\ UNCHANGED <<initialised, screen_vars, lock, cpu>>

-----------------------------------------------------------------------------
(* ScancodeStream *)

goto(here, there) == pc = here /\ pc' = there

new_stream ==
  /\ goto("new", "poll") /\ initialised' = TRUE
  /\ UNCHANGED <<screen_vars, lock, key, pos, chars_to_right, SCANCODE_QUEUE, WAKER, woken>>

pop(here) ==
  /\ SCANCODE_QUEUE # <<>> /\ goto(here, "decode")
  /\ key' = Head(SCANCODE_QUEUE) /\ SCANCODE_QUEUE' = Tail(SCANCODE_QUEUE)

\* Mutant: the queue is not looked at again once the waker is registered.
poll_next_once ==
  /\ \/ /\ pop("poll") /\ UNCHANGED WAKER
     \/ /\ SCANCODE_QUEUE = <<>> /\ goto("poll", "register")
        /\ UNCHANGED <<key, SCANCODE_QUEUE, WAKER>>
     \/ /\ goto("register", "pending") /\ WAKER' = TRUE
        /\ UNCHANGED <<key, SCANCODE_QUEUE>>
  /\ UNCHANGED <<screen_vars, lock, pos, chars_to_right, initialised, woken>>

\* The interrupt may come between the first pop, register and the second pop.
poll_next ==
  /\ \/ /\ pop("poll") /\ UNCHANGED WAKER
     \/ /\ SCANCODE_QUEUE = <<>> /\ goto("poll", "register")
        /\ UNCHANGED <<key, SCANCODE_QUEUE, WAKER>>
     \/ /\ goto("register", "again") /\ WAKER' = TRUE
        /\ UNCHANGED <<key, SCANCODE_QUEUE>>
     \/ /\ pop("again") /\ WAKER' = FALSE
     \/ /\ SCANCODE_QUEUE = <<>> /\ goto("again", "pending")
        /\ UNCHANGED <<key, SCANCODE_QUEUE, WAKER>>
  /\ UNCHANGED <<screen_vars, lock, pos, chars_to_right, initialised, woken>>

\* The executor polls the task again once it was woken.
executor ==
  /\ woken /\ woken' = FALSE
  /\ goto("pending", "poll")
  /\ UNCHANGED <<screen_vars, lock, key, pos, chars_to_right, SCANCODE_QUEUE, initialised, WAKER>>

-----------------------------------------------------------------------------
(* output_keypress *)

\* Where the task goes once it knows the position of the cursor.
after_pos(p) ==
  CASE key = "backspace" -> IF p[1] > 0 THEN "back" ELSE "poll"
    [] key = "delete" -> "del_pos"
    [] key \in Arrows -> "arrow_pos"
    [] OTHER -> "print"

\* add_byte and process_keyevent; a key is handled once it is complete.
decode ==
  /\ pc = "decode" /\ pc' = IF key = "none" THEN "poll" ELSE "pos"
  /\ UNCHANGED <<screen_vars, lock, key, pos, chars_to_right, queue_vars>>

\* Mutant: print! leaves interrupts enabled.
print_key_enabled ==
  /\ \/ /\ pc \in {"print", "blank"} /\ ~lock /\ lock' = TRUE
        /\ UNCHANGED <<screen_vars, pc, cpu>>
     \/ /\ lock /\ lock' = FALSE
        /\ goto("print", "poll") \/ goto("blank", "back2")
        /\ writer' = write_string(writer, <<Blank>>)
        /\ UNCHANGED <<text, moved, cpu>>
  /\ UNCHANGED <<key, pos, chars_to_right, queue_vars>>

\* The task's print!.
print_key ==
  /\ \/ goto("print", "poll") /\ _print(IF key \in RawKeys THEN Name[key] ELSE <<key>>)
     \/ goto("blank", "back2") /\ _print(<<Blank>>)
  /\ UNCHANGED <<key, pos, chars_to_right, queue_vars>>

\* WRITER.lock() in one of the statements that use it directly.
take_lock ==
  /\ pc \in Locking /\ ~lock /\ lock' = TRUE
  /\ UNCHANGED <<screen_vars, task_vars, queue_vars>>

\* The statement, which drops the lock again.
read_position(here, p) ==
  /\ pc = here /\ pos' = p
  /\ UNCHANGED <<screen_vars, key, chars_to_right>>

move_to(column, row) ==
  /\ writer' = set_position(writer, column, row)
  /\ text' = <<>> /\ moved' = TRUE
  /\ UNCHANGED <<key, pos, chars_to_right>>

get_pos == read_position("pos", get_position(writer)) /\ pc' = after_pos(pos')

backspace ==
  /\ goto("back", "blank") \/ goto("back2", "poll")
  /\ move_to(pos[1] - 1, pos[2])

\* The characters right of the cursor are read and written one statement each.
delete ==
  \/ /\ read_position("del_pos", get_position(writer))
     /\ pc' = IF pos'[1] < BUFFER_WIDTH - 1 THEN "del_read" ELSE "poll"
  \/ LET n == Len(chars_to_right)
     IN  /\ pc = "del_read"
         /\ chars_to_right' = Append(chars_to_right, read_char(writer, pos[1] + 1 + n, pos[2]))
         /\ pc' = IF pos[1] + 1 + n = BUFFER_WIDTH - 1 THEN "del_write" ELSE "del_read"
         /\ UNCHANGED <<screen_vars, key, pos>>
  \/ LET n == Len(chars_to_right)
     IN  /\ pc = "del_write"
         /\ writer' = write_char_at(writer, BUFFER_WIDTH - 1 - n, pos[2], Head(chars_to_right))
         /\ chars_to_right' = Tail(chars_to_right)
         /\ pc' = IF n = 1 THEN "del_last" ELSE "del_write"
         /\ text' = <<>> /\ moved' = TRUE
         /\ UNCHANGED <<key, pos>>
  \/ /\ goto("del_last", "poll")
     /\ writer' = write_char_at(writer, BUFFER_WIDTH - 1, pos[2], Blank)
     /\ UNCHANGED <<key, pos, chars_to_right, text, moved>>

\* Mutant: one column too far to the right.
arrow_moves_right(p) ==
  CASE key = "ArrowUp" -> p[2] > 0
    [] key = "ArrowDown" -> p[2] < BUFFER_WIDTH - 1
    [] key = "ArrowLeft" -> p[1] > 0
    [] key = "ArrowRight" -> p[1] < BUFFER_WIDTH

\* Whether an arrow moves the cursor that is at p, and where to.  (79 is the
\* last column; the code compares the row with it, too.)
arrow_moves(p) ==
  CASE key = "ArrowUp" -> p[2] > 0
    [] key = "ArrowDown" -> p[2] < BUFFER_WIDTH - 1
    [] key = "ArrowLeft" -> p[1] > 0
    [] key = "ArrowRight" -> p[1] < BUFFER_WIDTH - 1
target ==
  CASE key = "ArrowUp" -> <<pos[1], pos[2] - 1>>
    [] key = "ArrowDown" -> <<pos[1], pos[2] + 1>>
    [] key = "ArrowLeft" -> <<pos[1] - 1, pos[2]>>
    [] key = "ArrowRight" -> <<pos[1] + 1, pos[2]>>

arrow ==
  \/ /\ read_position("arrow_pos", get_position(writer))
     /\ pc' = IF arrow_moves(pos') THEN "arrow" ELSE "poll"
  \/ goto("arrow", "poll") /\ in_bounds(target[1], target[2]) /\ move_to(target[1], target[2])

\* set_position out of bounds: the panic handler prints, too, and waits for the
\* lock that the statement still holds.
panics == pc = "arrow" /\ ~in_bounds(target[1], target[2])

locked_statement ==
  /\ lock
  /\ \/ /\ lock' = FALSE
        /\ get_pos \/ backspace \/ delete \/ arrow
        /\ UNCHANGED cpu
     \/ /\ panics /\ cpu' = "panic"
        /\ UNCHANGED <<screen_vars, task_vars, lock>>
  /\ UNCHANGED queue_vars

-----------------------------------------------------------------------------
task ==
  /\ \/ (new_stream \/ poll_next \/ executor \/ decode \/ take_lock) /\ UNCHANGED cpu
     \/ print_key \/ locked_statement
  /\ UNCHANGED <<keys, texts>>

interrupt ==
  /\ keys < MaxKeys /\ keys' = keys + 1
  /\ \E scancode \in Keys : add_scancode(scancode)
  /\ UNCHANGED <<task_vars, texts>>

\* Any other code that prints: sys_write, the echo of the keyboard handler.
others ==
  /\ texts < MaxTexts /\ texts' = texts + 1
  /\ \E s \in Texts : print(s)
  /\ UNCHANGED <<task_vars, queue_vars, keys>>

KeyboardNext == cpu = "on" /\ (task \/ interrupt \/ others)

\* The task's thread gets the CPU again and again (round robin scheduling).
KeyboardSpec == KeyboardInit /\ [][KeyboardNext]_kvars /\ WF_kvars(cpu = "on" /\ task)

-----------------------------------------------------------------------------
Steps == Locking \cup {"new", "poll", "register", "again", "pending", "decode", "print", "blank"}

\* Types; the cursor is on the screen or right behind its last column.
KeyboardTypeOK ==
  /\ writer \in [chars : [Rows -> [Columns -> Chars]], column : 0 .. BUFFER_WIDTH, row : Rows]
  /\ lock \in BOOLEAN /\ cpu \in {"on", "spin", "panic"}
  /\ SCANCODE_QUEUE \in Seq(Keys) /\ Len(SCANCODE_QUEUE) <= Capacity
  /\ {initialised, WAKER, woken, moved} \subseteq BOOLEAN
  /\ pc \in Steps /\ key \in Keys
  /\ pos \in (0 .. BUFFER_WIDTH) \X Rows /\ chars_to_right \in Seq(Chars)

\* No wakeup is lost: poll_next answers Pending only if an interrupt that comes
\* later wakes the task, so a task that sleeps for good has an empty queue.
NoLostWakeup == pc = "pending" /\ ~woken => SCANCODE_QUEUE = <<>> /\ WAKER

\* Every scancode that add_scancode accepted is taken out of the queue by
\* output_keypress once no more keys are pressed, unless the CPU stops.
ScancodesHandled == SCANCODE_QUEUE # <<>> ~> SCANCODE_QUEUE = <<>> \/ cpu # "on"

\* However the prints of the task, of interrupts and of other threads follow
\* each other, write_byte breaks lines and scrolls as a terminal does: the screen
\* shows the last BUFFER_HEIGHT lines of all that was printed (until the task
\* moves the cursor).
ScreenShowsText ==
  ~moved => LET lines == Lines(text)
            IN  /\ \A r \in Rows : writer.chars[r] = RowOf(lines, r)
                /\ writer.column = Len(lines[Len(lines)])

\* print! never waits for another print!: the CPU hangs only while the task is
\* in a statement that locks WRITER with interrupts enabled.
SpinsOnlyBehindTask == cpu = "spin" => pc \in Locking

\* Although its positions may be stale when it uses them (others print between
\* get_position and set_position), the task leaves the screen only with an arrow
\* that moves it up or down.
OnlyVerticalPanics == cpu = "panic" => key \in {"ArrowUp", "ArrowDown"}
=============================================================================
