------------------------------ MODULE Console ------------------------------
(***************************************************************************)
(* The text screen (putc and its helpers in lib.c), shared by a system     *)
(* call that writes to the terminal and by the keyboard interrupt handler, *)
(* with the handler's line buffer.                                         *)
(*                                                                         *)
(* System calls run with interrupts on, so a key can be taken between any  *)
(* two instructions of the system call's putc.  The system call therefore  *)
(* takes one step per load or store of screen_x and screen_y (pc names the *)
(* step that comes next, rx and ry are the registers), while the handler,  *)
(* which runs with interrupts off, keeps the processor from KeyIrq until   *)
(* echo, the characters it still has to print, is 0.                       *)
(*                                                                         *)
(* The characters on the screen are left out; what is kept is where each   *)
(* store to video memory goes.  Only one page of it is mapped.             *)
(*                                                                         *)
(* Both also move the hardware cursor (update_cursor in cursor.c), through *)
(* an index port and a data port of the CRT controller: two writes for     *)
(* each of the two bytes of the position.                                  *)
(***************************************************************************)
EXTENDS Integers

CONSTANTS
  NUM_COLS, NUM_ROWS,
  PAGE,               (* cells in the mapped page of video memory *)
  MAX_BUFFER_SIZE,    (* characters of a keyboard line *)
  BYTE                (* 256: values of a register of the CRT controller *)

ASSUME ScreenAssumption ==
  /\ NUM_COLS \in Nat \ {0} /\ NUM_ROWS \in Nat \ {0}
  /\ PAGE \in Nat /\ NUM_COLS * NUM_ROWS <= PAGE
  /\ MAX_BUFFER_SIZE \in Nat
  /\ BYTE \in Nat \ {0}

VARIABLES
  screen_x, screen_y,
  buffer_position,    (* characters of the current line *)
  keyboard_buffer,    (* whose line each cell holds: "new", "old" or "none" *)
  Ctrl_pressed,
  echo,               (* characters the handler has still to print *)
  pc,                 (* next step of the system call, "idle" in user mode *)
  rx, ry,             (* what it has loaded *)
  fault,              (* a store missed the page: a page fault *)
  crt_index, crt,     (* the CRT controller's index, and its cursor registers *)
  torn                (* history: the last update_cursor of the system call *)
                      (* was interrupted by one of the handler's *)

vars == <<screen_x, screen_y, buffer_position, keyboard_buffer, Ctrl_pressed,
          echo, pc, rx, ry, fault, crt_index, crt, torn>>
screen == <<screen_x, screen_y>>
cursor == <<crt_index, crt, torn>>
line == <<buffer_position, keyboard_buffer, Ctrl_pressed>>

Cells == 0..MAX_BUFFER_SIZE

(* Steps of putc: the character path, its wrap at the end of a row, the    *)
(* newline path, the scroll test and the scroll.                           *)
CharSteps == {"load_y", "load_x", "store", "inc_load", "inc_store", "test_x"}
WrapSteps == {"wrap_x", "wrap_load", "wrap_store"}
NewlineSteps == {"nl_load", "nl_store", "nl_x"}
ScrollSteps == {"test_y", "last_row", "clear"}
CursorSteps == {"cur_x", "index_low", "out_low", "index_high", "out_high"}
Steps == CharSteps \cup WrapSteps \cup NewlineSteps \cup ScrollSteps
         \cup CursorSteps \cup {"cur_y"}

Registers == {"low", "high"}

(* The two bytes of the position of row y and column x. *)
Low(x, y) == (NUM_COLS * y + x) % BYTE
High(x, y) == ((NUM_COLS * y + x) \div BYTE) % BYTE
Position(x, y) == [r \in Registers |-> IF r = "low" THEN Low(x, y) ELSE High(x, y)]

Init ==
  /\ screen_x = 0 /\ screen_y = 0
  /\ buffer_position = 0 /\ keyboard_buffer = [i \in Cells |-> "none"]
  /\ Ctrl_pressed = FALSE
  /\ echo = 0
  /\ pc = "idle" /\ rx = 0 /\ ry = 0
  /\ fault = FALSE
  /\ crt_index = "high" /\ crt = Position(0, 0) /\ torn = FALSE

(* A store to the cell of row y and column x reaches mapped memory.        *)
Mapped(x, y) == NUM_COLS * y + x < PAGE

-----------------------------------------------------------------------------
(* The system call.  It runs while no handler does. *)

At(step) == pc = step /\ echo = 0 /\ ~fault
Goto(step) == pc' = step

(* putc of a character, or of '\n' or '\r'.  terminal_write calls it once  *)
(* per character and printf does the same, so "idle" stands for the loop   *)
(* between two calls as well.                                              *)
Putc ==
  /\ At("idle")
  /\ Goto("load_y") \/ Goto("nl_load")
  /\ UNCHANGED <<screen, line, echo, rx, ry, fault, cursor>>

(* video_mem is written at the row and the column just loaded.             *)
LoadY == At("load_y") /\ ry' = screen_y /\ Goto("load_x")
         /\ UNCHANGED <<screen, line, echo, rx, fault, cursor>>
LoadX == At("load_x") /\ rx' = screen_x /\ Goto("store")
         /\ UNCHANGED <<screen, line, echo, ry, fault, cursor>>
Store == At("store") /\ fault' = ~Mapped(rx, ry) /\ Goto("inc_load")
         /\ UNCHANGED <<screen, line, echo, rx, ry, cursor>>

(* screen_x++ *)
IncLoad == At("inc_load") /\ rx' = screen_x /\ Goto("inc_store")
           /\ UNCHANGED <<screen, line, echo, ry, fault, cursor>>
IncStore == At("inc_store") /\ screen_x' = rx + 1 /\ Goto("test_x")
            /\ UNCHANGED <<screen_y, line, echo, rx, ry, fault, cursor>>

TestX_OffByOne == At("test_x")
         /\ Goto(IF screen_x > NUM_COLS THEN "wrap_x" ELSE "test_y")
         /\ UNCHANGED <<screen, line, echo, rx, ry, fault, cursor>>

(* The boundary of the row: column 0 first, then screen_y++. *)
TestX == At("test_x")
         /\ Goto(IF screen_x >= NUM_COLS THEN "wrap_x" ELSE "test_y")
         /\ UNCHANGED <<screen, line, echo, rx, ry, fault, cursor>>
WrapX == At("wrap_x") /\ screen_x' = 0 /\ Goto("wrap_load")
         /\ UNCHANGED <<screen_y, line, echo, rx, ry, fault, cursor>>
WrapLoad == At("wrap_load") /\ ry' = screen_y /\ Goto("wrap_store")
            /\ UNCHANGED <<screen, line, echo, rx, fault, cursor>>
WrapStore == At("wrap_store") /\ screen_y' = ry + 1 /\ Goto("test_y")
             /\ UNCHANGED <<screen_x, line, echo, rx, ry, fault, cursor>>

(* The newline: screen_y++ first, then column 0. *)
NlLoad == At("nl_load") /\ ry' = screen_y /\ Goto("nl_store")
          /\ UNCHANGED <<screen, line, echo, rx, fault, cursor>>
NlStore == At("nl_store") /\ screen_y' = ry + 1 /\ Goto("nl_x")
           /\ UNCHANGED <<screen_x, line, echo, rx, ry, fault, cursor>>
NlX == At("nl_x") /\ screen_x' = 0 /\ Goto("test_y")
       /\ UNCHANGED <<screen_y, line, echo, rx, ry, fault, cursor>>

TestY_OffByOne == At("test_y")
         /\ Goto(IF screen_y > NUM_ROWS THEN "last_row" ELSE "cur_y")
         /\ UNCHANGED <<screen, line, echo, rx, ry, fault, cursor>>

(* vertical_scrolling: the last row is made current before the rows move   *)
(* up; then the row screen_y names by that time is blanked.                *)
TestY == At("test_y")
         /\ Goto(IF screen_y >= NUM_ROWS THEN "last_row" ELSE "cur_y")
         /\ UNCHANGED <<screen, line, echo, rx, ry, fault, cursor>>
LastRow == At("last_row") /\ screen_y' = NUM_ROWS - 1 /\ Goto("clear")
           /\ UNCHANGED <<screen_x, line, echo, rx, ry, fault, cursor>>
Clear == At("clear") /\ fault' = ~Mapped(NUM_COLS - 1, screen_y) /\ Goto("cur_y")
         /\ UNCHANGED <<screen, line, echo, rx, ry, cursor>>

(* update_cursor: its arguments, then index and data for each byte. *)
CurY == At("cur_y") /\ ry' = screen_y /\ torn' = FALSE /\ Goto("cur_x")
        /\ UNCHANGED <<screen, line, echo, rx, fault, crt_index, crt>>
CurX == At("cur_x") /\ rx' = screen_x /\ Goto("index_low")
        /\ UNCHANGED <<screen, line, echo, ry, fault, cursor>>
IndexLow == At("index_low") /\ crt_index' = "low" /\ Goto("out_low")
            /\ UNCHANGED <<screen, line, echo, rx, ry, fault, crt, torn>>
OutLow == At("out_low") /\ crt' = [crt EXCEPT ![crt_index] = Low(rx, ry)]
          /\ Goto("index_high")
          /\ UNCHANGED <<screen, line, echo, rx, ry, fault, crt_index, torn>>

IndexHigh_Missing == At("index_high") /\ Goto("out_high")
             /\ UNCHANGED <<screen, line, echo, rx, ry, fault, cursor>>

IndexHigh == At("index_high") /\ crt_index' = "high" /\ Goto("out_high")
             /\ UNCHANGED <<screen, line, echo, rx, ry, fault, crt, torn>>
OutHigh == At("out_high") /\ crt' = [crt EXCEPT ![crt_index] = High(rx, ry)]
           /\ Goto("idle")
           /\ UNCHANGED <<screen, line, echo, rx, ry, fault, crt_index, torn>>

SystemCall ==
  \/ LoadY \/ LoadX \/ Store \/ IncLoad \/ IncStore
  \/ TestX \/ WrapX \/ WrapLoad \/ WrapStore
  \/ NlLoad \/ NlStore \/ NlX
  \/ TestY \/ LastRow \/ Clear
  \/ CurY \/ CurX \/ IndexLow \/ OutLow \/ IndexHigh \/ OutHigh

-----------------------------------------------------------------------------
(* The keyboard handler.  IRQs are served while no handler runs. *)

Irq == echo = 0 /\ ~fault

(* update_cursor of the handler, which nothing interrupts. *)
Shows(x, y) == /\ crt_index' = "high" /\ crt' = Position(x, y)
               /\ torn' = (pc \in CursorSteps)

(* putc of a character that is no newline, as one step.                    *)
PutX == IF screen_x + 1 >= NUM_COLS THEN 0 ELSE screen_x + 1
PutY == LET y == IF screen_x + 1 >= NUM_COLS THEN screen_y + 1 ELSE screen_y
        IN IF y >= NUM_ROWS THEN NUM_ROWS - 1 ELSE y

Echo_NoCount ==
  /\ echo > 0 /\ ~fault
  /\ fault' = ~Mapped(screen_x, screen_y)
  /\ IF fault' THEN UNCHANGED <<screen, cursor>>
     ELSE screen_x' = PutX /\ screen_y' = PutY /\ Shows(PutX, PutY)
  /\ UNCHANGED <<line, echo, pc, rx, ry>>

Echo ==
  /\ echo > 0 /\ ~fault
  /\ fault' = ~Mapped(screen_x, screen_y)
  /\ IF fault' THEN UNCHANGED <<screen, echo, cursor>>
     ELSE /\ screen_x' = PutX /\ screen_y' = PutY /\ echo' = echo - 1
          /\ Shows(PutX, PutY)
  /\ UNCHANGED <<line, pc, rx, ry>>

Typed_Unbounded(n) ==
  /\ buffer_position' = buffer_position + n
  /\ keyboard_buffer' = [i \in Cells |->
       IF i \in buffer_position..(buffer_position + n - 1) THEN "new"
       ELSE keyboard_buffer[i]]
  /\ echo' = n

(* n characters are typed at once: one key, or the four blanks of TAB.     *)
(* Those beyond the end of the line are dropped and not printed.           *)
Typed(n) ==
  LET k == IF buffer_position + n <= MAX_BUFFER_SIZE THEN n
           ELSE MAX_BUFFER_SIZE - buffer_position
  IN /\ buffer_position' = buffer_position + k
     /\ keyboard_buffer' = [i \in Cells |->
          IF i \in buffer_position..(buffer_position + k - 1) THEN "new"
          ELSE keyboard_buffer[i]]
     /\ echo' = k

KeyChar == Irq /\ Typed(1)
           /\ UNCHANGED <<screen, Ctrl_pressed, pc, rx, ry, fault, cursor>>
KeyTab == Irq /\ Typed(4)
          /\ UNCHANGED <<screen, Ctrl_pressed, pc, rx, ry, fault, cursor>>

CleanBuffer_KeepsPosition ==
  /\ UNCHANGED buffer_position
  /\ keyboard_buffer' = [i \in Cells |->
       IF keyboard_buffer[i] = "new" THEN "old" ELSE keyboard_buffer[i]]

(* clean_buffer forgets the line but leaves its characters. *)
CleanBuffer ==
  /\ buffer_position' = 0
  /\ keyboard_buffer' = [i \in Cells |->
       IF keyboard_buffer[i] = "new" THEN "old" ELSE keyboard_buffer[i]]

(* Enter ends the line with '\n' in the buffer, prints the line once more  *)
(* (without the '\n') and starts a new one.                                *)
KeyEnter ==
  /\ Irq
  /\ buffer_position' = 0
  /\ keyboard_buffer' = [i \in Cells |->
       IF keyboard_buffer[i] = "new" \/ i = buffer_position THEN "old"
       ELSE keyboard_buffer[i]]
  /\ echo' = buffer_position
  /\ UNCHANGED <<screen, Ctrl_pressed, pc, rx, ry, fault, cursor>>

KeyCtrl == /\ Irq /\ Ctrl_pressed' = ~Ctrl_pressed
           /\ UNCHANGED <<screen, buffer_position, keyboard_buffer, echo, pc, rx,
                          ry, fault, cursor>>

KeyCtrlL ==
  /\ Irq /\ Ctrl_pressed
  /\ screen_x' = 0 /\ screen_y' = 0 /\ Shows(0, 0)
  /\ CleanBuffer
  /\ UNCHANGED <<Ctrl_pressed, echo, pc, rx, ry, fault>>

(* Backspace takes back one character of the line and one of the screen.   *)
KeyBackspace ==
  /\ Irq /\ buffer_position > 0
  /\ buffer_position' = buffer_position - 1
  /\ keyboard_buffer' = [keyboard_buffer EXCEPT ![buffer_position'] = "old"]
  /\ IF screen_x = 0 /\ screen_y = 0
     THEN UNCHANGED <<screen, fault, cursor>>
     ELSE /\ screen_x' = IF screen_x = 0 THEN NUM_COLS - 1 ELSE screen_x - 1
          /\ screen_y' = IF screen_x = 0 THEN screen_y - 1 ELSE screen_y
          /\ fault' = ~Mapped(screen_x', screen_y')
          /\ IF fault' THEN UNCHANGED cursor ELSE Shows(screen_x', screen_y')
  /\ UNCHANGED <<Ctrl_pressed, echo, pc, rx, ry>>

Keyboard == KeyChar \/ KeyTab \/ KeyEnter \/ KeyCtrl \/ KeyCtrlL
            \/ KeyBackspace \/ Echo

(* The loop of the page fault handler. *)
Hung == fault /\ UNCHANGED vars

Next == Putc \/ SystemCall \/ Keyboard \/ Hung

(* A handler never waits for anything, so it ends (WF on Echo).  Keys come *)
(* further apart than instructions, so the system call, which a handler    *)
(* only suspends, always runs again (SF: each key disables its steps).     *)
(* Nothing makes a program write or a user type.                           *)
Spec == Init /\ [][Next]_vars /\ SF_vars(SystemCall) /\ WF_vars(Echo)

-----------------------------------------------------------------------------
(* Properties. *)

(* Every variable has its type: positions stay within one column and one   *)
(* row of the screen, the line within its buffer.                          *)
TypeOK ==
  /\ screen_x \in 0..NUM_COLS /\ screen_y \in 0..NUM_ROWS
  /\ buffer_position \in 0..MAX_BUFFER_SIZE
  /\ keyboard_buffer \in [Cells -> {"new", "old", "none"}]
  /\ Ctrl_pressed \in BOOLEAN
  /\ echo \in 0..MAX_BUFFER_SIZE
  /\ pc \in Steps \cup {"idle"}
  /\ rx \in 0..NUM_COLS /\ ry \in 0..NUM_ROWS
  /\ fault \in BOOLEAN
  /\ crt_index \in Registers /\ crt \in [Registers -> 0..(BYTE - 1)]
  /\ torn \in BOOLEAN

(* The cursor is off the screen only inside putc: below it between the     *)
(* increment of screen_y and the scroll, right of it between screen_x++    *)
(* and the wrap.  Whatever keys were taken in between, putc returns with   *)
(* the cursor on the screen.                                               *)
CursorOnScreen ==
  /\ screen_y = NUM_ROWS => pc \in {"nl_x", "test_y", "last_row"}
  /\ screen_x = NUM_COLS => pc \in {"test_x", "wrap_x"}

(* A character the system call writes lands on a cell of the screen, even  *)
(* when keys moved the cursor between its load of screen_y and its load of *)
(* screen_x.                                                               *)
WritesVisible == pc = "store" => rx < NUM_COLS /\ ry < NUM_ROWS

(* The characters up to buffer_position are those typed since the last     *)
(* Enter or Ctrl-L: no character of an earlier line is part of this one.   *)
CurrentLine == \A i \in 0..(buffer_position - 1) : keyboard_buffer[i] = "new"

(* Between two calls the hardware cursor stands where the next character   *)
(* goes, unless the last update_cursor of the system call was interrupted  *)
(* by a key that moved it.  One undisturbed update, of a system call or of *)
(* a key, repairs whatever an interrupted one left in the registers.       *)
CursorFollows ==
  pc = "idle" /\ ~torn /\ ~fault => crt = Position(screen_x, screen_y)

(* putc and the handler both end, however the two interleave, unless a     *)
(* store misses the page.                                                  *)
WriteEnds == pc # "idle" ~> pc = "idle" \/ fault

(* What the system call has loaded and not yet stored is a position of the *)
(* screen; with it the first three invariants are inductive.               *)
Loaded ==
  /\ pc \in {"load_x", "nl_store", "wrap_store"} => ry < NUM_ROWS
  /\ pc = "inc_store" => rx < NUM_COLS
IInv == TypeOK /\ CursorOnScreen /\ WritesVisible /\ Loaded

(* The scrolling crash of Buglog.txt is solved: no store ever misses video *)
(* memory.                                                                 *)
NeverFaults == ~fault
=============================================================================
