------------------------------ MODULE Terminal ------------------------------
(***************************************************************************)
(* From the keys to a program that reads the terminal: the modifier keys,  *)
(* the scancode map and the line buffer of keyboard.c, and terminal_read,  *)
(* which read in process.c calls twice.                                    *)
(*                                                                         *)
(* The handler runs with interrupts off, so a scancode is one action.  A   *)
(* read copies the buffer byte by byte with interrupts on and waits for    *)
(* nothing: keys may be taken between any two bytes.  What the handler     *)
(* prints is in module Console.                                            *)
(***************************************************************************)
EXTENDS Integers, Sequences

CONSTANTS
  MAX_BUFFER_SIZE,   (* characters of a line; the buffer has one cell more *)
  Letters, Symbols,  (* keys whose row of the map is of the usual form *)
  Others             (* those of the four other keys there are *)

ASSUME BufferAssumption ==
  /\ MAX_BUFFER_SIZE \in Nat
  /\ Letters \cap Symbols = {}
  /\ Others \subseteq {"b", ";", "enter", "unmapped"}
  /\ (Letters \cup Symbols) \cap {"b", ";", "enter", "unmapped"} = {}

Cells == 0..MAX_BUFFER_SIZE
Modifiers == {"left_shift", "right_shift", "left_ctrl"}
Shifts == {"left_shift", "right_shift"}

(* A character is a key and whether it is the upper one of that key. *)
NUL == <<"unmapped", FALSE>>
Newline == <<"enter", FALSE>>
Blank == <<"blank", FALSE>>
Lower(k) == <<k, FALSE>>
Upper(k) == <<k, TRUE>>

(* Scancodes below KEY_COUNT that handle_special_key does not take. *)
Keys == Letters \cup Symbols \cup Others

(* Columns: plain, shift, caps, both. *)
scancode_map ==
  [k \in Keys |->
     CASE k \in Letters  -> <<Lower(k), Upper(k), Upper(k), Lower(k)>>
       [] k \in Symbols  -> <<Lower(k), Upper(k), Lower(k), Upper(k)>>
       [] k = "b"        -> <<Lower("b"), Upper("b"), Upper("v"), Lower("b")>>
       [] k = ";"        -> <<Lower(";"), Upper(";"), Upper(";"), Upper(";")>>
       [] k = "enter"    -> <<Newline, Newline, Newline, Newline>>
       [] k = "unmapped" -> <<NUL, NUL, NUL, NUL>>]

Chars == {scancode_map[k][c] : k \in Keys, c \in 1..4} \cup {NUL, Blank}

VARIABLES
  held,               (* the modifier keys that are down *)
  Shift_pressed, Ctrl_pressed, Capslock_state,
  keyboard_buffer, buffer_position,
  pc,                 (* of the reader: "idle", "copy", "print" *)
  pass, n,            (* which terminal_read, and the bytes wanted *)
  t_buf,              (* the bytes that terminal_read has copied *)
  result,             (* what read returned *)
  dropped,            (* history: one of two held shift keys was released   *)
                      (* and none has been pressed since                    *)
  entered,            (* history: the line entered, if no other is begun *)
  whole               (* history: none was begun since the second           *)
                      (* terminal_read found an entered line                *)

modifiers == <<held, dropped, Shift_pressed, Ctrl_pressed, Capslock_state>>
buffer == <<keyboard_buffer, buffer_position, entered, whole>>
reader == <<pc, pass, n, t_buf, result>>
vars == <<modifiers, buffer, reader>>

Line == [k \in 1..buffer_position |-> keyboard_buffer[k - 1]]
Editor == INSTANCE LineEditor WITH LIMIT <- MAX_BUFFER_SIZE, line <- Line

Init ==
  /\ held = {} /\ dropped = FALSE
  /\ Shift_pressed = FALSE /\ Ctrl_pressed = FALSE
  /\ Capslock_state = FALSE
  /\ keyboard_buffer = [k \in Cells |-> NUL] /\ buffer_position = 0
  /\ pc = "idle" /\ pass = 1 /\ n = 0 /\ t_buf = <<>> /\ result = 0
  /\ entered = {} /\ whole = FALSE

-----------------------------------------------------------------------------
(* The keyboard. *)

(* Pressing a modifier, or its automatic repeat, and releasing it.         *)
Press(m) ==
  /\ held' = held \cup {m} /\ dropped' = (dropped /\ m \notin Shifts)
  /\ IF m \in Shifts THEN Shift_pressed' = TRUE /\ UNCHANGED Ctrl_pressed
                     ELSE Ctrl_pressed' = TRUE /\ UNCHANGED Shift_pressed
  /\ UNCHANGED <<Capslock_state, buffer, reader>>

Drops(m) == IF m \in Shifts THEN held' \cap Shifts # {} ELSE dropped

Release_OneSide(m) ==
  /\ m \in held /\ held' = held \ {m} /\ dropped' = Drops(m)
  /\ IF m = "left_shift" THEN Shift_pressed' = FALSE /\ UNCHANGED Ctrl_pressed
     ELSE IF m = "left_ctrl" THEN Ctrl_pressed' = FALSE /\ UNCHANGED Shift_pressed
     ELSE UNCHANGED <<Shift_pressed, Ctrl_pressed>>
  /\ UNCHANGED <<Capslock_state, buffer, reader>>

Release(m) ==
  /\ m \in held /\ held' = held \ {m} /\ dropped' = Drops(m)
  /\ IF m \in Shifts THEN Shift_pressed' = FALSE /\ UNCHANGED Ctrl_pressed
                     ELSE Ctrl_pressed' = FALSE /\ UNCHANGED Shift_pressed
  /\ UNCHANGED <<Capslock_state, buffer, reader>>

(* Every press code toggles, those of the automatic repeat too. *)
CapsLock ==
  /\ Capslock_state' = ~Capslock_state
  /\ UNCHANGED <<held, dropped, Shift_pressed, Ctrl_pressed, buffer, reader>>

key_pressed(k) ==
  scancode_map[k][IF Shift_pressed THEN IF Capslock_state THEN 4 ELSE 2
                                   ELSE IF Capslock_state THEN 3 ELSE 1]

(* A character goes to the end of the line; a full line drops it. *)
Typed(c, count) ==
  LET end == IF buffer_position + count < MAX_BUFFER_SIZE
             THEN buffer_position + count ELSE MAX_BUFFER_SIZE
  IN  /\ keyboard_buffer' = [k \in Cells |->
            IF k \in buffer_position..(end - 1) THEN c ELSE keyboard_buffer[k]]
      /\ buffer_position' = end
      /\ IF end = buffer_position THEN UNCHANGED <<entered, whole>>
         ELSE entered' = {} /\ whole' = FALSE

Enters == buffer_position' = 0 /\ entered' = {Line} /\ whole' = FALSE

Enter_Erases ==
  /\ keyboard_buffer' = [[k \in Cells |-> NUL] EXCEPT ![buffer_position] = Newline]
  /\ Enters

(* Enter ends the line in place and starts a new one; the characters stay. *)
Enter ==
  /\ keyboard_buffer' = [keyboard_buffer EXCEPT ![buffer_position] = Newline]
  /\ Enters

clean_buffer ==
  /\ buffer_position' = 0
  /\ UNCHANGED <<keyboard_buffer, entered, whole>>

(* handle_keyboard_irq for a key that is not special.  Any case of L with  *)
(* Ctrl empties the line.                                                  *)
Key(k) ==
  /\ IF Ctrl_pressed /\ key_pressed(k) \in {Lower("l"), Upper("l")} THEN clean_buffer
     ELSE IF key_pressed(k) = Newline THEN Enter
     ELSE Typed(key_pressed(k), 1)
  /\ UNCHANGED <<modifiers, reader>>

Tab == Typed(Blank, 4) /\ UNCHANGED <<modifiers, reader>>

Backspace_Unchecked ==
  /\ buffer_position' = IF buffer_position > 0 THEN buffer_position - 1
                        ELSE MAX_BUFFER_SIZE
  /\ UNCHANGED <<keyboard_buffer, entered, whole, modifiers, reader>>

Backspace ==
  /\ buffer_position > 0 /\ buffer_position' = buffer_position - 1
  /\ UNCHANGED <<keyboard_buffer, entered, whole, modifiers, reader>>

Keyboard ==
  \/ \E m \in Modifiers : Press(m) \/ Release(m)
  \/ CapsLock \/ (\E k \in Keys : Key(k)) \/ Tab \/ Backspace

-----------------------------------------------------------------------------
(* read of descriptor 0. *)

Returns(r) == pc' = "idle" /\ pass' = 1 /\ n' = 0 /\ t_buf' = <<>> /\ result' = r

(* A refused count comes back as -1 from both calls of terminal_read. *)
Read_NoLimit(count) ==
  /\ pc = "idle"
  /\ IF count < 0 THEN Returns(-1)
     ELSE pc' = "copy" /\ n' = count /\ UNCHANGED <<pass, t_buf, result>>
  /\ UNCHANGED <<modifiers, buffer>>

Read(count) ==
  /\ pc = "idle"
  /\ IF count < 0 \/ count > MAX_BUFFER_SIZE THEN Returns(-1)
     ELSE pc' = "copy" /\ n' = count /\ UNCHANGED <<pass, t_buf, result>>
  /\ UNCHANGED <<modifiers, buffer>>

CopyByte ==
  /\ pc = "copy" /\ Len(t_buf) < n
  /\ t_buf' = Append(t_buf, keyboard_buffer[Len(t_buf)])
  /\ UNCHANGED <<modifiers, buffer, pc, pass, n, result>>

(* The first call's count only says whether the driver can read; its bytes *)
(* will be written over.                                                   *)
FirstDone ==
  /\ pc = "copy" /\ Len(t_buf) = n /\ pass = 1
  /\ IF n = 0 THEN Returns(-1)
     ELSE pc' = "print" /\ t_buf' = <<>> /\ UNCHANGED <<pass, n, result>>
  /\ UNCHANGED <<modifiers, buffer>>

Again_Prints ==
  /\ pc = "print" /\ pc' = "print"
  /\ UNCHANGED <<modifiers, buffer, pass, n, t_buf, result>>

(* read prints a name, then calls the driver again. *)
Again ==
  /\ pc = "print" /\ pc' = "copy" /\ pass' = 2
  /\ whole' = (entered # {})
  /\ UNCHANGED <<modifiers, keyboard_buffer, buffer_position, entered, n, t_buf,
                 result>>

SecondDone ==
  /\ pc = "copy" /\ Len(t_buf) = n /\ pass = 2
  /\ Returns(n) /\ UNCHANGED <<modifiers, keyboard_buffer, buffer_position, entered>>
  /\ whole' = FALSE

Reading == CopyByte \/ FirstDone \/ Again \/ SecondDone

Next == Keyboard \/ (\E count \in -1..(MAX_BUFFER_SIZE + 1) : Read(count)) \/ Reading

(* Keys come further apart than instructions: a read that has begun goes   *)
(* on.  Nothing is assumed of the keys or of programs that read.           *)
Spec == Init /\ [][Next]_vars /\ WF_vars(Reading)

-----------------------------------------------------------------------------
(* Properties. *)

(* Every variable has its type; the line leaves a cell for its newline.    *)
TypeOK ==
  /\ held \subseteq Modifiers /\ dropped \in BOOLEAN
  /\ Shift_pressed \in BOOLEAN /\ Ctrl_pressed \in BOOLEAN
  /\ Capslock_state \in BOOLEAN
  /\ keyboard_buffer \in [Cells -> Chars] /\ buffer_position \in Cells
  /\ pc \in {"idle", "copy", "print"} /\ pass \in {1, 2}
  /\ n \in 0..MAX_BUFFER_SIZE /\ Len(t_buf) <= n
  /\ result \in -1..MAX_BUFFER_SIZE
  /\ \A l \in entered : Len(l) <= MAX_BUFFER_SIZE
  /\ whole \in BOOLEAN

(* Two shift keys share one flag (keyboard.c:201-212).  It is set exactly  *)
(* while one of them is down, but for one case: releasing one of two held  *)
(* shift keys clears it, and it stays clear, with a shift key down, until  *)
(* one is pressed or repeats.  Ctrl's flag is the key.                     *)
ModifiersFollowKeys ==
  /\ Shift_pressed <=> held \cap Shifts # {} /\ ~dropped
  /\ Ctrl_pressed <=> "left_ctrl" \in held

(* A read that begins its second pass after Enter, and before the next    *)
(* line is begun, delivers the entered line and its newline, as far as it  *)
(* asked for them: Enter leaves the buffer for it, and neither modifiers,  *)
(* Ctrl-L, Backspace nor the first pass spoil it.                          *)
ReadsEnteredLine ==
  whole => \A l \in entered : \A k \in 1..Len(t_buf) :
             k <= Len(l) + 1 => t_buf[k] = Append(l, Newline)[k]

(* The buffer edits a line as LineEditor says. *)
ImplementsLineEditor == Editor!Spec

(* A read ends, however many keys are typed. *)
ReadEnds == pc # "idle" ~> pc = "idle"

-----------------------------------------------------------------------------
(* The inductive invariant. *)

(* The line handed over still lies in the buffer with its newline, and no  *)
(* character of the next one has been typed.                               *)
Intact ==
  \A l \in entered :
    /\ l \in Seq(Chars) /\ Len(l) <= MAX_BUFFER_SIZE
    /\ \A k \in 1..(Len(l) + 1) : keyboard_buffer[k - 1] = Append(l, Newline)[k]

Untouched == entered # {} => buffer_position = 0

(* Bytes are copied while the reader copies, and at no other time. *)
Copied == t_buf \in Seq(Chars) /\ (pc # "copy" => t_buf = <<>>)

IInv == /\ TypeOK /\ ModifiersFollowKeys /\ Intact /\ Untouched /\ Copied
        /\ ReadsEnteredLine
=============================================================================
