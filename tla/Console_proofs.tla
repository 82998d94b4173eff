--------------------------- MODULE Console_proofs ---------------------------
(***************************************************************************)
(* The cursor's invariants and the line's, for every screen, page and      *)
(* buffer size.  The position and what is loaded of it are proved together *)
(* (IInv); the line needs only the types, and the hardware cursor needs    *)
(* what holds in the middle of update_cursor (Drawn).                      *)
(***************************************************************************)
EXTENDS Console, TLAPS

(* Both bytes of a position fit in their registers. *)
LEMMA PositionType ==
  ASSUME NEW x \in Int, NEW y \in Int
  PROVE  /\ Low(x, y) \in 0..(BYTE - 1) /\ High(x, y) \in 0..(BYTE - 1)
         /\ Position(x, y) \in [Registers -> 0..(BYTE - 1)]
<1>1. NUM_COLS * y + x \in Int BY ScreenAssumption
<1>2. Low(x, y) \in 0..(BYTE - 1) BY <1>1, ScreenAssumption DEF Low
<1>3. (NUM_COLS * y + x) \div BYTE \in Int BY <1>1, ScreenAssumption
<1>4. High(x, y) \in 0..(BYTE - 1) BY <1>3, ScreenAssumption DEF High
<1> QED BY <1>2, <1>4 DEF Position

(* What the system call sends to the data port fits in a register.         *)
LEMMA OutType ==
  ASSUME TypeOK
  PROVE  Low(rx, ry) \in 0..(BYTE - 1) /\ High(rx, ry) \in 0..(BYTE - 1)
<1>1. rx \in Int /\ ry \in Int BY ScreenAssumption DEF TypeOK
<1> QED BY <1>1, PositionType

(* The initial state satisfies IInv. *)
LEMMA InitInv == Init => IInv
<1> SUFFICES ASSUME Init PROVE IInv OBVIOUS
<1>1. Ctrl_pressed \in BOOLEAN /\ fault \in BOOLEAN BY Zenon DEF Init
<1>2. NUM_COLS \in Nat \ {0} /\ NUM_ROWS \in Nat \ {0} /\ MAX_BUFFER_SIZE \in Nat
  BY ScreenAssumption
<1>3. TypeOK
  <2>1. crt_index \in Registers /\ crt \in [Registers -> 0..(BYTE - 1)]
    BY ScreenAssumption, PositionType DEF Init, Registers
  <2>2. torn \in BOOLEAN BY Zenon DEF Init
  <2> QED BY <1>1, <1>2, <2>1, <2>2 DEF Init, TypeOK, Cells
<1> QED BY <1>2, <1>3 DEF Init, IInv, CursorOnScreen, WritesVisible, Loaded

(* One step of putc of the system call keeps the cursor and what is loaded *)
(* from it within the bounds of the step that comes next.                  *)
LEMMA SystemCallInv ==
  ASSUME IInv, Putc \/ SystemCall
  PROVE  IInv'
<1> USE ScreenAssumption DEF IInv, TypeOK, CursorOnScreen, WritesVisible,
        Loaded, screen, line, At, Goto, Steps, CharSteps, WrapSteps,
        NewlineSteps, ScrollSteps, CursorSteps, cursor
<1>1. CASE Putc BY <1>1 DEF Putc
<1>2. CASE LoadY BY <1>2 DEF LoadY
<1>3. CASE LoadX BY <1>3 DEF LoadX
<1>4. CASE Store BY <1>4 DEF Store
<1>5. CASE IncLoad BY <1>5 DEF IncLoad
<1>6. CASE IncStore BY <1>6 DEF IncStore
<1>7. CASE TestX BY <1>7 DEF TestX
<1>8. CASE WrapX BY <1>8 DEF WrapX
<1>9. CASE WrapLoad BY <1>9 DEF WrapLoad
<1>10. CASE WrapStore BY <1>10 DEF WrapStore
<1>11. CASE NlLoad BY <1>11 DEF NlLoad
<1>12. CASE NlStore BY <1>12 DEF NlStore
<1>13. CASE NlX BY <1>13 DEF NlX
<1>14. CASE TestY BY <1>14 DEF TestY
<1>15. CASE LastRow BY <1>15 DEF LastRow
<1>16. CASE Clear BY <1>16 DEF Clear
<1>17. CASE CurY BY <1>17 DEF CurY
<1>18. CASE CurX BY <1>18 DEF CurX
<1>19. CASE IndexLow BY <1>19 DEF IndexLow, Registers
<1>20. CASE OutLow
  <2>1. Low(rx, ry) \in 0..(BYTE - 1) BY OutType, Zenon
  <2> QED BY <1>20, <2>1 DEF OutLow
<1>21. CASE IndexHigh BY <1>21 DEF IndexHigh, Registers
<1>22. CASE OutHigh
  <2>1. High(rx, ry) \in 0..(BYTE - 1) BY OutType, Zenon
  <2> QED BY <1>22, <2>1 DEF OutHigh
<1> QED BY <1>1, <1>2, <1>3, <1>4, <1>5, <1>6, <1>7, <1>8, <1>9, <1>10, <1>11,
           <1>12, <1>13, <1>14, <1>15, <1>16, <1>17, <1>18, <1>19, <1>20, <1>21,
           <1>22 DEF SystemCall

(* n typed characters keep the line within its buffer.                     *)
LEMMA TypedType ==
  ASSUME NEW n \in Nat, TypeOK, Typed(n)
  PROVE  /\ buffer_position' \in 0..MAX_BUFFER_SIZE
         /\ keyboard_buffer' \in [Cells -> {"new", "old", "none"}]
         /\ echo' \in 0..MAX_BUFFER_SIZE
  BY ScreenAssumption DEF TypeOK, Typed, Cells

(* The handler's update_cursor leaves legal values in the registers.       *)
LEMMA ShowsType ==
  ASSUME NEW x \in Int, NEW y \in Int, Shows(x, y)
  PROVE  /\ crt_index' \in Registers /\ crt' \in [Registers -> 0..(BYTE - 1)]
         /\ torn' \in BOOLEAN
<1>1. crt_index' \in Registers BY DEF Shows, Registers
<1>2. crt' \in [Registers -> 0..(BYTE - 1)] BY PositionType DEF Shows
<1>3. torn' \in BOOLEAN
  <2>1. CASE pc \in CursorSteps
    <3>1. torn' = TRUE BY <2>1, Zenon DEF Shows
    <3> QED BY <3>1
  <2>2. CASE pc \notin CursorSteps
    <3>1. torn' = (pc \in CursorSteps) BY Zenon DEF Shows
    <3>2. (pc \in CursorSteps) = FALSE BY <2>2
    <3> QED BY <3>1, <3>2
  <2> QED BY <2>1, <2>2
<1> QED BY <1>1, <1>2, <1>3

(* A key keeps all of IInv: whatever the handler does to the cursor leaves *)
(* it on the screen or where it was.                                       *)
LEMMA KeyboardInv ==
  ASSUME IInv, Keyboard
  PROVE  IInv'
<1> USE ScreenAssumption DEF IInv, CursorOnScreen, WritesVisible, Loaded,
        screen, line, Irq, cursor
<1>0. TypeOK OBVIOUS
<1> DEFINE CursorType == /\ crt_index \in Registers
                           /\ crt \in [Registers -> 0..(BYTE - 1)]
                           /\ torn \in BOOLEAN
<1>1. CASE KeyChar
  <2>1. Typed(1) /\ 1 \in Nat BY <1>1 DEF KeyChar
  <2> QED BY <1>0, <1>1, <2>1, TypedType DEF KeyChar, TypeOK
<1>2. CASE KeyTab
  <2>1. Typed(4) /\ 4 \in Nat BY <1>2 DEF KeyTab
  <2> QED BY <1>0, <1>2, <2>1, TypedType DEF KeyTab, TypeOK
<1>3. CASE KeyEnter BY <1>3 DEF KeyEnter, TypeOK, Cells
<1>4. CASE KeyCtrl BY <1>4 DEF KeyCtrl, TypeOK
<1>5. CASE KeyCtrlL
  <2>1. CursorType' BY <1>5, ShowsType DEF KeyCtrlL
  <2> QED BY <1>5, <2>1 DEF KeyCtrlL, CleanBuffer, TypeOK, Cells
<1>6. CASE KeyBackspace
  <2>1. /\ buffer_position' \in 0..MAX_BUFFER_SIZE
        /\ keyboard_buffer' \in [Cells -> {"new", "old", "none"}]
    BY <1>6 DEF KeyBackspace, TypeOK, Cells
  <2>2. fault' \in BOOLEAN
    <3>1. CASE screen_x = 0 /\ screen_y = 0
      BY <1>6, <3>1 DEF KeyBackspace, TypeOK
    <3>2. CASE ~(screen_x = 0 /\ screen_y = 0)
      <4>1. fault' = ~Mapped(screen_x', screen_y')
        BY <1>6, <3>2, Zenon DEF KeyBackspace
      <4> QED BY <4>1, Zenon
    <3> QED BY <3>1, <3>2
  <2>3. screen_x' \in Int /\ screen_y' \in Int BY <1>6 DEF KeyBackspace, TypeOK
  <2>4. CursorType'
    <3>1. CASE UNCHANGED cursor BY <3>1 DEF TypeOK
    <3>2. CASE Shows(screen_x', screen_y') BY <2>3, <3>2, ShowsType
    <3> QED BY <1>6, <3>1, <3>2, Zenon DEF KeyBackspace
  <2> QED BY <1>6, <2>1, <2>2, <2>4 DEF KeyBackspace, TypeOK
<1>7. CASE Echo
  <2>1. fault' \in BOOLEAN
    <3>1. fault' = ~Mapped(screen_x, screen_y) BY <1>7, Zenon DEF Echo
    <3> QED BY <3>1, Zenon
  <2>2. PutX \in Int /\ PutY \in Int BY DEF TypeOK, PutX, PutY
  <2>3. CursorType'
    <3>1. CASE UNCHANGED cursor BY <3>1 DEF TypeOK
    <3>2. CASE Shows(PutX, PutY) BY <2>2, <3>2, ShowsType
    <3> QED BY <1>7, <3>1, <3>2, Zenon DEF Echo
  <2> QED BY <1>7, <2>1, <2>3 DEF Echo, TypeOK, PutX, PutY
<1> QED BY <1>1, <1>2, <1>3, <1>4, <1>5, <1>6, <1>7 DEF Keyboard

(* IInv is inductive.                                                      *)
LEMMA StepInv == IInv /\ [Next]_vars => IInv'
<1> SUFFICES ASSUME IInv, [Next]_vars PROVE IInv' OBVIOUS
<1>1. CASE Putc \/ SystemCall BY <1>1, SystemCallInv
<1>2. CASE Keyboard BY <1>2, KeyboardInv
<1>3. CASE Hung \/ UNCHANGED vars
  <2>1. UNCHANGED vars BY <1>3 DEF Hung
  <2> QED BY <2>1 DEF vars, IInv, TypeOK, CursorOnScreen, WritesVisible, Loaded
<1> QED BY <1>1, <1>2, <1>3 DEF Next

LEMMA Inductive == Spec => []IInv
  BY InitInv, StepInv, PTL DEF Spec

(* Every variable keeps its type: the line never outgrows its buffer and   *)
(* the cursor is at most one column and one row off the screen.            *)
THEOREM Typing == Spec => []TypeOK
<1>1. IInv => TypeOK BY DEF IInv
<1> QED BY <1>1, Inductive, PTL

(* However keys and putc interleave, the cursor is off the screen only in  *)
(* the middle of putc.                                                     *)
THEOREM OnScreen == Spec => []CursorOnScreen
<1>1. IInv => CursorOnScreen BY DEF IInv
<1> QED BY <1>1, Inductive, PTL

(* However keys and putc interleave, a program's character lands on the    *)
(* screen.                                                                 *)
THEOREM Visible == Spec => []WritesVisible
<1>1. IInv => WritesVisible BY DEF IInv
<1> QED BY <1>1, Inductive, PTL

-----------------------------------------------------------------------------

(* Every step keeps the cells of the current line filled by this line.     *)
LEMMA StepLine ==
  ASSUME TypeOK, CurrentLine, [Next]_vars
  PROVE  CurrentLine'
<1>0. /\ buffer_position \in 0..MAX_BUFFER_SIZE /\ MAX_BUFFER_SIZE \in Nat
      /\ keyboard_buffer \in [0..MAX_BUFFER_SIZE -> {"new", "old", "none"}]
  BY ScreenAssumption DEF TypeOK, Cells
<1> USE <1>0 DEF CurrentLine, Cells, line
<1>1. CASE Putc \/ SystemCall
  <2>1. UNCHANGED line
    BY <1>1, Zenon DEF Putc, SystemCall, LoadY, LoadX, Store, IncLoad, IncStore,
       TestX, WrapX, WrapLoad, WrapStore, NlLoad, NlStore, NlX, TestY, LastRow,
       Clear, CurY, CurX, IndexLow, OutLow, IndexHigh, OutHigh
  <2> QED BY <2>1
<1>2. CASE KeyChar BY <1>2 DEF KeyChar, Typed
<1>3. CASE KeyTab BY <1>3 DEF KeyTab, Typed
<1>4. CASE KeyEnter BY <1>4 DEF KeyEnter
<1>5. CASE KeyCtrl BY <1>5 DEF KeyCtrl
<1>6. CASE KeyCtrlL BY <1>6 DEF KeyCtrlL, CleanBuffer
<1>7. CASE KeyBackspace BY <1>7 DEF KeyBackspace
<1>8. CASE Echo BY <1>8 DEF Echo
<1>9. CASE Hung \/ UNCHANGED vars BY <1>9 DEF Hung, vars
<1> QED BY <1>1, <1>2, <1>3, <1>4, <1>5, <1>6, <1>7, <1>8, <1>9 DEF Next, Keyboard

(* No character of a line already entered or erased is part of the current *)
(* line.                                                                   *)
THEOREM Line == Spec => []CurrentLine
<1>1. Init => CurrentLine BY DEF Init, CurrentLine
<1>2. TypeOK /\ CurrentLine /\ [Next]_vars => CurrentLine' BY StepLine
<1> QED BY <1>1, <1>2, Typing, PTL DEF Spec

-----------------------------------------------------------------------------

(* update_cursor in the middle: every argument loaded is still the         *)
(* screen's, the index is the one just written, and the low register is    *)
(* done when the high one's turn comes.                                    *)
Drawn ==
  ~torn /\ ~fault =>
    /\ pc \in CursorSteps => ry = screen_y
    /\ pc \in CursorSteps \ {"cur_x"} => rx = screen_x
    /\ pc = "out_low" => crt_index = "low"
    /\ pc = "out_high" => crt_index = "high"
    /\ pc \in {"index_high", "out_high"} => crt["low"] = Low(rx, ry)

(* A step of the system call keeps both: update_cursor is the only part    *)
(* that ends a call, and it ends with both registers written.              *)
LEMMA SystemCallDrawn ==
  ASSUME TypeOK, Drawn, CursorFollows, Putc \/ SystemCall
  PROVE  Drawn' /\ CursorFollows'
<1>1. crt \in [Registers -> 0..(BYTE - 1)] /\ Registers = {"low", "high"}
  BY DEF TypeOK, Registers
<1> USE <1>1 DEF Drawn, CursorFollows, CursorSteps, At, Goto, screen, cursor
<1>2. CASE CurY \/ CurX BY <1>2 DEF CurY, CurX
<1>3. CASE IndexLow BY <1>3 DEF IndexLow
<1>4. CASE OutLow BY <1>4 DEF OutLow
<1>5. CASE IndexHigh BY <1>5 DEF IndexHigh
<1>6. CASE OutHigh
  <2>1. ~torn' /\ ~fault' => crt' = Position(screen_x', screen_y')
    <3>1. SUFFICES ASSUME ~torn, ~fault PROVE crt' = Position(screen_x, screen_y)
      BY <1>6 DEF OutHigh
    <3>2. crt' = [crt EXCEPT !["high"] = High(screen_x, screen_y)]
          /\ crt["low"] = Low(screen_x, screen_y)
      BY <1>6, <3>1 DEF OutHigh
    <3> QED BY <3>2 DEF Position
  <2> QED BY <1>6, <2>1 DEF OutHigh
<1>7. CASE \/ Putc \/ LoadY \/ LoadX \/ Store \/ IncLoad \/ IncStore \/ TestX
           \/ WrapX \/ WrapLoad \/ WrapStore \/ NlLoad \/ NlStore \/ NlX
           \/ TestY \/ LastRow \/ Clear
  <2>1. pc' \notin CursorSteps \cup {"idle"}
    BY <1>7 DEF Putc, LoadY, LoadX, Store, IncLoad, IncStore, TestX, WrapX,
       WrapLoad, WrapStore, NlLoad, NlStore, NlX, TestY, LastRow, Clear
  <2> QED BY <2>1
<1> QED BY <1>2, <1>3, <1>4, <1>5, <1>6, <1>7, Zenon DEF SystemCall

(* So does a key: it leaves the cursor where it was, or moves it and then  *)
(* either marks the update it interrupted or completes one of its own.     *)
LEMMA KeyboardDrawn ==
  ASSUME TypeOK, Drawn, CursorFollows, Keyboard
  PROVE  Drawn' /\ CursorFollows'
<1> USE DEF Drawn, CursorFollows
<1>1. CASE UNCHANGED <<screen, cursor, pc, rx, ry, fault>>
  BY <1>1 DEF screen, cursor
<1>2. CASE fault' BY <1>2
<1>3. CASE Shows(screen_x', screen_y') /\ UNCHANGED pc
  <2>1. CASE pc \in CursorSteps
    <3>1. torn' BY <1>3, <2>1, Zenon DEF Shows
    <3> QED BY <3>1
  <2>2. CASE pc \notin CursorSteps
    BY <1>3, <2>2 DEF Shows, CursorSteps
  <2> QED BY <2>1, <2>2
<1>4. CASE KeyChar \/ KeyTab \/ KeyEnter \/ KeyCtrl
  BY <1>1, <1>4, Zenon DEF KeyChar, KeyTab, KeyEnter, KeyCtrl
<1>5. CASE KeyCtrlL BY <1>3, <1>5 DEF KeyCtrlL
<1>6. CASE KeyBackspace
  <2>1. CASE screen_x = 0 /\ screen_y = 0
    BY <1>1, <1>6, <2>1, Zenon DEF KeyBackspace
  <2>2. CASE ~(screen_x = 0 /\ screen_y = 0)
    BY <1>2, <1>3, <1>6, <2>2, Zenon DEF KeyBackspace
  <2> QED BY <2>1, <2>2
<1>7. CASE Echo
  <2>1. CASE fault' BY <1>2, <2>1
  <2>2. CASE ~fault' BY <1>3, <1>7, <2>2 DEF Echo
  <2> QED BY <2>1, <2>2
<1> QED BY <1>4, <1>5, <1>6, <1>7 DEF Keyboard

(* However keys and putc interleave, the hardware cursor is right between  *)
(* two calls unless the last update itself was interrupted.                *)
THEOREM Follows == Spec => []CursorFollows
<1>1. Init => Drawn /\ CursorFollows BY DEF Init, Drawn, CursorFollows, CursorSteps
<1>2. ASSUME TypeOK, Drawn, CursorFollows, [Next]_vars
      PROVE  Drawn' /\ CursorFollows'
  <2>1. CASE Putc \/ SystemCall BY <1>2, <2>1, SystemCallDrawn
  <2>2. CASE Keyboard BY <1>2, <2>2, KeyboardDrawn
  <2>3. CASE Hung \/ UNCHANGED vars
    <3>1. UNCHANGED vars BY <2>3 DEF Hung
    <3> QED BY <1>2, <3>1 DEF vars, Drawn, CursorFollows
  <2> QED BY <1>2, <2>1, <2>2, <2>3 DEF Next
<1> QED BY <1>1, <1>2, Typing, PTL DEF Spec
=============================================================================
