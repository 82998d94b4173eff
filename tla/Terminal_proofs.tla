---------------------------- MODULE Terminal_proofs ----------------------------
(* Proofs about the line buffer and its readers, for every length of the   *)
(* line and every set of keys.                                             *)
EXTENDS Terminal, DataLemmas

-----------------------------------------------------------------------------
(* Lemmas on the helpers. *)

BufType == keyboard_buffer \in [Cells -> Chars] /\ buffer_position \in Cells

(* The buffer has a cell for each character and one for the newline.       *)
LEMMA Positions ==
  ASSUME BufType
  PROVE  /\ MAX_BUFFER_SIZE \in Nat /\ buffer_position \in Nat
         /\ buffer_position <= MAX_BUFFER_SIZE
         /\ \A k \in Int : k \in Cells <=> 0 <= k /\ k <= MAX_BUFFER_SIZE
<1>1. MAX_BUFFER_SIZE \in Nat
  BY BufferAssumption
<1>2. buffer_position \in 0..MAX_BUFFER_SIZE
  BY DEF BufType, Cells
<1>3. QED BY <1>1, <1>2 DEF Cells

LEMMA CharTypes ==
  /\ NUL \in Chars /\ Blank \in Chars
  /\ \A k \in Keys : key_pressed(k) \in Chars
<1>1. NUL \in Chars /\ Blank \in Chars
  BY DEF Chars
<1>2. \A k \in Keys, c \in 1..4 : scancode_map[k][c] \in Chars
  BY DEF Chars
<1>3. ASSUME NEW k \in Keys PROVE key_pressed(k) \in Chars
  <2>1. \E c \in 1..4 : key_pressed(k) = scancode_map[k][c]
    BY DEF key_pressed
  <2>2. QED BY <1>2, <2>1
<1>4. QED BY <1>1, <1>3

(* What a typed character does: at most the cells from buffer_position on  *)
(* change, and if one does, the line handed over is gone.                  *)
LEMMA TypedType ==
  ASSUME BufType, NEW c \in Chars, NEW count \in Nat, Typed(c, count)
  PROVE  /\ keyboard_buffer' \in [Cells -> Chars] /\ buffer_position' \in Cells
         /\ \/ UNCHANGED <<keyboard_buffer, buffer_position, entered, whole>>
            \/ entered' = {} /\ whole' = FALSE
<1> DEFINE end == IF buffer_position + count < MAX_BUFFER_SIZE
                  THEN buffer_position + count ELSE MAX_BUFFER_SIZE
<1>1. /\ keyboard_buffer' = [k \in Cells |->
            IF k \in buffer_position..(end - 1) THEN c ELSE keyboard_buffer[k]]
      /\ buffer_position' = end
      /\ IF end = buffer_position THEN UNCHANGED <<entered, whole>>
         ELSE entered' = {} /\ whole' = FALSE
  BY DEF Typed
<1>2. end \in Cells
  BY Positions
<1>3. ASSUME end = buffer_position
      PROVE  UNCHANGED <<keyboard_buffer, buffer_position, entered, whole>>
  <2>1. buffer_position..(end - 1) = {}
    BY <1>3, Positions
  <2>2. keyboard_buffer' = keyboard_buffer
    BY <1>1, <2>1 DEF BufType
  <2>3. QED BY <1>1, <1>3, <2>2
<1>4. ASSUME end # buffer_position
      PROVE  entered' = {} /\ whole' = FALSE
  BY <1>1, <1>4
<1>5. keyboard_buffer' \in [Cells -> Chars]
  BY <1>1 DEF BufType
<1> HIDE DEF end
<1>6. QED BY <1>1, <1>2, <1>3, <1>4, <1>5, Zenon

(* The line is a sequence. *)
LEMMA LineType ==
  ASSUME BufType
  PROVE  Line \in [1..buffer_position -> Chars] /\ Line \in Seq(Chars)
         /\ Len(Line) = buffer_position
<1>1. \A k \in 1..buffer_position : k - 1 \in Cells
  BY Positions
<1>2. Line \in [1..buffer_position -> Chars]
  BY <1>1 DEF Line, BufType
<1>3. QED BY <1>2, Positions, FunctionIsSeq

-----------------------------------------------------------------------------
(* What steps do to the modifiers. *)

ModType == /\ held \subseteq Modifiers /\ dropped \in BOOLEAN
           /\ Shift_pressed \in BOOLEAN
           /\ Ctrl_pressed \in BOOLEAN /\ Capslock_state \in BOOLEAN

LEMMA ModifierStep ==
  ASSUME ModType, ModifiersFollowKeys, NEW m \in Modifiers, Press(m) \/ Release(m)
  PROVE  ModType' /\ ModifiersFollowKeys'
<1>1. held' \subseteq Modifiers
  BY DEF ModType, Press, Release
<1>2. Capslock_state' \in BOOLEAN /\ dropped' \in BOOLEAN
  BY Zenon DEF ModType, Press, Release, Drops
<1>3. Shift_pressed' \in BOOLEAN /\ Ctrl_pressed' \in BOOLEAN
  BY Zenon DEF ModType, Press, Release
<1>4. ModType'
  BY <1>1, <1>2, <1>3 DEF ModType
<1>5. CASE m = "left_ctrl"
  <2>1. m \notin Shifts
    BY <1>5 DEF Shifts
  <2>2. Shift_pressed' = Shift_pressed
    BY <2>1 DEF Press, Release
  <2>3. dropped' <=> dropped
    BY <2>1 DEF Press, Release, Drops, ModType
  <2>4. held' \cap Shifts = held \cap Shifts
    BY <2>1 DEF Press, Release
  <2>5. Ctrl_pressed' <=> "left_ctrl" \in held'
    BY <1>5, <2>1 DEF Press, Release
  <2>6. QED BY <1>4, <2>2, <2>3, <2>4, <2>5 DEF ModifiersFollowKeys
<1>6. CASE m \in Shifts
  <2>1. m # "left_ctrl"
    BY <1>6 DEF Shifts
  <2>2. Ctrl_pressed' = Ctrl_pressed /\ ("left_ctrl" \in held' <=> "left_ctrl" \in held)
    BY <1>6, <2>1 DEF Press, Release
  <2>3. CASE Press(m)
    <3>1. Shift_pressed' /\ ~dropped'
      BY <1>6, <2>3 DEF Press
    <3>2. held' \cap Shifts # {}
      BY <1>6, <2>3 DEF Press
    <3>3. QED BY <1>4, <2>2, <3>1, <3>2 DEF ModifiersFollowKeys
  <2>4. CASE Release(m)
    <3>1. ~Shift_pressed' /\ (dropped' <=> held' \cap Shifts # {})
      BY <1>6, <2>4 DEF Release, Drops
    <3>2. QED BY <1>4, <2>2, <3>1 DEF ModifiersFollowKeys
  <2>5. QED BY <2>3, <2>4
<1>7. QED BY <1>5, <1>6 DEF Modifiers, Shifts

LEMMA CapsStep ==
  ASSUME ModType, ModifiersFollowKeys, CapsLock
  PROVE  ModType' /\ ModifiersFollowKeys'
<1>1. UNCHANGED <<held, dropped, Shift_pressed, Ctrl_pressed>> /\ Capslock_state' = ~Capslock_state
  BY DEF CapsLock
<1>2. Capslock_state' \in BOOLEAN
  BY <1>1, Zenon DEF ModType
<1>3. QED BY <1>1, <1>2, Zenon DEF ModType, ModifiersFollowKeys

LEMMA SameModifiers ==
  ASSUME ModType, ModifiersFollowKeys, UNCHANGED modifiers
  PROVE  ModType' /\ ModifiersFollowKeys'
BY Zenon DEF ModType, ModifiersFollowKeys, modifiers

-----------------------------------------------------------------------------
(* What keys do to the buffer. *)

BufferInv == BufType /\ Intact /\ Untouched /\ whole \in BOOLEAN

(* Enter hands the line over. *)
LEMMA EnterHands ==
  ASSUME BufType, Enter, Newline \in Chars
  PROVE  BufferInv' /\ whole' = FALSE
<1>1. /\ keyboard_buffer' = [keyboard_buffer EXCEPT ![buffer_position] = Newline]
      /\ buffer_position' = 0 /\ entered' = {Line} /\ whole' = FALSE
  BY DEF Enter, Enters
<1>2. keyboard_buffer' \in [Cells -> Chars]
  BY <1>1 DEF BufType
<1>3. 0 \in Cells
  BY Positions
<1>4. Line \in Seq(Chars) /\ Len(Line) = buffer_position
  BY LineType
<1>5. /\ \A k \in 1..buffer_position : Append(Line, Newline)[k] = Line[k]
      /\ Append(Line, Newline)[buffer_position + 1] = Newline
  BY <1>4, AppendProperties
<1>6. \A k \in 1..buffer_position : Line[k] = keyboard_buffer[k - 1]
  BY DEF Line
<1>7. ASSUME NEW k \in 1..(buffer_position + 1)
      PROVE  keyboard_buffer'[k - 1] = Append(Line, Newline)[k]
  <2>1. CASE k = buffer_position + 1
    <3>1. k - 1 = buffer_position
      BY <2>1, Positions
    <3>2. keyboard_buffer'[buffer_position] = Newline
      BY <1>1 DEF BufType
    <3>3. QED BY <1>5, <2>1, <3>1, <3>2
  <2>2. CASE k # buffer_position + 1
    <3>1. k \in 1..buffer_position /\ k - 1 \in Cells /\ k - 1 # buffer_position
      BY <1>7, <2>2, Positions
    <3>2. keyboard_buffer'[k - 1] = keyboard_buffer[k - 1]
      BY <1>1, <3>1 DEF BufType
    <3>3. QED BY <1>5, <1>6, <3>1, <3>2
  <2>3. QED BY <2>1, <2>2
<1>8. Chars' = Chars
  BY DEF Chars
<1>9. Intact'
  BY <1>1, <1>4, <1>7, Positions DEF Intact
<1>10. QED
  BY <1>1, <1>2, <1>3, <1>9 DEF BufferInv, BufType, Untouched

(* A step that leaves the line handed over where it lies.                  *)
LEMMA Kept ==
  ASSUME BufferInv, UNCHANGED <<keyboard_buffer, entered, whole>>,
         buffer_position' \in Cells, entered # {} => buffer_position' = 0
  PROVE  BufferInv'
<1>1. Intact'
  BY DEF BufferInv, Intact
<1>2. QED BY <1>1 DEF BufferInv, BufType, Untouched

LEMMA TypedHands ==
  ASSUME BufferInv, NEW c \in Chars, NEW count \in Nat, Typed(c, count)
  PROVE  BufferInv' /\ (whole' = FALSE \/ UNCHANGED <<entered, whole>>)
<1>1. /\ keyboard_buffer' \in [Cells -> Chars] /\ buffer_position' \in Cells
      /\ \/ UNCHANGED <<keyboard_buffer, buffer_position, entered, whole>>
         \/ entered' = {} /\ whole' = FALSE
  BY TypedType DEF BufferInv
<1>2. CASE UNCHANGED <<keyboard_buffer, buffer_position, entered, whole>>
  BY <1>1, <1>2, Kept DEF BufferInv, Untouched
<1>3. CASE entered' = {} /\ whole' = FALSE
  BY <1>1, <1>3 DEF BufferInv, BufType, Intact, Untouched
<1>4. QED BY <1>1, <1>2, <1>3

LEMMA KeysHand ==
  ASSUME BufferInv, (\E k \in Keys : Key(k)) \/ Tab \/ Backspace
  PROVE  BufferInv' /\ (whole' = FALSE \/ UNCHANGED <<entered, whole>>)
<1>1. 0 \in Cells
  BY Positions DEF BufferInv
<1>2. ASSUME NEW k \in Keys, Key(k)
      PROVE  BufferInv' /\ (whole' = FALSE \/ UNCHANGED <<entered, whole>>)
  <2>1. key_pressed(k) \in Chars
    BY CharTypes
  <2>2. CASE clean_buffer
    BY <1>1, <2>2, Kept DEF clean_buffer
  <2>3. CASE key_pressed(k) = Newline /\ Enter
    BY <2>1, <2>3, EnterHands DEF BufferInv
  <2>4. CASE Typed(key_pressed(k), 1)
    BY <2>1, <2>4, TypedHands
  <2>5. QED BY <1>2, <2>2, <2>3, <2>4 DEF Key
<1>3. CASE Tab
  BY <1>3, CharTypes, TypedHands DEF Tab
<1>4. CASE Backspace
  <2>1. buffer_position' \in Cells /\ buffer_position # 0
    BY <1>4, Positions DEF Backspace, BufferInv
  <2>2. QED BY <1>4, <2>1, Kept DEF Backspace, BufferInv, Untouched
<1>5. QED BY <1>2, <1>3, <1>4

-----------------------------------------------------------------------------
(* What a reader gets. *)

ReaderInv == /\ pc \in {"idle", "copy", "print"} /\ pass \in {1, 2}
             /\ n \in 0..MAX_BUFFER_SIZE /\ Len(t_buf) <= n
             /\ result \in -1..MAX_BUFFER_SIZE
             /\ Copied /\ ReadsEnteredLine

(* Keys change what is copied only where that no longer counts.            *)
LEMMA KeysReader ==
  ASSUME ReaderInv, UNCHANGED reader, whole' = FALSE \/ UNCHANGED <<entered, whole>>
  PROVE  ReaderInv'
<1>1. ReadsEnteredLine'
  BY DEF ReaderInv, ReadsEnteredLine, reader
<1>2. Copied'
  BY DEF ReaderInv, Copied, reader
<1>3. QED BY <1>1, <1>2 DEF ReaderInv, reader

(* Nothing has been copied. *)
LEMMA NothingCopied ==
  ASSUME t_buf' = <<>>, pc' \in {"idle", "copy", "print"}, pass' \in {1, 2},
         n' \in 0..MAX_BUFFER_SIZE, result' \in -1..MAX_BUFFER_SIZE
  PROVE  ReaderInv'
<1>1. <<>> \in Seq(Chars) /\ Len(<<>>) = 0
  BY EmptySeq
<1>2. Copied'
  BY <1>1 DEF Copied
<1>3. ReadsEnteredLine'
  BY <1>1 DEF ReadsEnteredLine
<1>4. QED BY <1>1, <1>2, <1>3 DEF ReaderInv

LEMMA CopyByteReader ==
  ASSUME BufferInv, ReaderInv, CopyByte
  PROVE  ReaderInv'
<1> DEFINE k == Len(t_buf)
<1>1. t_buf \in Seq(Chars) /\ k \in Nat /\ k < n /\ n \in 0..MAX_BUFFER_SIZE
  BY LenProperties DEF CopyByte, ReaderInv, Copied
<1>2. k \in Cells /\ keyboard_buffer[k] \in Chars
  BY <1>1, Positions DEF BufferInv, BufType
<1>3. /\ t_buf' \in Seq(Chars) /\ Len(t_buf') = k + 1
      /\ \A j \in 1..k : t_buf'[j] = t_buf[j]
      /\ t_buf'[k + 1] = keyboard_buffer[k]
  BY <1>1, <1>2, AppendProperties DEF CopyByte
<1>4. UNCHANGED <<buffer, pc, pass, n, result>> /\ pc = "copy"
  BY DEF CopyByte
<1> HIDE DEF k
<1>5. ASSUME whole, NEW l \in entered, NEW j \in 1..(k + 1), j <= Len(l) + 1
      PROVE  t_buf'[j] = Append(l, Newline)[j]
  <2>1. CASE j \in 1..k
    BY <1>3, <1>5, <2>1 DEF ReaderInv, ReadsEnteredLine, k
  <2>2. CASE j = k + 1
    <3>1. j - 1 = k /\ Len(l) \in Nat
      BY <1>1, <1>5, <2>2, LenProperties DEF BufferInv, Intact
    <3>2. keyboard_buffer[j - 1] = Append(l, Newline)[j]
      BY <1>5, <3>1 DEF BufferInv, Intact
    <3>3. t_buf'[j] = keyboard_buffer[k] /\ keyboard_buffer[j - 1] = keyboard_buffer[k]
      BY <1>3, <2>2, <3>1, Zenon
    <3>4. QED BY <3>2, <3>3, Zenon
  <2>3. j \in 1..k \/ j = k + 1
    BY <1>1
  <2>4. QED BY <2>1, <2>2, <2>3
<1>6. ReadsEnteredLine'
  BY <1>3, <1>4, <1>5 DEF ReadsEnteredLine, buffer
<1>7. Copied'
  BY <1>3, <1>4 DEF Copied
<1>8. QED BY <1>1, <1>3, <1>4, <1>6, <1>7 DEF ReaderInv

LEMMA ReaderStep ==
  ASSUME BufferInv, ReaderInv,
         (\E count \in -1..(MAX_BUFFER_SIZE + 1) : Read(count)) \/ Reading
  PROVE  BufferInv' /\ ReaderInv'
<1>1. MAX_BUFFER_SIZE \in Nat
  BY BufferAssumption
<1>2. ASSUME NEW count \in -1..(MAX_BUFFER_SIZE + 1), Read(count)
      PROVE  BufferInv' /\ ReaderInv'
  <2>1. t_buf' = <<>> /\ UNCHANGED buffer
    BY <1>2 DEF Read, Returns, ReaderInv, Copied
  <2>2. pc' \in {"idle", "copy", "print"} /\ pass' \in {1, 2}
    BY <1>2 DEF Read, Returns, ReaderInv
  <2>3. n' \in 0..MAX_BUFFER_SIZE /\ result' \in -1..MAX_BUFFER_SIZE
    BY <1>1, <1>2 DEF Read, Returns, ReaderInv
  <2>4. BufferInv'
    BY <2>1, Kept DEF buffer, BufferInv, BufType, Untouched
  <2>5. QED BY <2>1, <2>2, <2>3, <2>4, NothingCopied
<1>3. CASE CopyByte
  <2>1. BufferInv'
    BY <1>3, Kept DEF CopyByte, buffer, BufferInv, BufType, Untouched
  <2>2. QED BY <1>3, <2>1, CopyByteReader
<1>4. CASE FirstDone
  <2>1. t_buf' = <<>> /\ UNCHANGED buffer
    BY <1>4 DEF FirstDone, Returns
  <2>2. pc' \in {"idle", "copy", "print"} /\ pass' \in {1, 2}
    BY <1>4 DEF FirstDone, Returns, ReaderInv
  <2>3. n' \in 0..MAX_BUFFER_SIZE /\ result' \in -1..MAX_BUFFER_SIZE
    BY <1>1, <1>4 DEF FirstDone, Returns, ReaderInv
  <2>4. BufferInv'
    BY <2>1, Kept DEF buffer, BufferInv, BufType, Untouched
  <2>5. QED BY <2>1, <2>2, <2>3, <2>4, NothingCopied
<1>5. CASE Again
  <2>1. /\ t_buf' = <<>> /\ pc' = "copy" /\ pass' = 2 /\ n' = n /\ result' = result
        /\ UNCHANGED <<keyboard_buffer, buffer_position, entered>>
        /\ whole' = (entered # {})
    BY <1>5 DEF Again, ReaderInv, Copied
  <2>2. whole' \in BOOLEAN
    BY <2>1
  <2>3. Intact'
    BY <2>1 DEF BufferInv, Intact
  <2>4. BufferInv'
    BY <2>1, <2>2, <2>3 DEF BufferInv, BufType, Untouched
  <2>5. QED BY <2>1, <2>4, NothingCopied DEF ReaderInv
<1>6. CASE SecondDone
  <2>1. /\ t_buf' = <<>> /\ pc' = "idle" /\ pass' = 1 /\ n' = 0 /\ result' = n
        /\ UNCHANGED <<keyboard_buffer, buffer_position, entered>>
        /\ whole' = FALSE
    BY <1>6 DEF SecondDone, Returns
  <2>2. n' \in 0..MAX_BUFFER_SIZE /\ result' \in -1..MAX_BUFFER_SIZE
    BY <1>1, <2>1 DEF ReaderInv
  <2>3. Intact'
    BY <2>1 DEF BufferInv, Intact
  <2>4. BufferInv'
    BY <2>1, <2>3 DEF BufferInv, BufType, Untouched
  <2>5. QED BY <2>1, <2>2, <2>4, NothingCopied
<1>7. QED BY <1>2, <1>3, <1>4, <1>5, <1>6 DEF Reading

-----------------------------------------------------------------------------
(* The inductive invariant. *)

LEMMA Parts ==
  IInv <=> ModType /\ ModifiersFollowKeys /\ BufferInv /\ ReaderInv
<1>1. IInv => ModType /\ ModifiersFollowKeys
  BY Zenon DEF IInv, TypeOK, ModType
<1>2. IInv => BufferInv
  BY Zenon DEF IInv, TypeOK, BufferInv, BufType
<1>3. IInv => ReaderInv
  BY Zenon DEF IInv, TypeOK, ReaderInv
<1>4. ASSUME ModType, ModifiersFollowKeys, BufferInv, ReaderInv
      PROVE  IInv
  <2>1. \A l \in entered : Len(l) <= MAX_BUFFER_SIZE
    BY <1>4 DEF BufferInv, Intact
  <2>2. TypeOK
    BY <1>4, <2>1, Zenon DEF ModType, BufferInv, BufType, ReaderInv, TypeOK
  <2>3. QED BY <1>4, <2>2, Zenon DEF BufferInv, ReaderInv, IInv
<1>5. QED BY <1>1, <1>2, <1>3, <1>4

LEMMA InitInv == Init => IInv
<1> SUFFICES ASSUME Init PROVE IInv
  OBVIOUS
<1>1. ModType
  BY Zenon DEF Init, ModType
<1>2. ModifiersFollowKeys
  BY DEF Init, ModifiersFollowKeys, Shifts
<1>3. BufferInv
  <2>1. keyboard_buffer \in [Cells -> Chars]
    BY CharTypes DEF Init
  <2>2. 0 \in Cells
    <3>1. MAX_BUFFER_SIZE \in Nat
      BY BufferAssumption
    <3>2. QED BY <3>1 DEF Cells
  <2>3. whole \in BOOLEAN
    BY Zenon DEF Init
  <2>4. QED BY <2>1, <2>2, <2>3 DEF Init, BufferInv, BufType, Intact, Untouched
<1>4. ReaderInv
  <2>1. <<>> \in Seq(Chars) /\ Len(<<>>) = 0
    BY EmptySeq
  <2>2. n \in 0..MAX_BUFFER_SIZE /\ result \in -1..MAX_BUFFER_SIZE
    <3>1. MAX_BUFFER_SIZE \in Nat
      BY BufferAssumption
    <3>2. QED BY <3>1 DEF Init
  <2>3. QED BY <2>1, <2>2 DEF Init, ReaderInv, Copied, ReadsEnteredLine
<1>5. QED BY <1>1, <1>2, <1>3, <1>4, Parts

LEMMA StepInv == IInv /\ [Next]_vars => IInv'
<1> SUFFICES ASSUME ModType, ModifiersFollowKeys, BufferInv, ReaderInv, [Next]_vars
             PROVE  (ModType /\ ModifiersFollowKeys /\ BufferInv /\ ReaderInv)'
  BY Parts, PTL
<1>1. ASSUME UNCHANGED <<buffer, reader>>
      PROVE  BufferInv' /\ ReaderInv'
  <2>1. BufferInv'
    BY <1>1, Kept DEF buffer, BufferInv, BufType, Untouched
  <2>2. ReaderInv'
    BY <1>1, KeysReader DEF buffer
  <2>3. QED BY <2>1, <2>2
<1>2. ASSUME NEW m \in Modifiers, Press(m) \/ Release(m)
      PROVE  (ModType /\ ModifiersFollowKeys /\ BufferInv /\ ReaderInv)'
  <2>1. UNCHANGED <<buffer, reader>>
    BY <1>2 DEF Press, Release
  <2>2. QED BY <1>1, <1>2, <2>1, ModifierStep
<1>3. CASE CapsLock
  <2>1. UNCHANGED <<buffer, reader>>
    BY <1>3 DEF CapsLock
  <2>2. QED BY <1>1, <1>3, <2>1, CapsStep
<1>4. CASE (\E k \in Keys : Key(k)) \/ Tab \/ Backspace
  <2>1. UNCHANGED <<modifiers, reader>>
    BY <1>4 DEF Key, Tab, Backspace
  <2>2. BufferInv' /\ (whole' = FALSE \/ UNCHANGED <<entered, whole>>)
    BY <1>4, KeysHand
  <2>3. QED BY <2>1, <2>2, SameModifiers, KeysReader
<1>5. CASE (\E count \in -1..(MAX_BUFFER_SIZE + 1) : Read(count)) \/ Reading
  <2>1. UNCHANGED modifiers
    BY <1>5 DEF Read, Reading, CopyByte, FirstDone, Again, SecondDone
  <2>2. QED BY <1>5, <2>1, SameModifiers, ReaderStep
<1>6. CASE UNCHANGED vars
  <2>1. UNCHANGED <<buffer, reader>> /\ UNCHANGED modifiers
    BY <1>6 DEF vars
  <2>2. QED BY <1>1, <2>1, SameModifiers
<1>7. QED BY <1>2, <1>3, <1>4, <1>5, <1>6 DEF Next, Keyboard

LEMMA Inductive == Spec => []IInv
BY InitInv, StepInv, PTL DEF Spec

(* Every variable has its type; in particular no key ever writes behind    *)
(* the buffer, whose last cell is only ever a newline's.                   *)
THEOREM Typing == Spec => []TypeOK
BY Inductive, PTL DEF IInv

(* However presses, repeats and releases of the modifiers come, the flags  *)
(* are the keys, except that the release of one of two held shift keys     *)
(* counts as that of both until one is pressed or repeats.                 *)
THEOREM Modified == Spec => []ModifiersFollowKeys
BY Inductive, PTL DEF IInv

(* A second pass of a read that begins when a line has been handed over    *)
(* delivers that line, for every line length and whatever is typed before  *)
(* the first character of the next line.                                   *)
THEOREM Delivered == Spec => []ReadsEnteredLine
BY Inductive, PTL DEF IInv

-----------------------------------------------------------------------------
(* The buffer implements LineEditor. *)

(* The line with j more characters c, as far as they fit. *)
Extended(j, c) ==
  [k \in 1..(IF buffer_position + j < MAX_BUFFER_SIZE
             THEN buffer_position + j ELSE MAX_BUFFER_SIZE) |->
     IF k <= buffer_position THEN keyboard_buffer[k - 1] ELSE c]

LEMMA ExtendedType ==
  ASSUME BufType, NEW c \in Chars, NEW j \in Nat
  PROVE  LET end == IF buffer_position + j < MAX_BUFFER_SIZE
                    THEN buffer_position + j ELSE MAX_BUFFER_SIZE
         IN  /\ end \in Nat /\ Extended(j, c) \in [1..end -> Chars]
             /\ Len(Extended(j, c)) = end
<1> DEFINE end == IF buffer_position + j < MAX_BUFFER_SIZE
                  THEN buffer_position + j ELSE MAX_BUFFER_SIZE
<1>1. end \in Nat /\ end <= MAX_BUFFER_SIZE
  BY Positions
<1>2. ASSUME NEW k \in 1..end, k <= buffer_position
      PROVE  keyboard_buffer[k - 1] \in Chars
  <2>1. k - 1 \in Cells
    BY <1>1, <1>2, Positions
  <2>2. QED BY <2>1 DEF BufType
<1>3. Extended(j, c) = [k \in 1..end |->
                          IF k <= buffer_position THEN keyboard_buffer[k - 1] ELSE c]
  BY DEF Extended
<1> HIDE DEF end
<1>4. Extended(j, c) \in [1..end -> Chars]
  BY <1>2, <1>3
<1>5. Len(Extended(j, c)) = end
  BY <1>1, <1>4, FunctionIsSeq
<1>6. QED BY <1>1, <1>4, <1>5 DEF end

(* One character more is one Type of the editor. *)
LEMMA ExtendedLonger ==
  ASSUME BufType, NEW c \in Chars, NEW j \in Nat
  PROVE  Extended(j + 1, c) = Editor!Longer(Extended(j, c), c)
<1> DEFINE end == IF buffer_position + j < MAX_BUFFER_SIZE
                  THEN buffer_position + j ELSE MAX_BUFFER_SIZE
<1>1. /\ end \in Nat /\ Extended(j, c) \in [1..end -> Chars]
      /\ Len(Extended(j, c)) = end
  BY ExtendedType
<1>2. CASE buffer_position + j < MAX_BUFFER_SIZE
  <2>1. end = buffer_position + j /\ end + 1 <= MAX_BUFFER_SIZE
    BY <1>2, Positions
  <2>2. (IF buffer_position + (j + 1) < MAX_BUFFER_SIZE
         THEN buffer_position + (j + 1) ELSE MAX_BUFFER_SIZE) = end + 1
    BY <2>1, Positions
  <2>3. j + 1 \in Nat
    OBVIOUS
  <2>4. Extended(j + 1, c) \in [1..(end + 1) -> Chars]
    BY <2>2, <2>3, ExtendedType
  <2>5. \A k \in 1..(end + 1) : Extended(j + 1, c)[k] =
                                IF k <= buffer_position THEN keyboard_buffer[k - 1] ELSE c
    BY <2>2 DEF Extended
  <2>6. \A k \in 1..end : Extended(j, c)[k] =
                                IF k <= buffer_position THEN keyboard_buffer[k - 1] ELSE c
    BY DEF Extended
  <2>7. \A k \in 1..end : Extended(j + 1, c)[k] = Extended(j, c)[k]
    BY <1>1, <2>5, <2>6
  <2>8. Extended(j + 1, c)[end + 1] = c
    <3>1. end + 1 \in 1..(end + 1) /\ ~(end + 1 <= buffer_position)
      BY <2>1, Positions
    <3>2. QED BY <2>5, <3>1
  <2> HIDE DEF end
  <2>9. Extended(j + 1, c) = Append(Extended(j, c), Extended(j + 1, c)[end + 1])
    BY <1>1, <2>4, <2>7, OneMore
  <2>10. Len(Extended(j, c)) < MAX_BUFFER_SIZE
    BY <1>1, <2>1, Positions
  <2>11. QED BY <2>8, <2>9, <2>10 DEF Editor!Longer
<1>3. CASE ~(buffer_position + j < MAX_BUFFER_SIZE)
  <2>1. end = MAX_BUFFER_SIZE
    BY <1>3
  <2>2. (IF buffer_position + (j + 1) < MAX_BUFFER_SIZE
         THEN buffer_position + (j + 1) ELSE MAX_BUFFER_SIZE) = MAX_BUFFER_SIZE
    BY <1>3, Positions
  <2>3. Extended(j + 1, c) = Extended(j, c)
    BY <2>1, <2>2 DEF Extended
  <2>4. ~(Len(Extended(j, c)) < MAX_BUFFER_SIZE)
    BY <1>1, <2>1, Positions
  <2>5. QED BY <2>3, <2>4 DEF Editor!Longer
<1>4. QED BY <1>2, <1>3

LEMMA ExtendedByNone ==
  ASSUME BufType, NEW c
  PROVE  Extended(0, c) = Line
<1>1. (IF buffer_position + 0 < MAX_BUFFER_SIZE
       THEN buffer_position + 0 ELSE MAX_BUFFER_SIZE) = buffer_position
  BY Positions
<1>2. \A k \in 1..buffer_position : k <= buffer_position
  BY Positions
<1>3. QED BY <1>1, <1>2 DEF Extended, Line

(* What is typed extends the line; what does not fit changes nothing. *)
LEMMA TypedExtends ==
  ASSUME BufferInv, NEW c \in Chars, NEW count \in Nat, Typed(c, count)
  PROVE  Editor!Becomes(Extended(count, c))
<1> DEFINE end == IF buffer_position + count < MAX_BUFFER_SIZE
                  THEN buffer_position + count ELSE MAX_BUFFER_SIZE
<1>1. /\ keyboard_buffer' = [k \in Cells |->
            IF k \in buffer_position..(end - 1) THEN c ELSE keyboard_buffer[k]]
      /\ buffer_position' = end
      /\ entered' = IF end = buffer_position THEN entered ELSE {}
  BY DEF Typed
<1>2. /\ end \in Nat /\ end <= MAX_BUFFER_SIZE /\ buffer_position <= end
      /\ \A k \in 1..end : k - 1 \in Cells
      /\ \A k \in 1..end : k - 1 \in buffer_position..(end - 1)
                               <=> ~(k <= buffer_position)
  BY Positions DEF BufferInv
<1>3. Len(Extended(count, c)) = end
  BY ExtendedType DEF BufferInv
<1>4. Len(Line) = buffer_position
  BY LineType DEF BufferInv
<1>5. Extended(count, c) = [k \in 1..end |->
         IF k <= buffer_position THEN keyboard_buffer[k - 1] ELSE c]
  BY DEF Extended
<1>6. Extended(count, c) = Line <=> end = buffer_position
  <2>1. ASSUME end = buffer_position PROVE Extended(count, c) = Line
    <3>1. \A k \in 1..buffer_position : k <= buffer_position
      BY <1>2, <2>1
    <3>2. QED BY <1>5, <2>1, <3>1 DEF Line
  <2>2. QED BY <1>3, <1>4, <2>1
<1> HIDE DEF end
<1>7. Line' = [k \in 1..end |-> keyboard_buffer'[k - 1]]
  BY <1>1 DEF Line
<1>8. ASSUME NEW k \in 1..end
      PROVE  keyboard_buffer'[k - 1] =
               IF k <= buffer_position THEN keyboard_buffer[k - 1] ELSE c
  BY <1>1, <1>2, <1>8
<1>9. Line' = Extended(count, c)
  BY <1>5, <1>7, <1>8
<1>10. QED BY <1>1, <1>6, <1>9 DEF Editor!Becomes

(* The empty line. *)
LEMMA EmptyLine ==
  (buffer_position = 0 => Line = <<>>) /\ (buffer_position' = 0 => Line' = <<>>)
<1>1. 1..0 = {}
  OBVIOUS
<1>2. \A f : f = [k \in {} |-> f[k]] => f = <<>>
  OBVIOUS
<1>3. QED BY <1>1 DEF Line

(* Steps that leave the buffer alone leave the line alone. *)
LEMMA Stutters ==
  UNCHANGED <<keyboard_buffer, buffer_position, entered>> => UNCHANGED <<Line, entered>>
BY DEF Line

LEMMA DiscardStep ==
  ASSUME BufferInv, clean_buffer
  PROVE  Editor!Discard
<1>1. Line' = <<>>
  BY EmptyLine DEF clean_buffer
<1>2. <<>> = Line \/ entered = {}
  BY EmptyLine DEF BufferInv, Untouched
<1>3. QED BY <1>1, <1>2 DEF clean_buffer, Editor!Discard, Editor!Becomes

LEMMA EnterStep ==
  ASSUME Enter
  PROVE  Editor!Enter
BY EmptyLine DEF Enter, Enters, Editor!Enter

LEMMA EraseStep ==
  ASSUME BufferInv, Backspace
  PROVE  Editor!Erase
<1>1. buffer_position \in Nat \ {0} /\ buffer_position - 1 \in Nat
  BY Positions DEF BufferInv, Backspace
<1>2. Line \in [1..buffer_position -> Chars] /\ Len(Line) = buffer_position
  BY LineType DEF BufferInv
<1>3. Line' = [k \in 1..(buffer_position - 1) |-> keyboard_buffer[k - 1]]
  BY DEF Line, Backspace
<1>4. \A k \in 1..(buffer_position - 1) : k \in 1..buffer_position
  BY <1>1
<1>5. \A k \in 1..(buffer_position - 1) : Line'[k] = Line[k]
  BY <1>3, <1>4 DEF Line
<1>6. Line' \in [1..(buffer_position - 1) -> Chars]
  BY <1>2, <1>3, <1>4, <1>5
<1>7. Line' = SubSeq(Line, 1, Len(Line) - 1)
  BY <1>1, <1>2, <1>5, <1>6, OneLess
<1>8. entered = {} /\ entered' = entered
  BY <1>1 DEF BufferInv, Untouched, Backspace
<1>9. Line # <<>>
  <2>1. Len(<<>>) = 0
    BY EmptySeq
  <2>2. QED BY <1>1, <1>2, <2>1
<1>10. QED BY <1>7, <1>8, <1>9 DEF Editor!Erase, Editor!Becomes

(* A tab types four blanks, one behind the other. *)
LEMMA TabStep ==
  ASSUME BufferInv, Tab
  PROVE  Editor!Tab(Blank)
<1>1. Blank \in Chars
  BY CharTypes
<1>2. BufType
  BY DEF BufferInv
<1>3. Editor!Becomes(Extended(4, Blank))
  BY <1>1, TypedExtends DEF Tab
<1>4. Extended(0, Blank) = Line
  BY <1>2, ExtendedByNone
<1>5. \A j \in Nat : Extended(j + 1, Blank) = Editor!Longer(Extended(j, Blank), Blank)
  BY <1>1, <1>2, ExtendedLonger
<1>6. /\ Extended(1, Blank) = Editor!Longer(Extended(0, Blank), Blank)
      /\ Extended(2, Blank) = Editor!Longer(Extended(1, Blank), Blank)
      /\ Extended(3, Blank) = Editor!Longer(Extended(2, Blank), Blank)
      /\ Extended(4, Blank) = Editor!Longer(Extended(3, Blank), Blank)
  <2>1. 0 + 1 = 1 /\ 1 + 1 = 2 /\ 2 + 1 = 3 /\ 3 + 1 = 4
    OBVIOUS
  <2>2. 0 \in Nat /\ 1 \in Nat /\ 2 \in Nat /\ 3 \in Nat
    OBVIOUS
  <2>3. QED BY <1>5, <2>1, <2>2
<1>7. QED BY <1>3, <1>4, <1>6, Zenon DEF Editor!Tab

LEMMA KeyStep ==
  ASSUME BufferInv, NEW k \in Keys, Key(k)
  PROVE  Editor!Next
<1>1. key_pressed(k) \in Chars /\ BufType
  BY CharTypes DEF BufferInv
<1>2. CASE clean_buffer
  BY <1>2, DiscardStep DEF Editor!Next
<1>3. CASE Enter
  BY <1>3, EnterStep DEF Editor!Next
<1>4. CASE Typed(key_pressed(k), 1)
  <2>1. Editor!Becomes(Extended(1, key_pressed(k)))
    BY <1>1, <1>4, TypedExtends
  <2>2. Extended(0 + 1, key_pressed(k))
          = Editor!Longer(Extended(0, key_pressed(k)), key_pressed(k))
    BY <1>1, ExtendedLonger
  <2>3. Extended(0, key_pressed(k)) = Line
    BY <1>1, ExtendedByNone
  <2>4. Editor!Type(key_pressed(k))
    <3>1. 0 + 1 = 1
      OBVIOUS
    <3>2. QED BY <2>1, <2>2, <2>3, <3>1 DEF Editor!Type
  <2>5. QED BY <1>1, <2>4 DEF Editor!Next
<1>5. QED BY <1>2, <1>3, <1>4 DEF Key

(* Every step of the driver is a step of the editor or leaves it alone. *)
LEMMA EditorStep ==
  ASSUME IInv, [Next]_vars
  PROVE  [Editor!Next]_<<Line, entered>>
<1>1. BufferInv
  BY Parts
<1>2. ASSUME UNCHANGED buffer PROVE UNCHANGED <<Line, entered>>
  BY <1>2, Stutters DEF buffer
<1>3. ASSUME NEW m \in Modifiers, Press(m) \/ Release(m)
      PROVE  UNCHANGED <<Line, entered>>
  BY <1>2, <1>3 DEF Press, Release
<1>4. CASE CapsLock
  BY <1>2, <1>4 DEF CapsLock
<1>5. CASE \E k \in Keys : Key(k)
  BY <1>1, <1>5, KeyStep
<1>6. CASE Tab
  BY <1>1, <1>6, TabStep, CharTypes DEF Editor!Next
<1>7. CASE Backspace
  BY <1>1, <1>7, EraseStep DEF Editor!Next
<1>8. CASE \E count \in -1..(MAX_BUFFER_SIZE + 1) : Read(count)
  BY <1>2, <1>8 DEF Read
<1>9. CASE Reading
  <2>1. UNCHANGED <<keyboard_buffer, buffer_position, entered>>
    BY <1>9 DEF Reading, CopyByte, FirstDone, Again, SecondDone, buffer
  <2>2. QED BY <2>1, Stutters
<1>10. CASE UNCHANGED vars
  BY <1>2, <1>10 DEF vars
<1>11. QED BY <1>3, <1>4, <1>5, <1>6, <1>7, <1>8, <1>9, <1>10 DEF Next, Keyboard

(* The buffer, its position and the characters Enter leaves in it behave   *)
(* as a line that is edited at its end and handed over whole, for every    *)
(* length of the line.                                                     *)
THEOREM Edits == Spec => ImplementsLineEditor
<1>1. Init => Editor!Init
  BY EmptyLine DEF Init, Editor!Init
<1>2. QED
  BY <1>1, EditorStep, Inductive, PTL DEF Spec, ImplementsLineEditor, Editor!Spec
=============================================================================
