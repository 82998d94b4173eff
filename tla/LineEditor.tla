----------------------------- MODULE LineEditor -----------------------------
(***************************************************************************)
(* What the keyboard promises a reader: one line is edited at its end, and *)
(* Enter hands it over whole and starts an empty one.  There is no queue:  *)
(* the first character of the next line takes the line handed over away.   *)
(***************************************************************************)
EXTENDS Sequences, Naturals

CONSTANTS Chars,   (* what can be typed into a line *)
          LIMIT    (* characters a line can hold *)

VARIABLES line,    (* the line being edited *)
          entered  (* the line handed over, if the next one is not begun: *)
                   (* a set of at most one line                           *)

Init == line = <<>> /\ entered = {}

(* A full line drops what is typed; otherwise the line handed over is no   *)
(* longer to be had.                                                       *)
Becomes(l) == line' = l /\ entered' = IF l = line THEN entered ELSE {}
Longer(l, c) == IF Len(l) < LIMIT THEN Append(l, c) ELSE l
Type(c) == Becomes(Longer(line, c))
Tab(c) == Becomes(Longer(Longer(Longer(Longer(line, c), c), c), c))

Erase == line # <<>> /\ Becomes(SubSeq(line, 1, Len(line) - 1))
Discard == Becomes(<<>>)
Enter == entered' = {line} /\ line' = <<>>

Next == (\E c \in Chars : Type(c) \/ Tab(c)) \/ Erase \/ Discard \/ Enter

Spec == Init /\ [][Next]_<<line, entered>>
=============================================================================
