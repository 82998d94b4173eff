---------------------------- MODULE ProcessStack ----------------------------
(***************************************************************************)
(* What execute and halt promise, seen from outside: the programs that     *)
(* have been executed and have not halted form a stack, and the one on top *)
(* runs.  The stack never holds more than Limit programs.                  *)
(***************************************************************************)
EXTENDS Integers, Sequences

CONSTANTS Limit,     (* MAX_PROCESS_NUMBER *)
          Programs,  (* names execute accepts *)
          Ruin,      (* an image that is no program's any more *)
          Shell      (* the program at the bottom *)

VARIABLES stack,     (* the images, the root shell first *)
          power      (* "off", "on" (a program runs) or "dead" *)

svars == <<stack, power>>

Init == stack = <<>> /\ power = "off"

(* The machine starts with one shell. *)
Start == /\ power = "off" /\ power' = "on"
         /\ stack' = <<Shell>>

(* execute: a program starts on top. *)
Execute(p) == /\ power = "on" /\ Len(stack) < Limit
              /\ stack' = Append(stack, p) /\ UNCHANGED power

(* halt: the top goes and the program below it runs on. *)
Halt == /\ power = "on" /\ Len(stack) > 1
        /\ stack' = SubSeq(stack, 1, Len(stack) - 1) /\ UNCHANGED power

(* halt of the bottom program: it is replaced by a shell. *)
Replace == /\ power = "on" /\ Len(stack) = 1
           /\ stack' = <<Shell>> /\ UNCHANGED power

(* The machine stops for good; at most the top has gone, and no image but  *)
(* the last one left is harmed.                                            *)
Crash == /\ power = "on" /\ power' = "dead"
         /\ \E rest \in {stack, SubSeq(stack, 1, Len(stack) - 1)} :
              \/ stack' = rest
              \/ rest # <<>> /\ stack' = [rest EXCEPT ![Len(rest)] = Ruin]

Next == Start \/ (\E p \in Programs : Execute(p)) \/ Halt \/ Replace \/ Crash

Spec == Init /\ [][Next]_svars
=============================================================================
