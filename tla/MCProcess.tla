----------------------------- MODULE MCProcess -----------------------------
(* Process for TLC: a directory with two programs, the directory itself    *)
(* and the RTC, whose names have the lengths that matter to the boot       *)
(* block.                                                                  *)
EXTENDS Process

MCDentries ==
  [dot   |-> [type |-> 1, inode |-> 0, elf |-> FALSE, class |-> "short"],
   rtc   |-> [type |-> 0, inode |-> 0, elf |-> FALSE, class |-> "short"],
   shell |-> [type |-> 2, inode |-> 1, elf |-> TRUE,  class |-> "long"],
   grep  |-> [type |-> 2, inode |-> 2, elf |-> TRUE,  class |-> "four"]]
=============================================================================
