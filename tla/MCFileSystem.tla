---------------------------- MODULE MCFileSystem ----------------------------
(* FileSystem for TLC: a directory, a program whose name has four          *)
(* characters, one whose name is longer, and one whose name fills all of   *)
(* its dentry.                                                             *)
EXTENDS BootBlock

CString(s) == [a \in 0..Len(s) |-> IF a < Len(s) THEN s[a + 1] ELSE 0]
Dentry(s, type, inode) ==
  [file_name |-> [a \in 0..7 |-> IF a < Len(s) THEN s[a + 1] ELSE 0],
   file_type |-> type, inode_index |-> inode]

(* ASCII *)
Dot == <<46>>
Grep == <<103, 114, 101, 112>>
GrepX == <<103, 114, 101, 112, 120>>
ShellName == <<115, 104, 101, 108, 108>>
LongName == <<118, 101, 114, 121, 108, 97, 114, 103>>
Unknown == <<122>>

MCDentries == [i \in 0..5 |->
  CASE i = 0 -> Dentry(Dot, 1, 0)
    [] i = 1 -> Dentry(Grep, 2, 10)
    [] i = 2 -> Dentry(ShellName, 2, 12)
    [] i = 3 -> Dentry(LongName, 2, 13)
    [] OTHER -> Dentry(<<>>, 0, 0)]

MCIndexNodes == [n \in {0, 10, 12, 13} |->
  CASE n = 0 -> [file_length |-> 0, data_blocks |-> [i \in {} |-> 0]]
    [] n = 10 -> [file_length |-> 3, data_blocks |-> [i \in 0..1 |-> 11 + i]]
    [] n = 12 -> [file_length |-> 5, data_blocks |-> [i \in 0..2 |-> 23 - i]]
    [] n = 13 -> [file_length |-> 2, data_blocks |-> [i \in 0..0 |-> 31]]]

MCRequests == {CString(s) : s \in {Dot, Grep, GrepX, ShellName, LongName, Unknown}}
MCCommands == MCRequests \cup {CString(<<Blank>> \o Grep \o <<Blank, Blank, 120>>)}
MCOffsets == {0, 1, 2, 3, 5, 6}
MCLengths == {0, 1, 2, 4, 12, 31}
=============================================================================
