------------------------------ MODULE BootBlock ------------------------------
(***************************************************************************)
(* What module Process takes for granted of the file system, compared with *)
(* the bytes of module FileSystem.  Process keeps of the boot block only   *)
(* whether the number of dentries is intact, too large or zero, and        *)
(* whether the number of inodes still covers the files; it looks names up  *)
(* in a table and says with ClobberedBy what a lookup leaves.              *)
(***************************************************************************)
EXTENDS FileSystem

(* The names of Process are those a string can be equal to and that no     *)
(* other name begins.  A name that is not one of them fills its dentry,    *)
(* and the type behind it is not a character of any request.  Characters   *)
(* are larger than the number of files, and programs do not have inode 0,  *)
(* which is the directory's.                                               *)
ASSUME NamesAssumption ==
  /\ \A i \in Named \ Plain : strlen(Directory[i]) > FILE_NAME_LENGTH
  /\ \A s \in Requests \cup Commands : \A k \in DOMAIN s : s[k] \notin 1..2
  /\ \A i \in Named : Dentries[i].file_name[0] > Cardinality(Named)
  /\ \A i \in Named : Dentries[i].file_type = 2 => Dentries[i].inode_index # 0

(* The boot block as Process sees it. *)
FsOf(h) ==
  [names |-> IF Word(h, 0) = 0 THEN "none"
             ELSE IF Word(h, 0) = Cardinality(Named) THEN "exact" ELSE "total",
   inodes |-> \A i \in Named : Dentries[i].inode_index <= Word(h, 4)]

DentryOf(i) ==
  [type |-> Dentries[i].file_type, inode |-> Dentries[i].inode_index,
   elf |-> Dentries[i].file_type = 2,
   class |-> LET n == strlen(Directory[i])
             IN  CASE n = 0 -> "empty" [] n \in 1..3 -> "short"
                   [] n = 4 -> "four"  [] n > 4 -> "long"]

P == INSTANCE Process WITH
  MAX_PROCESS_NUMBER <- 1, FDARRAY_MAX <- 2, RW_LIMIT <- 2,
  Dentries <- [i \in Plain |-> DentryOf(i)], Shell <- 0, Missing <- failure,
  fs <- FsOf(header), pid_check <- 0, cur_pid <- 0, new_pid <- 0,
  cur_process_ptr <- 0, filed_array <- 0, pcb <- 0, DT <- 0, tlb <- 0,
  frame <- 0, tss_esp0 <- 0, iflag <- 0, cpu <- 0, stale <- 0

(* What a call looks up, and the name of Process that it means by that.    *)
Wanted == IF call.kind = "load" THEN file_command(call.name) ELSE call.name
Begun(fname) ==
  {i \in Plain : strncmp(fname, Directory[i], strlen(Directory[i])) = 0}
Meant(fname) == IF Begun(fname) = {} THEN failure ELSE CHOOSE i \in Begun(fname) : TRUE

(* A lookup finds what Found and Lookup of Process say, a dentry copied     *)
(* through curdentry leaves one of the boot blocks that ClobberedBy lists,  *)
(* and execute gets at a program's bytes exactly when Loads says so.        *)
AsProcessSays ==
  pc = "idle" /\ call'.name # NULL =>
    LET n == Meant(Wanted')
        found == call'.found # failure
    IN  /\ found <=> P!Found(FsOf(header), n)
        /\ found => P!Lookup(n).class = DentryOf(call'.found).class
        /\ found /\ call'.kind # "load" =>
             FsOf(header') \in P!ClobberedBy(FsOf(header), P!Lookup(n))
        /\ call'.kind = "load" /\ n \in Plain /\ DentryOf(n).elf =>
             (pc' = "copy" <=> P!Loads(n))

(* Every lookup and load does to the bytes what module Process, which has  *)
(* no bytes, takes for granted.                                            *)
ProcessAbstraction == [][AsProcessSays]_vars
=============================================================================
