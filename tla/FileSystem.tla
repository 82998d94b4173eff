----------------------------- MODULE FileSystem -----------------------------
(***************************************************************************)
(* The read-only file system (filesystem.c) at the level of the bytes that *)
(* its lookups read and write.                                             *)
(*                                                                         *)
(* curdentry, into which the drivers look names up, points at the boot     *)
(* block itself.  Its name therefore overlays dentry_num and inodes_num,   *)
(* and every lookup through it changes the two counters that the next      *)
(* lookup and the next read_data test.  The first 64 bytes of the boot     *)
(* block are kept as bytes (variable header); the dentries behind them and *)
(* the index nodes are never written and are constants.                    *)
(*                                                                         *)
(* A system call is never preempted by another one and the interrupt       *)
(* handlers do not touch this state.  A lookup is one action; the loop of  *)
(* read_data takes a step per block.                                       *)
(***************************************************************************)
EXTENDS Integers, FiniteSets, Lib

CONSTANTS
  FILE_NAME_LENGTH,   (* bytes of a name in a dentry *)
  DENTRY_LENGTH,      (* dentries in the boot block *)
  DATA_BLOCK_SIZE,
  WORD,               (* 2^32: lengths and offsets are taken modulo this *)
  INODES,             (* inodes_num of the image *)
  Dentries,           (* index -> [file_name, file_type, inode_index] *)
  IndexNodes,         (* inode -> [file_length, data_blocks] *)
  Requests,           (* names programs pass: functions ending in a 0 byte *)
  Commands,           (* commands they pass to execute, of the same form   *)
  Offsets, Lengths    (* what they pass with them *)

Bytes == 0..127
Blank == 32
Indices == 0..(DENTRY_LENGTH - 1)

(* Offsets in a dentry, and so in the part of the boot block it overlays.  *)
TYPE == FILE_NAME_LENGTH
INODE == FILE_NAME_LENGTH + 4
RESERVED == FILE_NAME_LENGTH + 8
Addresses == 0..RESERVED

ASSUME LayoutAssumption ==
  /\ FILE_NAME_LENGTH \in Nat /\ FILE_NAME_LENGTH >= 8
  /\ DENTRY_LENGTH \in Nat \ {0}
  /\ DATA_BLOCK_SIZE \in Nat \ {0}
  /\ WORD \in Nat /\ WORD > DATA_BLOCK_SIZE

(* The image: names are ASCII without blanks and fill the first indices,   *)
(* the other dentries are zero (there is one at least).  A character of a  *)
(* name is larger than the index of any file, and the fifth one, if there  *)
(* is one, than every inode: a lookup leaves it in inodes_num.  (A dot is  *)
(* not larger than every inode of src/filesys_img, but is no fifth one.)   *)
Named == {i \in Indices : Dentries[i].file_name[0] # 0}
ASSUME ImageAssumption ==
  /\ \A i \in Indices :
       /\ Dentries[i].file_name \in [0..(FILE_NAME_LENGTH - 1) -> Bytes]
       /\ Dentries[i].file_type \in 0..2
       /\ Dentries[i].inode_index \in DOMAIN IndexNodes
       /\ \A a \in 0..(FILE_NAME_LENGTH - 1) :
            LET c == Dentries[i].file_name[a]
            IN  c # 0 => /\ c # Blank
                         /\ \A j \in Named : c > j
                         /\ a = 4 => \A j \in Named : c > Dentries[j].inode_index
  /\ \E i \in Indices : \A j \in Indices : j \in Named <=> j < i
  /\ \A i \in Indices \ Named :
       /\ \A a \in 0..(FILE_NAME_LENGTH - 1) : Dentries[i].file_name[a] = 0
       /\ Dentries[i].file_type = 0 /\ Dentries[i].inode_index = 0
  /\ DOMAIN IndexNodes \subseteq Bytes /\ INODES \in Bytes
  /\ Cardinality(Named) \in Bytes
  /\ \A n \in DOMAIN IndexNodes :
       /\ n < INODES
       /\ IndexNodes[n].file_length \in Nat
       /\ IndexNodes[n].file_length + DATA_BLOCK_SIZE < WORD
       /\ IndexNodes[n].data_blocks \in [DOMAIN IndexNodes[n].data_blocks -> Nat]
  /\ Offsets \subseteq 0..(WORD - 1) /\ Lengths \subseteq 0..(WORD - 1)

(* What programs pass ends at its first 0 byte. *)
ASSUME RequestAssumption ==
  \A s \in Requests \cup Commands : \E k \in DOMAIN s :
    s \in [0..k -> Bytes] /\ s[k] = 0 /\ \A a \in 0..(k - 1) : s[a] # 0

VARIABLES
  header,   (* the boot block up to its dentries *)
  pc,       (* "idle", or "copy" in the loop of read_data *)
  call,     (* the last call: kind, name, and the index its lookup found *)
  rd,       (* the locals of read_data *)
  buf,      (* the caller's buffer: the data byte each cell holds *)
  result,   (* what the call returned *)
  printed   (* the numbers its lookup printed, as digits *)

vars == <<header, pc, call, rd, buf, result, printed>>

NULL == [a \in {} |-> 0]
None == <<>>          (* a cell of the buffer that was not written *)
failure == -1

-----------------------------------------------------------------------------
(* Bytes. *)

(* The little-endian word at address a. *)
Word(m, a) ==
  m[a] + 256 * (m[a + 1] + 256 * (m[a + 2] + 256 * m[a + 3]))

(* A dentry as it lies in memory.  Counts, types and inodes fit in a byte. *)
DentryBytes(d) ==
  [a \in Addresses |->
     IF a < TYPE THEN d.file_name[a]
     ELSE IF a = TYPE THEN d.file_type
     ELSE IF a = INODE THEN d.inode_index
     ELSE 0]

-----------------------------------------------------------------------------
(* Lookups. *)

dentry_num == Word(header, 0)
inodes_num == Word(header, 4)

Directory == [i \in Indices |-> DentryBytes(Dentries[i])]

(* read_dentry_by_name compares as many bytes as the dentry's name has, so *)
(* it takes the first dentry whose name is a prefix of fname.  The name of *)
(* a dentry is a string only if it is shorter than FILE_NAME_LENGTH.       *)
Matches_OnePast(fname) ==
  {i \in Indices : /\ i <= dentry_num
                   /\ strncmp(fname, Directory[i], strlen(Directory[i])) = 0}

Matches(fname) ==
  {i \in Indices : /\ i < dentry_num
                   /\ strncmp(fname, Directory[i], strlen(Directory[i])) = 0}

read_dentry_by_name(fname) ==
  IF fname = NULL \/ Matches(fname) = {} THEN failure
  ELSE CHOOSE i \in Matches(fname) : \A j \in Matches(fname) : i <= j

(* read_dentry_by_index copies type and inode, then the name up to its 0   *)
(* byte, then the reserved bytes up to theirs, which is the first.         *)
CopyDentry_TypeFirst(to, from) ==
  [a \in Addresses |->
     IF a < 8 THEN from[a + TYPE]
     ELSE IF a - 8 <= strlen(from) THEN from[a - 8]
     ELSE to[a]]

CopyDentry(to, from) ==
  [a \in Addresses |->
     IF a \in TYPE..(RESERVED - 1) THEN from[a]
     ELSE IF a = RESERVED THEN 0
     ELSE strcpy(to, 0, from)[a]]

(* The lookup every driver begins with: into curdentry. *)
ThroughCurdentry(fname) ==
  header' = IF read_dentry_by_name(fname) = failure THEN header
            ELSE CopyDentry(header, Directory[read_dentry_by_name(fname)])

Calls == [kind : {"none", "open", "read", "load", "list"},
          name : Requests \cup Commands \cup {NULL}, found : Indices \cup {failure}]

(* read_dentry_by_index prints type and inode, and the inode it copied.    *)
Prints(type, inode, copied) ==
  printed' = <<Decimal(type), Decimal(inode), Decimal(copied)>>

(* A lookup that found that dentry and left its copy as mydentry. *)
Looked(kind, name, found, mydentry) ==
  /\ call' = [kind |-> kind, name |-> name, found |-> found]
  /\ IF found = failure THEN printed' = <<>>
     ELSE Prints(Word(Directory[found], TYPE), Word(Directory[found], INODE),
                 Word(mydentry, INODE))

Called(kind, fname, mydentry) ==
  Looked(kind, fname, read_dentry_by_name(fname), mydentry)

-----------------------------------------------------------------------------
Idle == [inode |-> 0, offset |-> 0, asked |-> 0, length |-> 0, i |-> 0,
         ending |-> 0, buf_offset |-> 0]
Empty == [k \in 0..(WORD - 1) |-> None]

Init ==
  /\ header = [a \in Addresses |-> IF a = 0 THEN Cardinality(Named)
                                   ELSE IF a = 4 THEN INODES ELSE 0]
  /\ pc = "idle" /\ result = 0
  /\ call = [kind |-> "none", name |-> NULL, found |-> failure]
  /\ rd = Idle /\ buf = Empty /\ printed = <<>>

(* The call ends; rd keeps what read_data was asked for, if it was called. *)
Ends(r, asked) == pc' = "idle" /\ result' = r /\ rd' = asked /\ buf' = Empty
Returns(r) == Ends(r, Idle)

(* file_open and directory_open. *)
FileOpen(fname) ==
  /\ pc = "idle"
  /\ ThroughCurdentry(fname) /\ Called("open", fname, header')
  /\ Returns(IF call'.found = failure THEN failure ELSE 0)

(* All of it is unsigned; a length that wraps around stays uncut.      *)
Clipped_Never(n, offset, length) == length

Clipped(n, offset, length) ==
  IF (length + offset) % WORD > IndexNodes[n].file_length
  THEN IndexNodes[n].file_length - offset ELSE length

(* A read_data that passes its tests is at the loop. *)
Begins(n, offset, length) ==
  LET len == Clipped(n, offset, length)
  IN  /\ rd' = [inode |-> n, offset |-> offset, asked |-> length,
                length |-> len, i |-> offset \div DATA_BLOCK_SIZE,
                ending |-> ((offset + len) % WORD) \div DATA_BLOCK_SIZE,
                buf_offset |-> 0]
      /\ pc' = "copy" /\ buf' = Empty /\ result' = 0

Refused(n, offset, length) ==
  Ends(failure, [Idle EXCEPT !.inode = n, !.offset = offset, !.asked = length])

read_data_NoOffsetTest(count, n, offset, length) == Begins(n, offset, length)

read_data_AtEnd(count, n, offset, length) ==
  IF n > count \/ offset >= IndexNodes[n].file_length
  THEN Refused(n, offset, length) ELSE Begins(n, offset, length)

(* read_data up to its loop, called when inodes_num is count. *)
read_data(count, n, offset, length) ==
  IF n > count \/ offset > IndexNodes[n].file_length
  THEN Refused(n, offset, length) ELSE Begins(n, offset, length)

(* file_read: the inode test uses the count that the lookup just left.     *)
FileRead(fname, offset, length) ==
  /\ pc = "idle"
  /\ ThroughCurdentry(fname) /\ Called("read", fname, header')
  /\ IF call'.found = failure THEN Returns(failure)
     ELSE read_data(Word(header', 4), Word(header', INODE), offset, length)

(* What execute takes for the program's name: the command behind its       *)
(* leading blanks.  The loop that copies it tests the first character of   *)
(* the name in every round, so blanks behind the name do not end it.       *)
Blanks(command) ==
  CHOOSE n \in DOMAIN command :
    command[n] # Blank /\ \A a \in 0..(n - 1) : command[a] = Blank

file_command(command) ==
  [a \in 0..(strlen(command) - Blanks(command)) |-> command[a + Blanks(command)]]

(* execute looks that name up into a dentry of its own and reads from 0.   *)
Load(command, length) ==
  LET found == read_dentry_by_name(file_command(command))
  IN  /\ pc = "idle"
      /\ Looked("load", command, found, Directory[found])
      /\ IF found = failure THEN Returns(failure)
         ELSE read_data(inodes_num, Word(Directory[found], INODE), 0, length)
      /\ UNCHANGED header

Block(n, i) == IF i \in DOMAIN IndexNodes[n].data_blocks
               THEN IndexNodes[n].data_blocks[i] ELSE 0

Chunk_Whole == DATA_BLOCK_SIZE

Chunk == IF DATA_BLOCK_SIZE > rd.length - rd.buf_offset
         THEN rd.length - rd.buf_offset ELSE DATA_BLOCK_SIZE

CopyBlock_SkipsEmpty ==
  /\ pc = "copy" /\ rd.i <= rd.ending
  /\ rd' = [rd EXCEPT !.i = IF Chunk > 0 THEN @ + 1 ELSE @,
                      !.buf_offset = @ + Chunk]
  /\ UNCHANGED <<header, pc, call, buf, result, printed>>

(* One round of the loop: every block is copied from its beginning.        *)
CopyBlock ==
  /\ pc = "copy" /\ rd.i <= rd.ending
  /\ buf' = [k \in 0..(WORD - 1) |->
               IF k \in rd.buf_offset..(rd.buf_offset + Chunk - 1)
               THEN <<Block(rd.inode, rd.i), k - rd.buf_offset>>
               ELSE buf[k]]
  /\ rd' = [rd EXCEPT !.i = @ + 1, !.buf_offset = @ + Chunk]
  /\ UNCHANGED <<header, pc, call, result, printed>>

CopyDone ==
  /\ pc = "copy" /\ rd.i > rd.ending
  /\ pc' = "idle" /\ result' = rd.buf_offset
  /\ UNCHANGED <<header, call, rd, buf, printed>>

(* directory_read limits the length by the name in curdentry before the    *)
(* lookup, and copies the name after it.  The first test is signed, the    *)
(* second is not.                                                          *)
ListLength(length) ==
  LET cut == IF length < WORD \div 2 /\ length > FILE_NAME_LENGTH
             THEN FILE_NAME_LENGTH ELSE length
  IN  IF cut > strlen(header) THEN strlen(header) ELSE cut

DirectoryRead_CopyFirst(fname, length) ==
  /\ pc = "idle"
  /\ ThroughCurdentry(fname) /\ Called("list", fname, header')
  /\ buf' = [k \in 0..(WORD - 1) |->
               IF k < ListLength(length) THEN <<header[k]>> ELSE None]
  /\ result' = ListLength(length) /\ pc' = "idle" /\ rd' = Idle

DirectoryRead(fname, length) ==
  /\ pc = "idle"
  /\ ThroughCurdentry(fname) /\ Called("list", fname, header')
  /\ buf' = [k \in 0..(WORD - 1) |->
               IF k < ListLength(length) THEN <<header'[k]>> ELSE None]
  /\ result' = ListLength(length) /\ pc' = "idle" /\ rd' = Idle

Next ==
  \/ \E fname \in Requests \cup {NULL} :
       \/ FileOpen(fname)
       \/ \E length \in Lengths :
            \/ \E offset \in Offsets : FileRead(fname, offset, length)
            \/ DirectoryRead(fname, length)
  \/ \E command \in Commands, length \in Lengths : Load(command, length)
  \/ CopyBlock \/ CopyDone

(* A read_data that has begun goes on: it waits for nothing. *)
Spec == Init /\ [][Next]_vars /\ WF_vars(CopyBlock \/ CopyDone)

-----------------------------------------------------------------------------
(* Properties. *)

(* Every variable has its type.  The header's bytes stay ASCII or small.   *)
TypeOK ==
  /\ header \in [Addresses -> Bytes]
  /\ pc \in {"idle", "copy"}
  /\ call \in Calls
  /\ rd.inode \in DOMAIN IndexNodes \cup {0}
  /\ \A f \in DOMAIN Idle \ {"inode"} : rd[f] \in 0..WORD
  /\ DOMAIN buf = 0..(WORD - 1)
  /\ result \in -1..(WORD - 1)
  /\ Len(printed) \in {0, 3}

(* A name a dentry can hold with its 0 byte, that no dentry's name is a    *)
(* proper prefix of.                                                       *)
NameBytes(i) == [a \in 0..strlen(Directory[i]) |-> Directory[i][a]]
Prefix(j, i) == \A a \in 0..(strlen(Directory[j]) - 1) :
                  Directory[i][a] = Directory[j][a]
Plain == {i \in Named : /\ strlen(Directory[i]) < FILE_NAME_LENGTH
                        /\ \A j \in Named \ {i} : ~Prefix(j, i)}

(* The first word of a command. *)
FirstWord(command) ==
  LET from == Blanks(command)
      to == CHOOSE n \in DOMAIN command : /\ n >= from /\ command[n] \in {0, Blank}
                                          /\ \A a \in from..(n - 1) : command[a] # Blank
  IN  [a \in 0..(to - from) |-> IF a = to - from THEN 0 ELSE command[a + from]]

Asked == IF call.kind = "load" THEN FirstWord(call.name) ELSE call.name

(* Whatever was looked up before, and whatever that wrote over the number  *)
(* of dentries, a listed name finds its own dentry, also as first word of  *)
(* a command with blanks and arguments (execute does not cut those off);   *)
(* the only other outcome is that it finds nothing because the number of   *)
(* dentries has become 0.                                                  *)
OwnDentry ==
  \A i \in Plain : Asked = NameBytes(i) =>
    call.found = i \/ (call.found = failure /\ dentry_num = 0)

(* The scan never stops short of a file because of what lookups wrote: the *)
(* count is 0 or still covers every named dentry.                          *)
CountCovers == dentry_num = 0 \/ \A i \in Named : i < dentry_num

(* file_read of a file whose name has five characters or more fails only   *)
(* for an offset behind its end, never on the number of inodes, although   *)
(* its own lookup has just overwritten that number with its name.          *)
LongNameReads ==
  call.kind = "read" /\ pc = "idle" /\ result = failure
  /\ call.found \in Named /\ strlen(Directory[call.found]) > 4
    => rd.offset > IndexNodes[Dentries[call.found].inode_index].file_length

(* read_data never writes past the length asked for.                       *)
WithinRequest ==
  call.kind \in {"read", "load"} => \A k \in DOMAIN buf : buf[k] # None => k < rd.asked

(* The byte of a file at a position. *)
FileByte(n, position) ==
  <<Block(n, position \div DATA_BLOCK_SIZE), position % DATA_BLOCK_SIZE>>

Delivers ==
  LET rest == IndexNodes[rd.inode].file_length - rd.offset
  IN  /\ result = IF rd.asked < rest THEN rd.asked ELSE rest
      /\ \A k \in 0..(result - 1) : buf[k] = FileByte(rd.inode, rd.offset + k)

Completed == pc = "idle" /\ call.kind \in {"read", "load"} /\ result # failure
             /\ rd.offset + rd.asked < WORD

(* A read from the beginning of a block returns as many bytes as were      *)
(* asked for or are left in the file, and they are the file's bytes.       *)
AlignedRead == Completed /\ rd.offset % DATA_BLOCK_SIZE = 0 => Delivers

(* A directory read returns the name that was found, as far as it goes,    *)
(* not the name of an earlier call.                                        *)
ListsFoundName ==
  call.kind = "list" /\ call.found # failure =>
    \A k \in 0..(result - 1) : k <= strlen(Directory[call.found]) =>
      buf[k] = <<Directory[call.found][k]>>

(* What a lookup prints are the decimal numbers of the entry it found and  *)
(* of the inode it left with its caller.                                   *)
Value(s) == LET v[k \in 0..Len(s)] == IF k = 0 THEN 0 ELSE 10 * v[k - 1] + s[k]
            IN  v[Len(s)]
PrintsNumbers ==
  call.found # failure =>
    /\ Value(printed[1]) = Dentries[call.found].file_type
    /\ Value(printed[2]) = Dentries[call.found].inode_index
    /\ Value(printed[3]) = Dentries[call.found].inode_index

(* The loop of read_data ends, also for lengths that wrap around.          *)
ReadEnds == pc = "copy" ~> pc = "idle"

(* filesystem.c:82 "offset, into the inode", :97 "fetching all content     *)
(* after offset": a read returns the bytes at the offset.                  *)
ReadsAtOffset == Completed => Delivers

-----------------------------------------------------------------------------
(* The inductive invariant. *)

(* The first byte of each count is a character of a name, 0, or still what *)
(* the image said; the last byte ends every name.                          *)
HeaderInv ==
  /\ header \in [Addresses -> Bytes] /\ header[RESERVED] = 0
  /\ header[0] = 0 \/ \A i \in Named : header[0] > i
  /\ header[4] = 0 \/ \A i \in Named : header[4] >= Dentries[i].inode_index

Reads == call.kind \in {"read", "load"}

(* Where the loop of read_data stands. *)
Position == (rd.i - rd.offset \div DATA_BLOCK_SIZE) * DATA_BLOCK_SIZE
Aligned == rd.offset + rd.asked < WORD /\ rd.offset % DATA_BLOCK_SIZE = 0
Copied == \A k \in 0..(rd.buf_offset - 1) : buf[k] = FileByte(rd.inode, rd.offset + k)

LoopInv ==
  /\ Reads /\ rd.inode \in DOMAIN IndexNodes
  /\ rd.offset <= IndexNodes[rd.inode].file_length
  /\ rd.length = Clipped(rd.inode, rd.offset, rd.asked)
  /\ rd.ending = ((rd.offset + rd.length) % WORD) \div DATA_BLOCK_SIZE
  /\ Aligned => /\ rd.offset \div DATA_BLOCK_SIZE <= rd.i /\ rd.i <= rd.ending + 1
                /\ rd.buf_offset = IF Position < rd.length THEN Position ELSE rd.length
                /\ Copied

(* The buffer is written from its beginning on, up to the length.          *)
BufferInv ==
  /\ rd \in [inode : DOMAIN IndexNodes \cup {0}, offset : 0..(WORD - 1),
             asked : 0..(WORD - 1), length : 0..(WORD - 1), i : 0..WORD,
             ending : 0..(WORD - 1), buf_offset : 0..(WORD - 1)]
  /\ rd.buf_offset <= rd.length /\ rd.length <= rd.asked
  /\ DOMAIN buf = 0..(WORD - 1)
  /\ Reads => \A k \in 0..(WORD - 1) : k >= rd.buf_offset => buf[k] = None
  /\ pc = "copy" => LoopInv

IInv == /\ TypeOK /\ HeaderInv /\ BufferInv /\ OwnDentry /\ LongNameReads
        /\ AlignedRead /\ ListsFoundName
=============================================================================
