------------------------------ MODULE Process ------------------------------
(***************************************************************************)
(* The process layer of the kernel (process.c): the process table, the     *)
(* process control blocks with their file descriptor arrays, and the       *)
(* context a system call hands back to user mode (current process, user    *)
(* page, kernel stack, interrupt flag).                                    *)
(*                                                                         *)
(* One process runs at a time and a system call of this module is one      *)
(* action: execute and halt run with interrupts off, and the two interrupt *)
(* handlers touch nothing of this state except the dead words below the    *)
(* kernel stack pointer (variable stale).                                  *)
(*                                                                         *)
(* A PCB lives at END_OF_KERNEL - KERNEL_STACK_SIZE * (pid + 1), so a PCB  *)
(* pointer is represented by its pid and NULL by None.  The same goes for  *)
(* a kernel stack top (PCB + KERNEL_STACK_SIZE - 4) and for the 4 MB user  *)
(* frame of a process (frame number 2 + pid).                              *)
(***************************************************************************)
EXTENDS Integers

CONSTANTS
  MAX_PROCESS_NUMBER,  (* slots of the process table *)
  FDARRAY_MAX,         (* entries of a file descriptor array *)
  RW_LIMIT,            (* read and write refuse descriptors from here on *)
  Dentries,            (* the directory: name -> [type, inode, elf, class] *)
  Shell,               (* the name the kernel itself executes *)
  Missing              (* a name that is not in the directory *)

Names == DOMAIN Dentries

(* How much of the boot block a dentry's name overwrites when the dentry   *)
(* is copied there: see ClobberedBy.                                       *)
Classes == {"empty", "short", "four", "long"}

ASSUME SizesAssumption ==
  /\ MAX_PROCESS_NUMBER \in Nat \ {0}
  /\ FDARRAY_MAX \in Nat /\ FDARRAY_MAX >= 2
  /\ RW_LIMIT \in 0..FDARRAY_MAX

ASSUME DirectoryAssumption ==
  /\ \A n \in Names : /\ Dentries[n].type \in 0..2
                      /\ Dentries[n].inode \in Nat
                      /\ Dentries[n].elf \in BOOLEAN
                      /\ Dentries[n].class \in Classes \ {"empty"}
  /\ Missing \notin Names
  /\ Shell \in Names /\ Dentries[Shell].elf

Pids == 0..(MAX_PROCESS_NUMBER - 1)
None == -1
PidOrNone == Pids \cup {None}
Fds == 0..(FDARRAY_MAX - 1)

(* Indices of file_operation_table. *)
RTC == 0
DIR == 1
REG == 2
TERMINAL == 3

VARIABLES
  pid_check,        (* slot -> 1 when taken *)
  cur_pid,          (* the running process *)
  new_pid,          (* the slot execute took last *)
  cur_process_ptr,  (* PCB of the running process *)
  filed_array,      (* whose file descriptor array the system calls use *)
  pcb,              (* the PCBs: parent_pid, tss_esp0, fd_array *)
  DT,               (* whose frame page directory entry 32 names *)
  tlb,              (* whose frame user addresses reach *)
  frame,            (* the program image each 4 MB user frame holds; Missing *)
                    (* when it holds no program's                            *)
  tss_esp0,         (* whose kernel stack the next system call uses *)
  iflag,            (* the interrupt flag *)
  cpu,              (* "boot", "user", "hung" or "wild" *)
  stale,            (* what open will find in its local "current" *)
  fs                (* the boot block, as far as lookups can tell *)

vars == <<pid_check, cur_pid, new_pid, cur_process_ptr, filed_array, pcb, DT,
          tlb, frame, tss_esp0, iflag, cpu, stale, fs>>

context == <<cur_pid, new_pid, cur_process_ptr, filed_array, DT, tlb, frame,
             tss_esp0>>

-----------------------------------------------------------------------------
(* The boot block.  curdentry points at the boot block itself, so a dentry *)
(* copied through it overwrites dentry_num and inodes_num with its name.   *)
(*   names   "exact": dentry_num is the real count; "total": it is larger, *)
(*           and the scan then ends at an all-zero dentry whose empty name *)
(*           matches every string; "none": it is zero                      *)
(*   inodes  the inodes of the files are still below inodes_num            *)

EmptyDentry == [type |-> RTC, inode |-> 0, elf |-> FALSE, class |-> "empty"]

FsStates == [names : {"exact", "total", "none"}, inodes : BOOLEAN]

(* read_dentry_by_name succeeds, and the dentry it finds. *)
Found(f, n) == \/ n \in Names /\ f.names # "none"
               \/ f.names = "total"

Lookup(n) == IF n \in Names THEN Dentries[n] ELSE EmptyDentry

(* The boot blocks that copying dentry d over the boot block can leave.    *)
(* An empty name writes one byte, the low byte of dentry_num.  A name of   *)
(* four characters ends inside inodes_num and clears its low byte, a       *)
(* longer one leaves a character there.                                    *)
ClobberedBy(f, d) ==
  CASE d.class = "empty" -> {[f EXCEPT !.names = x] : x \in {"total", "none"}}
    [] d.class = "short" -> {[f EXCEPT !.names = "total"]}
    [] d.class = "four"  -> {[names |-> "total", inodes |-> b] :
                                b \in {f.inodes, FALSE}}
    [] d.class = "long"  -> {[names |-> "total", inodes |-> TRUE]}

(* read_data delivers an ELF header for the program named n. *)
Loads(n) == Found(fs, n) /\ Lookup(n).elf /\ fs.inodes

-----------------------------------------------------------------------------
(* Process control blocks.  In "wild" kernel memory was overwritten: the   *)
(* variables keep the values of the moment before, and no property says    *)
(* anything of them from then on.                                          *)

Closed == [flags |-> 0, driver |-> RTC, inode |-> 0]
Standard == [flags |-> 1, driver |-> TERMINAL, inode |-> 0]

FdEntries == [flags : {0, 1}, driver : 0..3, inode : Nat \cup {-1}]
Pcbs == [parent_pid : PidOrNone, tss_esp0 : PidOrNone,
         fd_array : [Fds -> FdEntries]]

BlankPcb == [parent_pid |-> 0, tss_esp0 |-> None,
             fd_array |-> [i \in Fds |-> Closed]]

(* What initialize_PCB makes of PCB b in slot p: standard input and output *)
(* on the terminal; of the other descriptors only the flags are reset.     *)
InitializedPcb_OneStream(b, p, parent) ==
  [parent_pid |-> parent, tss_esp0 |-> p,
   fd_array |-> [i \in Fds |-> IF i < 1 THEN Standard
                               ELSE [b.fd_array[i] EXCEPT !.flags = 0]]]

InitializedPcb_KeepsFlags(b, p, parent) ==
  [parent_pid |-> parent, tss_esp0 |-> p,
   fd_array |-> [i \in Fds |-> IF i < 2 THEN Standard ELSE b.fd_array[i]]]

InitializedPcb(b, p, parent) ==
  [parent_pid |-> parent, tss_esp0 |-> p,
   fd_array |-> [i \in Fds |-> IF i < 2 THEN Standard
                               ELSE [b.fd_array[i] EXCEPT !.flags = 0]]]

-----------------------------------------------------------------------------
Init ==
  /\ pid_check = [p \in Pids |-> 0]
  /\ cur_pid = None /\ new_pid = None
  /\ cur_process_ptr = None /\ filed_array = None
  /\ pcb = [p \in Pids |-> BlankPcb]
  /\ DT = None /\ tlb = None
  /\ frame = [p \in Pids |-> Missing]
  /\ tss_esp0 = None
  /\ iflag = TRUE /\ cpu = "boot"
  /\ stale = "bad"
  /\ fs = [names |-> "exact", inodes |-> TRUE]

(* The slot execute takes, given the table. *)
FreeSlots(check) == {p \in Pids : check[p] = 0}
FirstFree(check) == CHOOSE p \in FreeSlots(check) :
                      \A q \in FreeSlots(check) : p <= q

(* Page directory entry 32 is rewritten, then the TLB is flushed.          *)
SwitchPage_NoFlush(p) == DT' = p /\ tlb' = tlb
SwitchPage(p) == DT' = p /\ tlb' = DT'

(* read_data copies the file to a user address.                            *)
LoadImage_BeforeSwitch(n) == frame' = [frame EXCEPT ![tlb] = n]
LoadImage(n) == frame' = [frame EXCEPT ![tlb'] = n]

(* initialize_PCB: the PCB and the three pointers to it.                   *)
InstallPcb_KeepsTable(p, parent) ==
  /\ pcb' = [pcb EXCEPT ![p] = InitializedPcb(pcb[p], p, parent)]
  /\ cur_process_ptr' = p /\ cur_pid' = p
  /\ filed_array' = IF filed_array = None THEN p ELSE filed_array

InstallPcb(p, parent) ==
  /\ pcb' = [pcb EXCEPT ![p] = InitializedPcb(pcb[p], p, parent)]
  /\ cur_process_ptr' = p /\ cur_pid' = p
  /\ filed_array' = cur_process_ptr'

(* execute from the slot search on, called with the table check and with   *)
(* parent in cur_pid: slot, user page, program image, PCB, TSS, then IRET. *)
(* The kernel stack of the slot is either unused or was left by halt,      *)
(* which pushed its status where open will look.                           *)
Launch(n, check, parent) ==
  LET p == FirstFree(check) IN
  /\ pid_check' = [check EXCEPT ![p] = 1]
  /\ new_pid' = p
  /\ SwitchPage(p)
  /\ LoadImage(n)
  /\ InstallPcb(p, parent)
  /\ tss_esp0' = pcb'[cur_process_ptr'].tss_esp0
  /\ iflag' = TRUE /\ cpu' = "user"
  /\ stale' = "bad"

(* An exception handler prints its message and never leaves its loop.      *)
Hang(flag) == cpu' = "hung" /\ iflag' = flag

(* entry: the kernel executes the shell. *)
Boot == /\ cpu = "boot"
        /\ Loads(Shell)
        /\ Launch(Shell, pid_check, cur_pid)
        /\ UNCHANGED fs

(* The execute system call, of a program that loads while a slot is free.  *)
ExecuteProgram(n) ==
  /\ cpu = "user"
  /\ Loads(n)
  /\ FreeSlots(pid_check) # {}
  /\ Launch(n, pid_check, cur_pid)
  /\ UNCHANGED fs

(* execute of a name that is not found, is not an ELF file or cannot be    *)
(* read, or with the table full.  The prologue leaves the command pointer  *)
(* (in ebx) in the word open will find; IRET restores the interrupt flag.  *)
ExecuteFails(n) ==
  /\ cpu = "user"
  /\ ~Loads(n) \/ FreeSlots(pid_check) = {}
  /\ stale' = "user"
  /\ UNCHANGED <<pid_check, context, pcb, iflag, cpu, fs>>

(* execute measures the command before it looks whether it is NULL; page 0 *)
(* is not present.                                                         *)
ExecuteNull ==
  /\ cpu = "user"
  /\ Hang(FALSE)
  /\ UNCHANGED <<pid_check, context, pcb, stale, fs>>

(* close, which never returns.  Its search copies all dentries, once per   *)
(* descriptor, to wherever its uninitialised local points.  What an        *)
(* earlier call or interrupt left there is an address that is not mapped,  *)
(* one in user memory, or one in the kernel.  The search ends with the     *)
(* index FDARRAY_MAX, and close calls through the word after the array,    *)
(* which is the pid: the page fault comes here if not before.              *)
CloseSearch(flag) ==
  /\ iflag' = flag
  /\ \/ cpu' = "hung" /\ frame' \in {frame, [frame EXCEPT ![tlb'] = Missing]}
     \/ cpu' = "wild" /\ UNCHANGED frame

(* halt of a process that has a parent.  The slot is freed and the TSS and *)
(* the page directory are switched to the parent; then it calls close(2),  *)
(* with interrupts off and with the parent's memory at user addresses.     *)
HaltChild ==
  LET parent == pcb[cur_process_ptr].parent_pid IN
  /\ cpu = "user"
  /\ parent # None
  /\ pid_check' = [pid_check EXCEPT ![cur_pid] = 0]
  /\ tss_esp0' = pcb[parent].tss_esp0
  /\ SwitchPage(parent)
  /\ CloseSearch(FALSE)
  /\ UNCHANGED <<cur_pid, new_pid, cur_process_ptr, filed_array, pcb, stale, fs>>

(* halt of the root shell executes a new shell in its place ...            *)
HaltRoot_KeepsCurPid ==
  /\ cpu = "user"
  /\ pcb[cur_process_ptr].parent_pid = None
  /\ Loads(Shell)
  /\ Launch(Shell, [pid_check EXCEPT ![cur_pid] = 0], cur_pid)
  /\ UNCHANGED fs

HaltRoot ==
  /\ cpu = "user"
  /\ pcb[cur_process_ptr].parent_pid = None
  /\ Loads(Shell)
  /\ Launch(Shell, [pid_check EXCEPT ![cur_pid] = 0], None)
  /\ UNCHANGED fs

(* ... and when that fails it goes on with the PCB of parent -1, whose     *)
(* address END_OF_KERNEL is not mapped.                                    *)
HaltRootFails ==
  /\ cpu = "user"
  /\ pcb[cur_process_ptr].parent_pid = None
  /\ ~Loads(Shell)
  /\ pid_check' = [pid_check EXCEPT ![cur_pid] = 0]
  /\ cur_pid' = None
  /\ Hang(FALSE)
  /\ UNCHANGED <<new_pid, cur_process_ptr, filed_array, pcb, DT, tlb, frame,
                 tss_esp0, stale, fs>>

-----------------------------------------------------------------------------
(* The file system calls.  fd is what the user passes.                     *)

FdTable == pcb[filed_array].fd_array
FreeFds == {i \in Fds : FdTable[i].flags = 0}

(* The entry open makes for dentry d: an RTC has inode -1. *)
Opened(d) == [flags |-> 1, driver |-> d.type,
              inode |-> IF d.type = RTC THEN -1 ELSE d.inode]

(* open of a name that is not found. *)
OpenMissing(n) ==
  /\ cpu = "user"
  /\ ~Found(fs, n)
  /\ UNCHANGED vars

(* open copies the dentry to wherever its uninitialised local points: that *)
(* page is not present, or it is the code of a driver, after which nothing *)
(* is known of the kernel.                                                 *)
OpenFaults(n) ==
  /\ cpu = "user"
  /\ Found(fs, n)
  /\ \/ stale = "bad" /\ cpu' = "hung"
     \/ stale = "text" /\ cpu' = "wild"
  /\ UNCHANGED <<pid_check, context, pcb, iflag, stale, fs>>

Open_OldInode(n) ==
  LET d == Lookup(n) IN
  /\ cpu = "user"
  /\ Found(fs, n) /\ stale = "user"
  /\ FreeFds # {}
  /\ \E i \in FreeFds :
       /\ \A j \in FreeFds : i <= j
       /\ pcb' = [pcb EXCEPT ![filed_array].fd_array[i] =
                              [Opened(d) EXCEPT !.inode = FdTable[i].inode]]
  /\ fs' \in IF d.type = RTC THEN {fs} ELSE ClobberedBy(fs, d)
  /\ UNCHANGED <<pid_check, context, iflag, cpu, stale>>

(* open with the local pointing at user memory (the command of an execute  *)
(* that failed).  The driver's own open looks the name up again, into      *)
(* curdentry.                                                              *)
Open(n) ==
  LET d == Lookup(n) IN
  /\ cpu = "user"
  /\ Found(fs, n) /\ stale = "user"
  /\ FreeFds # {}
  /\ \E i \in FreeFds :
       /\ \A j \in FreeFds : i <= j
       /\ pcb' = [pcb EXCEPT ![filed_array].fd_array[i] = Opened(d)]
  /\ fs' \in IF d.type = RTC THEN {fs} ELSE ClobberedBy(fs, d)
  /\ UNCHANGED <<pid_check, context, iflag, cpu, stale>>

OpenNoFd(n) ==
  /\ cpu = "user"
  /\ Found(fs, n) /\ stale = "user"
  /\ FreeFds = {}
  /\ UNCHANGED vars

(* The close system call, whatever fd it is given. *)
Close ==
  /\ cpu = "user"
  /\ UNCHANGED <<pid_check, cur_pid, new_pid, cur_process_ptr, filed_array, pcb,
                 DT, tlb, tss_esp0, stale, fs>>
  /\ CloseSearch(iflag)

Accepted(fd) == fd \in Fds /\ fd < RW_LIMIT /\ FdTable[fd].flags = 1

(* read that is refused, or reads the terminal or the RTC.  In every case  *)
(* the prologue of read pushes fd where open will look.                    *)
Read(fd) ==
  /\ cpu = "user"
  /\ Accepted(fd) /\ fd # 1 => FdTable[fd].driver \in {RTC, TERMINAL}
  /\ stale' = "bad"
  /\ UNCHANGED <<pid_check, context, pcb, iflag, cpu, fs>>

(* The driver is first called with an uninitialised name: NULL, or a       *)
(* string that is found or not.                                            *)
GarbageRead(f) ==
  {f} \cup UNION {ClobberedBy(f, Lookup(n)) :
                    n \in {m \in Names \cup {Missing} : Found(f, m)}}

(* Then, unless that call returned 0, with the name of the first dentry    *)
(* that has the inode of the descriptor.                                   *)
NameOf(i) == CHOOSE n \in Names : Dentries[n].inode = i /\ Dentries[n].type # RTC
NamedRead(f, i) ==
  IF Found(f, NameOf(i)) THEN ClobberedBy(f, Lookup(NameOf(i))) ELSE {f}

ReadFile(fd) ==
  /\ cpu = "user"
  /\ Accepted(fd) /\ fd # 1 /\ FdTable[fd].driver \in {DIR, REG}
  /\ stale' = "bad"
  /\ \/ /\ \E f \in GarbageRead(fs) :
            fs' \in {f} \cup NamedRead(f, FdTable[fd].inode)
        /\ UNCHANGED cpu
     \/ cpu' = "hung" /\ UNCHANGED fs
  /\ UNCHANGED <<pid_check, context, pcb, iflag>>

(* write leaves the address of the driver's write function where open will *)
(* look, unless it refuses the descriptor.                                 *)
Write(fd) ==
  /\ cpu = "user"
  /\ stale' = IF Accepted(fd) /\ fd # 0
              THEN "text" ELSE stale
  /\ UNCHANGED <<pid_check, context, pcb, iflag, cpu, fs>>

-----------------------------------------------------------------------------
(* getargs, vidmap, set_handler, sigreturn and the numbers outside 1..10.  *)
OtherCall == cpu = "user" /\ UNCHANGED vars

(* A keyboard or RTC interrupt taken in user mode runs on top of the       *)
(* kernel stack.                                                           *)
Interrupt ==
  /\ cpu = "user" /\ iflag
  /\ stale' = "bad"
  /\ UNCHANGED <<pid_check, context, pcb, iflag, cpu, fs>>

(* The program divides by zero, touches an absent page, ... *)
UserException ==
  /\ cpu = "user"
  /\ Hang(iflag)
  /\ UNCHANGED <<pid_check, context, pcb, stale, fs>>

(* The loop at the end of every exception handler; of a wild kernel        *)
(* nothing more is said.                                                   *)
Stopped == cpu \in {"hung", "wild"} /\ UNCHANGED vars

Next ==
  \/ Boot \/ ExecuteNull \/ HaltChild \/ HaltRoot \/ HaltRootFails
  \/ \E n \in Names \cup {Missing} :
       \/ ExecuteProgram(n) \/ ExecuteFails(n)
       \/ OpenMissing(n) \/ OpenFaults(n) \/ Open(n) \/ OpenNoFd(n)
  \/ \E fd \in 0..FDARRAY_MAX : Read(fd) \/ ReadFile(fd) \/ Write(fd)
  \/ Close \/ OtherCall \/ Interrupt \/ UserException \/ Stopped

Spec == Init /\ [][Next]_vars

-----------------------------------------------------------------------------
(* Properties. *)

(* The entries a descriptor in use can have: a standard stream, or what    *)
(* open makes of a dentry, whose driver and inode belong together.         *)
OpenEntries == {Standard} \cup {Opened(Lookup(n)) : n \in Names \cup {Missing}}

(* Every variable has its type, and every descriptor in use an entry that  *)
(* one dentry gave it as a whole.                                          *)
TypeOK ==
  /\ pid_check \in [Pids -> {0, 1}]
  /\ cur_pid \in PidOrNone /\ new_pid \in PidOrNone
  /\ cur_process_ptr \in PidOrNone /\ filed_array \in PidOrNone
  /\ pcb \in [Pids -> Pcbs]
  /\ \A p \in Pids, i \in Fds :
       pcb[p].fd_array[i].flags = 1 => pcb[p].fd_array[i] \in OpenEntries
  /\ DT \in PidOrNone /\ tlb \in PidOrNone
  /\ frame \in [Pids -> Names \cup {Missing}]
  /\ tss_esp0 \in PidOrNone
  /\ iflag \in BOOLEAN /\ cpu \in {"boot", "user", "hung", "wild"}
  /\ stale \in {"bad", "user", "text"}
  /\ fs \in FsStates

Live(p) == p \in Pids /\ pid_check[p] = 1

(* Whenever a program runs, every part of the context belongs to the same  *)
(* process: the PCB and descriptor array system calls will use, the kernel *)
(* stack they will run on, the page that user addresses reach through the  *)
(* TLB, and a slot that is taken.  Interrupts are on.                      *)
UserContext ==
  cpu = "user" =>
    /\ Live(cur_pid) /\ iflag
    /\ cur_process_ptr = cur_pid /\ filed_array = cur_pid
    /\ tss_esp0 = cur_pid /\ tlb = cur_pid /\ DT = tlb

(* In every state, one where the machine hangs in the middle of a halt     *)
(* included, the taken slots form a chain: a process has at most one       *)
(* child, its parent has not been freed, and only the root has none.  The  *)
(* running process is the end of the chain, so no process that waits in    *)
(* execute can be overtaken by, or resumed before, its descendants.        *)
ProcessChain ==
  /\ cpu # "wild" => \A p \in Pids : Live(p) =>
       LET parent == pcb[p].parent_pid IN
       /\ parent # None => Live(parent) /\ parent # p
       /\ \A q \in Pids : Live(q) /\ q # p => pcb[q].parent_pid # parent
  /\ cpu = "user" => \A p \in Pids : Live(p) => pcb[p].parent_pid # cur_pid

(* Standard input and output of every process stay on the terminal from    *)
(* its first instruction on, whatever slot it got and whatever was opened  *)
(* by the slot's former owner or by other processes.                       *)
StreamsKept ==
  \A p \in Pids : Live(p) =>
    pcb[p].fd_array[0] = Standard /\ pcb[p].fd_array[1] = Standard

StandardStreams == cpu # "wild" => StreamsKept

(* The inductive invariant behind the three.  The taken slots are always   *)
(* the slots below some pid and each was executed from the slot below it;  *)
(* while a program runs, that pid is the running process's.                *)
ChainBySlot ==
  \A p \in Pids : Live(p) =>
    /\ pcb[p].parent_pid = p - 1
    /\ pcb[p].tss_esp0 = p
    /\ \A q \in Pids : q < p => Live(q)

Running == cpu = "user" => \A p \in Pids : Live(p) <=> p <= cur_pid

NotStarted == cpu = "boot" =>
                cur_pid = None /\ \A p \in Pids : pid_check[p] = 0

IInv == TypeOK /\ NotStarted /\ UserContext /\ ChainBySlot /\ Running
        /\ StreamsKept

(* A step never changes the descriptors of a process other than the        *)
(* running one, and execute changes nothing of its caller's.  The same     *)
(* goes for their memory as long as programs run: only a close that stops  *)
(* the machine may hit it first.                                           *)
Isolation ==
  [][\A p \in Pids : Live(p) /\ Live(p)' /\ (p # cur_pid \/ p # cur_pid') =>
       /\ cpu' # "wild" => pcb'[p].fd_array = pcb[p].fd_array
       /\ cpu' = "user" => frame'[p] = frame[p]]_vars

(* The step starts a program in slot p: one that was free, or the root's,  *)
(* whose shell is replaced without the slot becoming free in between.      *)
Starts(p) == Live(p)' /\ (~Live(p) \/ HaltRoot)

(* A program starts with no descriptor of the former owner of its slot, be *)
(* it one that had halted or the root shell that it replaces; from then on *)
(* an open descriptor names the same file as long as the program lives.    *)
DescriptorsPersist ==
  [][\A p \in Pids, i \in Fds : Live(p)' /\ cpu' # "wild" =>
       IF Starts(p) THEN i >= 2 => pcb'[p].fd_array[i].flags = 0
       ELSE pcb[p].fd_array[i].flags = 1 => pcb'[p].fd_array[i] = pcb[p].fd_array[i]
    ]_vars

-----------------------------------------------------------------------------
(* The abstract view: a stack of program images (module ProcessStack).     *)

Depth == CHOOSE k \in 0..MAX_PROCESS_NUMBER :
           \A p \in Pids : Live(p) <=> p < k

Stack == INSTANCE ProcessStack WITH
           Limit <- MAX_PROCESS_NUMBER,
           Programs <- Names, Ruin <- Missing,
           stack <- [i \in 1..Depth |-> frame[i - 1]],
           power <- IF cpu = "boot" THEN "off"
                    ELSE IF cpu = "user" THEN "on" ELSE "dead"

(* The kernel implements the stack: a process starts on top of the process *)
(* that executed it, the images below the top are never touched, and only  *)
(* the top can go.                                                         *)
ImplementsStack == Stack!Spec

-----------------------------------------------------------------------------
(* Claims of comments in the code that the code does not keep.             *)

(* process.c:328 "deal with the return value to execute": a process that   *)
(* halts gives the processor back to the process that executed it.         *)
HaltResumesParent ==
  [][\A p \in Pids : Live(p) /\ ~Live(p)' /\ pcb[p].parent_pid # None =>
       cpu' = "user" /\ cur_pid' = pcb[p].parent_pid]_vars

(* process.c:369 "file array filled with entry", :370 "-1 for failure":    *)
(* open of a file that exists fills an entry or fails.                     *)
OpenReturns == [][\A n \in Names : OpenFaults(n) => cpu' = "user"]_vars
=============================================================================
