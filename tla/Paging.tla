------------------------------- MODULE Paging -------------------------------
(***************************************************************************)
(* The page directory and the page table (paging.c), from the zeroed       *)
(* tables of the image to the switches of the user page by execute and     *)
(* halt, with the translations the processor may keep of them.             *)
(*                                                                         *)
(* Loops take a step per entry, and a switch a step per store: execute and *)
(* halt run with interrupts off, but the processor may cache a translation *)
(* of the tables at any moment.  Of processes only what decides the switch *)
(* is kept; module Process has the rest.                                   *)
(***************************************************************************)
EXTENDS Integers, FiniteSets

CONSTANTS
  SIZE,                (* DIC_SIZE and TABLE_SIZE: entries of DT and of PT *)
  VIDEO,               (* VIDEO_MEM >> 12: the page of video memory *)
  USER,                (* USER_MEM >> 22: the directory entry of programs *)
  MAX_PROCESS_NUMBER

ASSUME LayoutAssumption ==
  /\ SIZE \in Nat /\ SIZE > 3
  /\ VIDEO \in 0..(SIZE - 1) /\ USER \in 3..(SIZE - 1)
  /\ MAX_PROCESS_NUMBER \in Nat \ {0}

KERNEL == 1            (* KERNEL_OFFSET >> 22 *)
KERNEL_END == 2        (* the entry behind the kernel's *)
NoPid == -1
Pids == 0..(MAX_PROCESS_NUMBER - 1)
Entries == 0..(SIZE - 1)

(* A directory entry names a 4 MB frame or, without PS, the page table; a  *)
(* table entry names a 4 KB page.  G is left out: CR4.PGE stays 0.         *)
PT_ADDR == -1
Entry(p, rw, us, ps, addr) == [P |-> p, RW |-> rw, US |-> us, PS |-> ps, addr |-> addr]
Zero == Entry(FALSE, FALSE, FALSE, FALSE, 0)

VARIABLES
  DT, PT,
  cr3, pse, pg,        (* CR3 holds DT, CR4.PSE, CR0.PG *)
  tlb,                 (* the translations the processor keeps *)
  pc,                  (* the next step of the kernel, or "user" *)
  i, j,                (* the loops of paging_init *)
  pid_check, parent,   (* which slots are taken, and whose child each is *)
  cur_pid,             (* the process that runs or is being put in place *)
  goal,                (* the pid whose frame is being mapped *)
  then                 (* what follows the switch: "load" or "hung" *)

tables == <<DT, PT>>
control == <<cr3, pse, pg>>
processes == <<pid_check, parent, cur_pid, goal, then>>
vars == <<tables, control, tlb, pc, i, j, processes>>

Init ==
  /\ DT = [e \in Entries |-> Zero] /\ PT = [e \in Entries |-> Zero]
  /\ cr3 = FALSE /\ pse = FALSE /\ pg = FALSE /\ tlb = {}
  /\ pc = "tables" /\ i = 0 /\ j = 0
  /\ pid_check = [p \in Pids |-> 0] /\ parent = [p \in Pids |-> NoPid]
  /\ cur_pid = NoPid /\ goal = NoPid /\ then = "load"

-----------------------------------------------------------------------------
(* The processor. *)

(* What an address in page e of directory entry d is translated to.  A 4   *)
(* MB entry has one page only.  Without PSE its frame would be taken for a *)
(* page table: nothing is known to be reachable then.                      *)
Frame(d, addr, us) == [at |-> <<d, 0>>, big |-> TRUE, addr |-> addr, us |-> us]
Page(d, e, us) == [at |-> <<d, e>>, big |-> FALSE, addr |-> PT[e].addr, us |-> us]
Walk(d, e) ==
  IF ~pg \/ ~cr3 \/ ~DT[d].P THEN {}
  ELSE IF DT[d].PS THEN IF pse THEN {Frame(d, DT[d].addr, DT[d].US)} ELSE {}
  ELSE IF PT[e].P THEN {Page(d, e, DT[d].US /\ PT[e].US)} ELSE {}
Translations == UNION {Walk(d, e) : d, e \in Entries}

(* The processor may keep any translation it could make. *)
Fill ==
  /\ pg
  /\ \E t \in Translations : /\ \A s \in tlb : s.at # t.at
                             /\ tlb' = tlb \cup {t}
  /\ UNCHANGED <<tables, control, pc, i, j, processes>>

(* What a program can reach. *)
UserReach == {t \in tlb \cup Translations : t.us}

-----------------------------------------------------------------------------
(* paging_init. *)

PT_entry(e) ==
  IF e = VIDEO THEN Entry(TRUE, TRUE, FALSE, FALSE, e)
  ELSE Entry(FALSE, TRUE, FALSE, FALSE, e)

(* Every entry but the first names the kernel's frame; only the first two  *)
(* are present.                                                            *)
DT_entry_AllPresent(e) ==
  IF e = 0 THEN Entry(TRUE, TRUE, TRUE, FALSE, PT_ADDR)
  ELSE Entry(TRUE, TRUE, FALSE, TRUE, KERNEL)

DT_entry(e) ==
  IF e = 0 THEN Entry(TRUE, TRUE, TRUE, FALSE, PT_ADDR)
  ELSE IF e = KERNEL THEN Entry(TRUE, TRUE, FALSE, TRUE, KERNEL)
  ELSE Entry(FALSE, FALSE, FALSE, TRUE, KERNEL)

PT_init_OnePast ==
  /\ pc = "tables" /\ i = 0 /\ j <= SIZE
  /\ PT' = [PT EXCEPT ![j] = PT_entry(j)] /\ j' = j + 1
  /\ UNCHANGED <<DT, control, tlb, pc, i, processes>>

(* The page table is filled before the first directory entry. *)
PT_init ==
  /\ pc = "tables" /\ i = 0 /\ j < SIZE
  /\ PT' = [PT EXCEPT ![j] = PT_entry(j)] /\ j' = j + 1
  /\ UNCHANGED <<DT, control, tlb, pc, i, processes>>

DT_init ==
  /\ pc = "tables" /\ (i = 0 => j = SIZE) /\ i < SIZE
  /\ DT' = [DT EXCEPT ![i] = DT_entry(i)] /\ i' = i + 1
  /\ UNCHANGED <<PT, control, tlb, pc, j, processes>>

TablesDone ==
  /\ pc = "tables" /\ i = SIZE /\ pc' = "set_cr3"
  /\ UNCHANGED <<tables, control, tlb, i, j, processes>>

(* set_crreg. *)
SetCr3 == pc = "set_cr3" /\ cr3' = TRUE /\ pc' = "set_pse"
          /\ UNCHANGED <<tables, pse, pg, tlb, i, j, processes>>

SetPse_Missing == pc = "set_pse" /\ pc' = "set_pg"
          /\ UNCHANGED <<tables, control, tlb, i, j, processes>>

SetPse == pc = "set_pse" /\ pse' = TRUE /\ pc' = "set_pg"
          /\ UNCHANGED <<tables, cr3, pg, tlb, i, j, processes>>
SetPg == pc = "set_pg" /\ pg' = TRUE /\ pc' = "boot"
         /\ UNCHANGED <<tables, cr3, pse, tlb, i, j, processes>>

-----------------------------------------------------------------------------
(* Processes. *)

(* execute takes the first free slot of table s for a child of process p,  *)
(* unless it fails before.                                                 *)
Takes_Parents(s, p) ==
  LET new == CHOOSE k \in Pids : s[k] = 0 /\ \A q \in Pids : q < k => s[q] # 0
  IN  /\ pid_check' = [s EXCEPT ![new] = 1] /\ parent' = [parent EXCEPT ![new] = p]
      /\ goal' = p /\ cur_pid' = new /\ then' = "load" /\ pc' = "clear"

Takes(s, p) ==
  LET new == CHOOSE k \in Pids : s[k] = 0 /\ \A q \in Pids : q < k => s[q] # 0
  IN  /\ pid_check' = [s EXCEPT ![new] = 1] /\ parent' = [parent EXCEPT ![new] = p]
      /\ goal' = new /\ cur_pid' = new /\ then' = "load" /\ pc' = "clear"

Execute ==
  /\ pc \in {"boot", "user"} /\ \E p \in Pids : pid_check[p] = 0
  /\ Takes(pid_check, cur_pid)
  /\ UNCHANGED <<tables, control, tlb, i, j>>

(* The kernel's own execute fails: it waits for ever. *)
BootFails == pc = "boot" /\ pc' = "hung"
             /\ UNCHANGED <<tables, control, tlb, i, j, processes>>

(* halt of a child maps its parent's frame again, and then never returns.  *)
HaltChild ==
  /\ pc = "user" /\ parent[cur_pid] # NoPid
  /\ pid_check' = [pid_check EXCEPT ![cur_pid] = 0]
  /\ goal' = parent[cur_pid] /\ then' = "hung" /\ pc' = "clear"
  /\ UNCHANGED <<tables, control, tlb, i, j, parent, cur_pid>>

(* halt of the root executes the shell. *)
HaltRoot ==
  /\ pc = "user" /\ parent[cur_pid] = NoPid
  /\ Takes([pid_check EXCEPT ![cur_pid] = 0], NoPid)
  /\ UNCHANGED <<tables, control, tlb, i, j>>

(* If that fails, halt goes on to the control block of process -1, at the  *)
(* end of the kernel's page; were it mapped, frame 2 + -1 would come next. *)
HaltRootFails ==
  /\ pc = "user" /\ parent[cur_pid] = NoPid
  /\ pid_check' = [pid_check EXCEPT ![cur_pid] = 0] /\ cur_pid' = NoPid
  /\ goal' = NoPid /\ then' = "hung"
  /\ pc' = IF Walk(KERNEL_END, 0) = {} THEN "hung" ELSE "clear"
  /\ UNCHANGED <<tables, control, tlb, i, j, parent>>

(* The switch: DT[USER] = 0, |= PD_MASK, |= (2 + pid) << 22, new CR3.      *)
ClearEntry ==
  /\ pc = "clear" /\ DT' = [DT EXCEPT ![USER] = Zero] /\ pc' = "mask"
  /\ UNCHANGED <<PT, control, tlb, i, j, processes>>
MaskEntry ==
  /\ pc = "mask" /\ pc' = "frame"
  /\ DT' = [DT EXCEPT ![USER] = Entry(TRUE, TRUE, TRUE, TRUE, DT[USER].addr)]
  /\ UNCHANGED <<PT, control, tlb, i, j, processes>>
FrameEntry ==
  /\ pc = "frame" /\ pc' = "flush"
  /\ LET was == DT[USER]
     IN  DT' = [DT EXCEPT ![USER] = Entry(was.P, was.RW, was.US, was.PS, 2 + goal)]
  /\ UNCHANGED <<PT, control, tlb, i, j, processes>>

tlb_flash_Missing ==
  /\ pc = "flush" /\ pc' = then
  /\ UNCHANGED <<tables, control, tlb, i, j, processes>>

tlb_flash ==
  /\ pc = "flush" /\ tlb' = {} /\ pc' = then
  /\ UNCHANGED <<tables, control, i, j, processes>>

(* execute copies the program through the user page, then IRET. *)
Load == pc = "load" /\ pc' = "user"
        /\ UNCHANGED <<tables, control, tlb, i, j, processes>>

Hung == pc = "hung" /\ UNCHANGED vars

Next ==
  \/ PT_init \/ DT_init \/ TablesDone \/ SetCr3 \/ SetPse \/ SetPg
  \/ Execute \/ BootFails \/ HaltChild \/ HaltRoot \/ HaltRootFails
  \/ ClearEntry \/ MaskEntry \/ FrameEntry \/ tlb_flash \/ Load
  \/ Fill \/ Hung

Spec == Init /\ [][Next]_vars

-----------------------------------------------------------------------------
(* Properties. *)

Steps == {"tables", "set_cr3", "set_pse", "set_pg", "boot", "clear", "mask",
          "frame", "flush", "load", "user", "hung"}
EntryType == [P : BOOLEAN, RW : BOOLEAN, US : BOOLEAN, PS : BOOLEAN,
              addr : {PT_ADDR} \cup Entries \cup 1..(MAX_PROCESS_NUMBER + 1)]

(* Every variable has its type. *)
TypeOK ==
  /\ DT \in [Entries -> EntryType] /\ PT \in [Entries -> EntryType]
  /\ cr3 \in BOOLEAN /\ pse \in BOOLEAN /\ pg \in BOOLEAN
  /\ pc \in Steps /\ i \in 0..SIZE /\ j \in 0..SIZE
  /\ pid_check \in [Pids -> {0, 1}] /\ parent \in [Pids -> Pids \cup {NoPid}]
  /\ cur_pid \in Pids \cup {NoPid} /\ goal \in Pids \cup {NoPid}
  /\ then \in {"load", "hung"}

(* From the instruction that turns paging on, the kernel's own frame and   *)
(* the video page, which it runs in and prints to, are translated to       *)
(* themselves and to nothing else.                                         *)
KernelReachable ==
  pg => \A t \in tlb \cup Translations :
    /\ t.at[1] = KERNEL => t = Frame(KERNEL, KERNEL, FALSE)
    /\ t.at[1] = 0 => t = Page(0, VIDEO, FALSE)
    /\ Walk(KERNEL, 0) # {} /\ Walk(0, VIDEO) # {}

(* tests.c, page_test_present: only the kernel's entry, the page table's   *)
(* and the video page's are present, besides the user page once programs   *)
(* run.                                                                    *)
NothingElseMapped ==
  pg => Translations \subseteq
          Walk(KERNEL, 0) \cup Walk(0, VIDEO) \cup Walk(USER, 0)

(* A running program, and execute while it copies one into place, reach    *)
(* the running process's own frame, by every translation the processor     *)
(* may still hold, and no other memory.                                    *)
OwnFrame ==
  pc \in {"load", "user"} => UserReach = {Frame(USER, 2 + cur_pid, TRUE)}

(* No step makes the kernel's frame a program's.  The failed restart of    *)
(* the root's shell is kept from it only by the hole behind the kernel.    *)
KernelPrivate == \A t \in UserReach : t.addr # KERNEL

(* Outside the four steps of a switch the processor keeps no translation   *)
(* that the tables no longer make.                                         *)
NoStaleTranslation ==
  pc \notin {"clear", "mask", "frame", "flush"} => tlb \subseteq Translations

-----------------------------------------------------------------------------
(* The inductive invariant. *)

UserEntry(addr) == Entry(TRUE, TRUE, TRUE, TRUE, addr)
Switching == {"clear", "mask", "frame", "flush"}
Starting == {"tables", "set_cr3", "set_pse", "set_pg", "boot"}

(* What the loops of paging_init have done so far. *)
Building ==
  pc = "tables" =>
    /\ \A e \in Entries : PT[e] = IF e < j THEN PT_entry(e) ELSE Zero
    /\ \A e \in Entries : DT[e] = IF e < i THEN DT_entry(e) ELSE Zero
    /\ i > 0 => j = SIZE

(* Afterwards only the entry of programs changes. *)
Built ==
  pc # "tables" =>
    /\ \A e \in Entries : PT[e] = PT_entry(e)
    /\ \A e \in Entries \ {USER} : DT[e] = DT_entry(e)

Controlled ==
  /\ cr3 <=> pc \notin {"tables", "set_cr3"}
  /\ pse <=> pc \notin {"tables", "set_cr3", "set_pse"}
  /\ pg <=> pc \notin {"tables", "set_cr3", "set_pse", "set_pg"}

(* The slots in use are those up to the running process, each the child of *)
(* the one below; a process that is put in place is the one that runs.     *)
InSlots ==
  /\ pc \in Starting =>
       cur_pid = NoPid /\ \A p \in Pids : pid_check[p] = 0
  /\ pc \in Switching \cup {"load", "user"} /\ then = "load" =>
       /\ cur_pid \in Pids /\ goal = cur_pid
       /\ \A p \in Pids : pid_check[p] = IF p <= cur_pid THEN 1 ELSE 0
       /\ \A p \in Pids : p <= cur_pid => parent[p] = p - 1

(* The entry of programs at each step of a switch. *)
HalfWritten ==
  /\ pc \in Starting \ {"tables"} => DT[USER] = DT_entry(USER)
  /\ pc \in Switching => goal \in Pids
  /\ pc \in {"load", "user"} => then = "load"
  /\ pc = "mask" => DT[USER] = Zero
  /\ pc = "frame" => DT[USER] = UserEntry(0)
  /\ pc \in {"flush", "load", "user"} => DT[USER] = UserEntry(2 + goal)
  /\ pc # "tables" =>
       DT[USER] \in {DT_entry(USER), Zero}
                    \cup {UserEntry(a) : a \in {0} \cup 2..(MAX_PROCESS_NUMBER + 1)}

(* What the processor may ever keep. *)
KernelFrames ==
  {Frame(KERNEL, KERNEL, FALSE),
   [at |-> <<0, VIDEO>>, big |-> FALSE, addr |-> VIDEO, us |-> FALSE]}
UserFrames == {Frame(USER, a, TRUE) : a \in {0} \cup 2..(MAX_PROCESS_NUMBER + 1)}
Kept == /\ ~pg => tlb = {}
        /\ tlb \subseteq KernelFrames \cup UserFrames
        /\ pc \notin Switching => tlb \subseteq Translations

IInv == /\ TypeOK /\ Building /\ Built /\ Controlled
        /\ InSlots /\ HalfWritten /\ Kept
=============================================================================
