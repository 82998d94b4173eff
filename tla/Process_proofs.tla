--------------------------- MODULE Process_proofs ---------------------------
(* Proofs about the process layer, for every size of the process table and *)
(* of the descriptor arrays and for every directory.                       *)
EXTENDS Process, TLAPS

-----------------------------------------------------------------------------
(* Lemmas on the helpers. *)

(* When exactly the slots from k on are free, execute takes slot k.        *)
LEMMA FirstFreeIs ==
  ASSUME NEW check \in [Pids -> {0, 1}], NEW k \in Pids,
         \A p \in Pids : check[p] = 0 <=> p >= k
  PROVE  FirstFree(check) = k
<1>1. k \in FreeSlots(check) /\ \A q \in FreeSlots(check) : k <= q
  BY DEF FreeSlots, Pids
<1>2. \A p \in FreeSlots(check) :
        (\A q \in FreeSlots(check) : p <= q) => p = k
  BY <1>1 DEF FreeSlots, Pids
<1>3. QED BY <1>1, <1>2 DEF FirstFree

(* Whatever dentry is copied over it, the boot block stays well typed.     *)
LEMMA ClobberType ==
  ASSUME NEW f \in FsStates, NEW n, NEW g \in ClobberedBy(f, Lookup(n))
  PROVE  g \in FsStates
<1>1. Lookup(n).class \in Classes
  BY DirectoryAssumption DEF Lookup, EmptyDentry, Classes
<1>2. CASE Lookup(n).class = "empty"
  BY <1>2 DEF ClobberedBy, FsStates
<1>3. CASE Lookup(n).class = "short"
  BY <1>3 DEF ClobberedBy, FsStates
<1>4. CASE Lookup(n).class = "four"
  <2>1. g \in {[names |-> "total", inodes |-> b] : b \in {f.inodes, FALSE}}
    BY <1>4 DEF ClobberedBy
  <2>2. PICK b \in {f.inodes, FALSE} : g = [names |-> "total", inodes |-> b]
    BY <2>1
  <2>3. f.inodes \in BOOLEAN
    BY DEF FsStates
  <2>4. b \in BOOLEAN
    BY <2>3, Zenon
  <2>5. QED BY <2>2, <2>4 DEF FsStates
<1>5. CASE Lookup(n).class = "long"
  <2>1. g = [names |-> "total", inodes |-> TRUE]
    BY <1>5 DEF ClobberedBy
  <2>2. TRUE \in BOOLEAN
    OBVIOUS
  <2>3. QED BY <2>1, <2>2 DEF FsStates
<1>6. QED BY <1>1, <1>2, <1>3, <1>4, <1>5 DEF Classes

LEMMA GarbageType ==
  ASSUME NEW f \in FsStates, NEW g \in GarbageRead(f)
  PROVE  g \in FsStates
BY ClobberType DEF GarbageRead

LEMMA NamedType ==
  ASSUME NEW f \in FsStates, NEW i, NEW g \in NamedRead(f, i)
  PROVE  g \in FsStates
BY ClobberType DEF NamedRead

LEMMA OpenedType ==
  ASSUME NEW n
  PROVE  Opened(Lookup(n)) \in FdEntries
<1>1. Lookup(n).type \in 0..2 /\ Lookup(n).inode \in Nat
  BY DirectoryAssumption DEF Lookup, EmptyDentry, RTC
<1>2. QED BY <1>1 DEF Opened, FdEntries, RTC

(* The open descriptors of PCB b are standard streams or opened files. *)
Known(b) == \A i \in Fds : b.fd_array[i].flags = 1 => b.fd_array[i] \in OpenEntries

LEMMA InitializedType ==
  ASSUME NEW b \in Pcbs, NEW p \in Pids, NEW parent \in PidOrNone
  PROVE  /\ InitializedPcb(b, p, parent) \in Pcbs
         /\ Known(InitializedPcb(b, p, parent))
         /\ \A i \in Fds : i >= 2 =>
              InitializedPcb(b, p, parent).fd_array[i].flags = 0
         /\ InitializedPcb(b, p, parent).parent_pid = parent
         /\ InitializedPcb(b, p, parent).tss_esp0 = p
         /\ InitializedPcb(b, p, parent).fd_array[0] = Standard
         /\ InitializedPcb(b, p, parent).fd_array[1] = Standard
<1>1. Standard \in FdEntries
  BY DEF Standard, FdEntries, TERMINAL
<1>2. \A i \in Fds : /\ [b.fd_array[i] EXCEPT !.flags = 0] \in FdEntries
                     /\ [b.fd_array[i] EXCEPT !.flags = 0].flags = 0
  BY DEF Pcbs, FdEntries
<1>3. 0 \in Fds /\ 1 \in Fds /\ \A i \in Fds : i \in Int
  BY SizesAssumption DEF Fds
<1>4. \A i \in Fds : InitializedPcb(b, p, parent).fd_array[i] =
        IF i < 2 THEN Standard ELSE [b.fd_array[i] EXCEPT !.flags = 0]
  BY DEF InitializedPcb
<1>5. ASSUME NEW i \in Fds, i >= 2
      PROVE  InitializedPcb(b, p, parent).fd_array[i].flags = 0
  <2>1. ~(i < 2)
    BY <1>3, <1>5
  <2>2. QED BY <1>2, <1>4, <2>1
<1>6. ASSUME NEW i \in Fds, InitializedPcb(b, p, parent).fd_array[i].flags = 1
      PROVE  InitializedPcb(b, p, parent).fd_array[i] \in OpenEntries
  <2>1. ~(i >= 2)
    BY <1>5, <1>6
  <2>2. i < 2
    BY <1>3, <2>1
  <2>3. QED BY <1>4, <2>2 DEF OpenEntries
<1>7. QED BY <1>1, <1>2, <1>3, <1>5, <1>6 DEF InitializedPcb, Pcbs, PidOrNone, Known

-----------------------------------------------------------------------------
(* A call that returns without touching the process state keeps the        *)
(* invariant, and so does an exception, whatever it makes of the flag.     *)
LEMMA ReturnInv ==
  ASSUME IInv, UNCHANGED <<pid_check, context, pcb, iflag, cpu>>,
         stale' \in {"bad", "user", "text"}, fs' \in FsStates
  PROVE  IInv'
<1>1. TypeOK'
  BY DEF IInv, TypeOK, context
<1>2. NotStarted' /\ UserContext' /\ Running'
  BY DEF IInv, NotStarted, UserContext, Running, context, Live
<1>3. ChainBySlot' /\ StreamsKept'
  BY DEF IInv, ChainBySlot, StreamsKept, Live, context
<1>4. QED BY <1>1, <1>2, <1>3 DEF IInv

LEMMA HangInv ==
  ASSUME IInv,
         UNCHANGED <<pid_check, cur_pid, new_pid, cur_process_ptr, filed_array,
                     pcb, DT, tlb, tss_esp0, stale, fs>>,
         frame' \in [Pids -> Names \cup {Missing}],
         cpu' \in {"hung", "wild"}, iflag' \in {iflag, FALSE}
  PROVE  IInv'
<1>1. TypeOK'
  <2>1. iflag' \in BOOLEAN
    BY Zenon DEF IInv, TypeOK
  <2>2. QED BY <2>1 DEF IInv, TypeOK
<1>2. NotStarted' /\ UserContext' /\ Running'
  BY DEF IInv, NotStarted, UserContext, Running
<1>3. ChainBySlot' /\ StreamsKept'
  BY DEF IInv, ChainBySlot, StreamsKept, Live
<1>4. QED BY <1>1, <1>2, <1>3 DEF IInv

(* The search of close leaves every frame with a program's image or none.  *)
LEMMA SearchType ==
  ASSUME TypeOK, NEW flag, CloseSearch(flag)
  PROVE  /\ frame' \in [Pids -> Names \cup {Missing}]
         /\ cpu' \in {"hung", "wild"} /\ iflag' = flag
<1>1. frame' \in {frame, [frame EXCEPT ![tlb'] = Missing]}
  BY DEF CloseSearch
<1>2. QED BY <1>1 DEF CloseSearch, TypeOK

(* execute into slot k, the first free one, establishes the invariant for  *)
(* the new process and keeps that of the processes below it.               *)
LEMMA LaunchInv ==
  ASSUME TypeOK, NEW n \in Names, NEW k \in Pids,
         NEW check \in [Pids -> {0, 1}],
         \A p \in Pids : check[p] = 0 <=> p >= k,
         \A p \in Pids : p < k => Live(p),
         ChainBySlot, StreamsKept,
         Launch(n, check, k - 1), fs' \in FsStates
  PROVE  IInv'
<1>1. FirstFree(check) = k
  BY FirstFreeIs
<1> DEFINE b == InitializedPcb(pcb[k], k, k - 1)
<1>2. /\ pid_check' = [check EXCEPT ![k] = 1] /\ new_pid' = k
      /\ DT' = k /\ tlb' = k
      /\ frame' = [frame EXCEPT ![k] = n]
      /\ pcb' = [pcb EXCEPT ![k] = b]
      /\ cur_process_ptr' = k /\ cur_pid' = k /\ filed_array' = k
      /\ tss_esp0' = pcb'[k].tss_esp0
      /\ iflag' = TRUE /\ cpu' = "user" /\ stale' = "bad"
  BY <1>1 DEF Launch, SwitchPage, LoadImage, InstallPcb
<1>3. k - 1 \in PidOrNone /\ k \in PidOrNone
  BY SizesAssumption DEF Pids, PidOrNone, None
<1>4. /\ b \in Pcbs /\ Known(b) /\ b.parent_pid = k - 1 /\ b.tss_esp0 = k
      /\ b.fd_array[0] = Standard /\ b.fd_array[1] = Standard
  <2>1. pcb[k] \in Pcbs
    BY DEF TypeOK
  <2>2. QED BY <2>1, <1>3, InitializedType
<1>5. pcb'[k] = b /\ \A p \in Pids : p # k => pcb'[p] = pcb[p]
  BY <1>2 DEF TypeOK
<1> HIDE DEF b
<1>6. \A p \in Pids : pid_check'[p] = 1 <=> p <= k
  BY <1>2 DEF Pids
<1>7. TypeOK'
  <2>1. \A p \in Pids : Known(pcb'[p])
    BY <1>4, <1>5 DEF TypeOK, Known
  <2>2. QED BY <1>2, <1>3, <1>4, <2>1 DEF TypeOK, Known
<1>8. UserContext' /\ Running' /\ NotStarted'
  BY <1>2, <1>4, <1>5, <1>6 DEF UserContext, Running, NotStarted, Live, Pids
<1>9. ChainBySlot'
  <2>1. SUFFICES ASSUME NEW p \in Pids, pid_check'[p] = 1
                 PROVE  /\ pcb'[p].parent_pid = p - 1
                        /\ pcb'[p].tss_esp0 = p
                        /\ \A q \in Pids : q < p => pid_check'[q] = 1
    BY DEF ChainBySlot, Live
  <2>2. CASE p = k
    BY <2>2, <1>4, <1>5, <1>6 DEF Pids
  <2>3. CASE p # k
    <3>1. p < k /\ Live(p)
      BY <2>1, <2>3, <1>6 DEF Pids
    <3>2. QED BY <3>1, <2>3, <1>5, <1>6 DEF ChainBySlot, Pids
  <2>4. QED BY <2>2, <2>3
<1>10. StreamsKept'
  <2>1. SUFFICES ASSUME NEW p \in Pids, pid_check'[p] = 1
                 PROVE  /\ pcb'[p].fd_array[0] = Standard
                        /\ pcb'[p].fd_array[1] = Standard
    BY DEF StreamsKept, Live
  <2>2. CASE p = k
    BY <2>2, <1>4, <1>5
  <2>3. CASE p # k
    <3>1. p < k /\ Live(p)
      BY <2>1, <2>3, <1>6 DEF Pids
    <3>2. QED BY <3>1, <2>3, <1>5 DEF StreamsKept
  <2>4. QED BY <2>2, <2>3
<1>11. QED BY <1>7, <1>8, <1>9, <1>10 DEF IInv

-----------------------------------------------------------------------------
(* The invariant is inductive. *)
LEMMA InitInv == Init => IInv
<1> SUFFICES ASSUME Init PROVE IInv
  OBVIOUS
<1>1. TypeOK
  <2>1. Closed \in FdEntries
    BY DEF Closed, FdEntries, RTC
  <2>2. BlankPcb \in Pcbs
    BY <2>1, SizesAssumption DEF BlankPcb, Pcbs, PidOrNone, None, Pids
  <2>3. fs \in FsStates /\ iflag \in BOOLEAN
    BY DEF Init, FsStates
  <2>4. \A p \in Pids, i \in Fds : pcb[p].fd_array[i].flags = 0
    BY DEF Init, BlankPcb, Closed
  <2>5. QED BY <2>2, <2>3, <2>4 DEF Init, TypeOK, PidOrNone
<1>2. QED
  BY <1>1 DEF Init, IInv, NotStarted, UserContext, ChainBySlot, Running,
              StreamsKept, Live, Pids

(* The slot execute takes is the one above the running process's.          *)
LEMMA ExecuteSlot ==
  ASSUME IInv, NEW n, ExecuteProgram(n)
  PROVE  /\ cur_pid \in Pids /\ cur_pid + 1 \in Pids
         /\ (cur_pid + 1) - 1 = cur_pid
         /\ pid_check \in [Pids -> {0, 1}]
         /\ \A p \in Pids : pid_check[p] = 0 <=> p >= cur_pid + 1
         /\ \A p \in Pids : p < cur_pid + 1 <=> Live(p)
         /\ Launch(n, pid_check, cur_pid)
<1>1. /\ cur_pid \in Pids
      /\ \A p \in Pids : pid_check[p] = 1 <=> p <= cur_pid
      /\ pid_check \in [Pids -> {0, 1}]
  BY DEF IInv, ExecuteProgram, UserContext, Running, Live, TypeOK
<1>2. PICK q \in Pids : pid_check[q] = 0
  BY DEF ExecuteProgram, FreeSlots
<1>3. cur_pid + 1 \in Pids /\ (cur_pid + 1) - 1 = cur_pid
  BY <1>1, <1>2, SizesAssumption DEF Pids
<1>4. \A p \in Pids : pid_check[p] = 0 <=> p >= cur_pid + 1
  BY <1>1 DEF Pids
<1>5. \A p \in Pids : p < cur_pid + 1 <=> Live(p)
  BY <1>1 DEF Pids, Live
<1>6. QED BY <1>1, <1>3, <1>4, <1>5 DEF ExecuteProgram

(* A root that halts runs in slot 0, the only one taken, and its successor *)
(* gets the same slot.                                                     *)
RootTable == [pid_check EXCEPT ![cur_pid] = 0]

LEMMA RootSlot ==
  ASSUME IInv, HaltRoot
  PROVE  /\ cur_pid = 0 /\ 0 \in Pids
         /\ \A p \in Pids : Live(p) <=> p = 0
         /\ RootTable \in [Pids -> {0, 1}]
         /\ \A p \in Pids : RootTable[p] = 0 /\ p >= 0 /\ ~(p < 0)
         /\ Launch(Shell, RootTable, None)
<1>1. cur_pid \in Pids /\ \A p \in Pids : Live(p) <=> p <= cur_pid
  BY DEF IInv, HaltRoot, UserContext, Running, Live
<1>2. cur_pid = 0
  BY <1>1 DEF IInv, HaltRoot, UserContext, ChainBySlot, Pids, None
<1>3. \A p \in Pids : p >= 0 /\ ~(p < 0) /\ (p <= 0 <=> p = 0)
  BY DEF Pids
<1>4. RootTable \in [Pids -> {0, 1}] /\ \A p \in Pids : RootTable[p] = 0
  BY <1>1, <1>2, <1>3 DEF IInv, TypeOK, Live, RootTable
<1>5. QED BY <1>1, <1>2, <1>3, <1>4 DEF HaltRoot, RootTable

LEMMA StepInv == IInv /\ [Next]_vars => IInv'
<1> SUFFICES ASSUME IInv, [Next]_vars PROVE IInv'
  OBVIOUS
<1> USE DEF IInv
<1>1. CASE Boot
  <2>1. 0 \in Pids /\ \A p \in Pids : p >= 0 /\ ~(p < 0)
    BY SizesAssumption DEF Pids
  <2>2. /\ pid_check \in [Pids -> {0, 1}]
        /\ \A p \in Pids : pid_check[p] = 0
        /\ cur_pid = 0 - 1
    BY <1>1 DEF Boot, NotStarted, TypeOK, None
  <2>3. Launch(Shell, pid_check, 0 - 1) /\ fs' \in FsStates
    BY <1>1, <2>2 DEF Boot, TypeOK
  <2>4. Shell \in Names
    BY DirectoryAssumption
  <2>5. \A p \in Pids : pid_check[p] = 0 <=> p >= 0
    BY <2>1, <2>2
  <2>6. QED BY <2>1, <2>2, <2>3, <2>4, <2>5, LaunchInv
<1>2. ASSUME NEW n \in Names \cup {Missing}, ExecuteProgram(n)
      PROVE  IInv'
  <2>1. n \in Names
    BY <1>2 DEF ExecuteProgram, Loads, Lookup, EmptyDentry
  <2>2. /\ cur_pid + 1 \in Pids /\ pid_check \in [Pids -> {0, 1}]
        /\ \A p \in Pids : pid_check[p] = 0 <=> p >= cur_pid + 1
        /\ \A p \in Pids : p < cur_pid + 1 => Live(p)
        /\ Launch(n, pid_check, (cur_pid + 1) - 1)
    BY <1>2, ExecuteSlot
  <2>3. fs' \in FsStates
    BY <1>2 DEF ExecuteProgram, TypeOK
  <2>4. QED BY <2>1, <2>2, <2>3, LaunchInv
<1>3. ASSUME NEW n \in Names \cup {Missing}, ExecuteFails(n)
      PROVE  IInv'
  <2>1. /\ UNCHANGED <<pid_check, context, pcb, iflag, cpu>>
        /\ stale' \in {"bad", "user", "text"} /\ fs' \in FsStates
    BY <1>3 DEF ExecuteFails, TypeOK
  <2>2. QED BY <2>1, ReturnInv
<1>4. CASE ExecuteNull
  <2>1. /\ UNCHANGED <<pid_check, context, pcb, stale, fs>>
        /\ cpu' \in {"hung", "wild"} /\ iflag' \in {iflag, FALSE}
        /\ frame \in [Pids -> Names \cup {Missing}]
    BY <1>4 DEF ExecuteNull, Hang, TypeOK
  <2>2. QED BY <2>1, HangInv DEF context
<1>5. CASE HaltChild
  <2> DEFINE parent == pcb[cur_process_ptr].parent_pid
  <2>1. /\ cur_pid \in Pids /\ cur_process_ptr = cur_pid
        /\ \A p \in Pids : Live(p) <=> p <= cur_pid
        /\ Live(cur_pid)
    BY <1>5 DEF HaltChild, UserContext, Running, Live
  <2>2. parent = cur_pid - 1 /\ parent \in Pids /\ Live(parent)
    <3>1. parent = cur_pid - 1 /\ parent # None
      BY <1>5, <2>1 DEF HaltChild, ChainBySlot
    <3>2. parent \in Pids
      BY <2>1, <3>1, SizesAssumption DEF Pids, None
    <3>3. QED BY <2>1, <3>1, <3>2 DEF Pids
  <2>3. pcb[parent].tss_esp0 = parent
    BY <2>2 DEF ChainBySlot
  <2>4. /\ pid_check' = [pid_check EXCEPT ![cur_pid] = 0]
        /\ tss_esp0' = parent /\ DT' = parent /\ tlb' = parent
        /\ CloseSearch(FALSE)
        /\ UNCHANGED <<cur_pid, new_pid, cur_process_ptr, filed_array, pcb,
                       stale, fs>>
    BY <1>5, <2>3 DEF HaltChild, SwitchPage
  <2> HIDE DEF parent
  <2>5. \A p \in Pids : pid_check'[p] = 1 <=> p < cur_pid
    BY <2>1, <2>4 DEF Live, TypeOK, Pids
  <2>6. /\ frame' \in [Pids -> Names \cup {Missing}]
        /\ cpu' \in {"hung", "wild"} /\ iflag' = FALSE
    BY <2>4, SearchType
  <2>7. TypeOK'
    BY <2>1, <2>2, <2>4, <2>6 DEF TypeOK, PidOrNone
  <2>8. ChainBySlot'
    BY <2>1, <2>4, <2>5 DEF ChainBySlot, Live, Pids
  <2>9. StreamsKept'
    BY <2>1, <2>4, <2>5 DEF StreamsKept, Live, Pids
  <2>10. QED
    BY <2>6, <2>7, <2>8, <2>9 DEF NotStarted, UserContext, Running
<1>6. CASE HaltRoot
  <2>1. /\ 0 \in Pids /\ RootTable \in [Pids -> {0, 1}]
        /\ \A p \in Pids : RootTable[p] = 0 /\ p >= 0 /\ ~(p < 0)
        /\ Launch(Shell, RootTable, 0 - 1)
    BY <1>6, RootSlot DEF None
  <2>2. fs' \in FsStates /\ Shell \in Names
    BY <1>6, DirectoryAssumption DEF HaltRoot, TypeOK
  <2>3. QED BY <2>1, <2>2, LaunchInv
<1>7. CASE HaltRootFails
  <2>1. cur_pid \in Pids /\ cur_process_ptr = cur_pid
    BY <1>7 DEF HaltRootFails, UserContext, Live
  <2>2. /\ cur_pid = 0
        /\ \A p \in Pids : Live(p) <=> p <= cur_pid
    BY <1>7, <2>1 DEF HaltRootFails, UserContext, Running, ChainBySlot, Pids, None
  <2>3. \A p \in Pids : pid_check'[p] = 0
    BY <1>7, <2>2 DEF HaltRootFails, TypeOK, Live, Pids
  <2>4. TypeOK'
    BY <1>7 DEF HaltRootFails, Hang, TypeOK, PidOrNone
  <2>5. cpu' = "hung"
    BY <1>7 DEF HaltRootFails, Hang
  <2>6. ChainBySlot' /\ StreamsKept'
    BY <2>3 DEF ChainBySlot, StreamsKept, Live
  <2>7. QED
    BY <2>4, <2>5, <2>6 DEF NotStarted, UserContext, Running
<1>8. ASSUME NEW n \in Names \cup {Missing}, OpenFaults(n)
      PROVE  IInv'
  <2>1. /\ UNCHANGED <<pid_check, context, pcb, stale, fs>>
        /\ cpu' \in {"hung", "wild"} /\ iflag' \in {iflag, FALSE}
        /\ frame \in [Pids -> Names \cup {Missing}]
    BY <1>8 DEF OpenFaults, TypeOK
  <2>2. QED BY <2>1, HangInv DEF context
<1>9. ASSUME NEW n \in Names \cup {Missing}, Open(n)
      PROVE  IInv'
  <2> DEFINE e == Opened(Lookup(n))
  <2>1. PICK i \in FreeFds :
          pcb' = [pcb EXCEPT ![filed_array].fd_array[i] = e]
    BY <1>9 DEF Open
  <2>2. e \in FdEntries /\ e \in OpenEntries
    BY OpenedType DEF OpenEntries
  <2>3. /\ cur_pid \in Pids /\ filed_array = cur_pid /\ Live(cur_pid)
        /\ cpu = "user"
    BY <1>9 DEF Open, UserContext, Live
  <2>4. /\ i \in Fds
        /\ pcb[cur_pid].fd_array[i].flags = 0
        /\ i # 0 /\ i # 1
    BY <2>3 DEF FreeFds, FdTable, StreamsKept, Standard
  <2>5. fs' \in FsStates
    BY <1>9, ClobberType DEF Open, TypeOK
  <2>6. UNCHANGED <<pid_check, context, iflag, cpu, stale>>
    BY <1>9 DEF Open
  <2> HIDE DEF e
  <2>7. /\ pcb' \in [Pids -> Pcbs]
        /\ \A p \in Pids : /\ Known(pcb'[p])
                            /\ pcb'[p].parent_pid = pcb[p].parent_pid
                            /\ pcb'[p].tss_esp0 = pcb[p].tss_esp0
                            /\ pcb'[p].fd_array[0] = pcb[p].fd_array[0]
                            /\ pcb'[p].fd_array[1] = pcb[p].fd_array[1]
    <3>1. pcb[cur_pid] \in Pcbs /\ \A p \in Pids : Known(pcb[p])
      BY <2>3 DEF TypeOK, Known
    <3> DEFINE b == [pcb[cur_pid] EXCEPT !.fd_array[i] = e]
    <3>2. /\ b \in Pcbs
          /\ b.parent_pid = pcb[cur_pid].parent_pid
          /\ b.tss_esp0 = pcb[cur_pid].tss_esp0
          /\ b.fd_array[0] = pcb[cur_pid].fd_array[0]
          /\ b.fd_array[1] = pcb[cur_pid].fd_array[1]
          /\ \A j \in Fds : b.fd_array[j] =
               IF j = i THEN e ELSE pcb[cur_pid].fd_array[j]
      BY <3>1, <2>2, <2>4 DEF Pcbs
    <3>3. Known(b)
      BY <3>1, <3>2, <2>2, <2>3 DEF Known
    <3>4. pcb' = [pcb EXCEPT ![cur_pid] = b]
      BY <2>1, <2>3
    <3> HIDE DEF b
    <3>5. QED BY <3>1, <3>2, <3>3, <3>4, <2>3 DEF TypeOK
  <2>8. TypeOK'
    BY <2>5, <2>6, <2>7 DEF TypeOK, Known, context
  <2>9. UserContext' /\ Running' /\ NotStarted'
    BY <2>3, <2>6 DEF UserContext, Running, NotStarted, Live, context
  <2>10. ChainBySlot' /\ StreamsKept'
    BY <2>6, <2>7 DEF ChainBySlot, StreamsKept, Live, context
  <2>11. QED BY <2>8, <2>9, <2>10
<1>10. ASSUME NEW fd \in 0..FDARRAY_MAX, Read(fd) \/ Write(fd)
       PROVE  IInv'
  <2>1. /\ UNCHANGED <<pid_check, context, pcb, iflag, cpu>>
        /\ stale' \in {"bad", "user", "text"} /\ fs' \in FsStates
    BY <1>10 DEF Read, Write, TypeOK
  <2>2. QED BY <2>1, ReturnInv
<1>11. ASSUME NEW fd \in 0..FDARRAY_MAX, ReadFile(fd)
       PROVE  IInv'
  <2>1. fs' \in FsStates
    <3>1. CASE fs' = fs
      BY <3>1 DEF TypeOK
    <3>2. CASE \E f \in GarbageRead(fs) :
                 fs' \in {f} \cup NamedRead(f, FdTable[fd].inode)
      BY <3>2, GarbageType, NamedType DEF TypeOK
    <3>3. QED BY <1>11, <3>1, <3>2 DEF ReadFile
  <2>2. stale' = "bad" /\ UNCHANGED <<pid_check, context, pcb, iflag>>
    BY <1>11 DEF ReadFile
  <2>3. CASE cpu' = cpu
    BY <2>1, <2>2, <2>3, ReturnInv
  <2>4. CASE cpu' = "hung" /\ UNCHANGED fs
    <3>1. TypeOK'
      BY <2>2, <2>4 DEF TypeOK, context
    <3>2. NotStarted' /\ UserContext' /\ Running'
      BY <2>4 DEF NotStarted, UserContext, Running
    <3>3. ChainBySlot' /\ StreamsKept'
      BY <2>2 DEF ChainBySlot, StreamsKept, Live, context
    <3>4. QED BY <3>1, <3>2, <3>3
  <2>5. QED BY <1>11, <2>3, <2>4 DEF ReadFile
<1>12. CASE Close \/ UserException
  <2>1. /\ frame' \in [Pids -> Names \cup {Missing}]
        /\ cpu' \in {"hung", "wild"} /\ iflag' = iflag
    BY <1>12, SearchType DEF Close, UserException, Hang, context, TypeOK
  <2>2. UNCHANGED <<pid_check, cur_pid, new_pid, cur_process_ptr, filed_array,
                    pcb, DT, tlb, tss_esp0, stale, fs>>
    BY <1>12 DEF Close, UserException, context
  <2>3. QED BY <2>1, <2>2, HangInv
<1>13. CASE Interrupt
  <2>1. /\ UNCHANGED <<pid_check, context, pcb, iflag, cpu>>
        /\ stale' \in {"bad", "user", "text"} /\ fs' \in FsStates
    BY <1>13 DEF Interrupt, TypeOK
  <2>2. QED BY <2>1, ReturnInv
<1>14. CASE UNCHANGED vars
  <2>1. /\ UNCHANGED <<pid_check, context, pcb, iflag, cpu>>
        /\ stale' \in {"bad", "user", "text"} /\ fs' \in FsStates
    BY <1>14 DEF vars, context, TypeOK
  <2>2. QED BY <2>1, ReturnInv
<1>15. QED
  BY <1>1, <1>2, <1>3, <1>4, <1>5, <1>6, <1>7, <1>8, <1>9, <1>10, <1>11,
     <1>12, <1>13, <1>14
     DEF Next, OpenMissing, OpenNoFd, OtherCall, Stopped

LEMMA Inductive == Spec => []IInv
BY InitInv, StepInv, PTL DEF Spec

(* The chain of execute calls follows from the slot numbers. *)
LEMMA InvChain == IInv => ProcessChain
<1> SUFFICES ASSUME IInv PROVE ProcessChain
  OBVIOUS
<1>1. ASSUME NEW p \in Pids, Live(p), pcb[p].parent_pid # None
      PROVE  Live(pcb[p].parent_pid) /\ pcb[p].parent_pid # p
  <2>1. pcb[p].parent_pid = p - 1 /\ \A q \in Pids : q < p => Live(q)
    BY <1>1 DEF IInv, ChainBySlot
  <2>2. p - 1 \in Pids
    BY <1>1, <2>1, SizesAssumption DEF Pids, None
  <2>3. QED BY <2>1, <2>2 DEF Pids
<1>2. ASSUME NEW p \in Pids, NEW q \in Pids, Live(p), Live(q), q # p
      PROVE  pcb[q].parent_pid # pcb[p].parent_pid
  BY <1>2 DEF IInv, ChainBySlot, Pids
<1>3. ASSUME cpu = "user", NEW p \in Pids, Live(p)
      PROVE  pcb[p].parent_pid # cur_pid
  <2>1. pcb[p].parent_pid = p - 1 /\ p <= cur_pid /\ cur_pid \in Pids
    BY <1>3 DEF IInv, ChainBySlot, Running, UserContext, Live
  <2>2. QED BY <2>1 DEF Pids
<1>4. QED BY <1>1, <1>2, <1>3 DEF ProcessChain

-----------------------------------------------------------------------------
(* The theorems. *)

(* Every variable of the process layer keeps its type. *)
THEOREM Typing == Spec => []TypeOK
BY Inductive, PTL DEF IInv

(* execute and halt always hand a program a context of one process only:   *)
(* PCB, descriptor array, kernel stack, page directory and TLB agree.      *)
THEOREM ContextAgrees == Spec => []UserContext
BY Inductive, PTL DEF IInv

(* The process table is always a chain of execute calls that ends in the   *)
(* running process.                                                        *)
THEOREM Chain == Spec => []ProcessChain
BY Inductive, InvChain, PTL

(* No open, no execute and no reuse of a slot takes a process's standard   *)
(* streams away.                                                           *)
THEOREM Streams == Spec => []StandardStreams
<1>1. IInv => StandardStreams
  BY DEF IInv, StandardStreams
<1>2. QED BY <1>1, Inductive, PTL

-----------------------------------------------------------------------------
(* execute writes the frame and the PCB of the slot it takes and no other. *)
LEMMA LaunchElsewhere ==
  ASSUME TypeOK, NEW n, NEW parent, NEW k \in Pids,
         NEW check \in [Pids -> {0, 1}],
         \A p \in Pids : check[p] = 0 <=> p >= k,
         Launch(n, check, parent),
         NEW p \in Pids, p # k
  PROVE  pcb'[p] = pcb[p] /\ frame'[p] = frame[p] /\ cur_pid' = k
<1>1. FirstFree(check) = k
  BY FirstFreeIs
<1>2. /\ pcb' = [pcb EXCEPT ![k] = InitializedPcb(pcb[k], k, parent)]
      /\ frame' = [frame EXCEPT ![k] = n] /\ cur_pid' = k
  BY <1>1 DEF Launch, SwitchPage, LoadImage, InstallPcb
<1>3. QED BY <1>2 DEF TypeOK

(* What a step may do to process p, as long as the kernel is intact, and   *)
(* as long as programs run.                                                *)
Untouched(p) == /\ cpu' # "wild" => pcb'[p].fd_array = pcb[p].fd_array
                /\ cpu' = "user" => frame'[p] = frame[p]

(* The steps that leave every PCB alone, and the memory of programs.       *)
LEMMA QuietSteps ==
  ASSUME TypeOK, [Next]_vars, ~Boot, ~HaltRoot,
         \A n \in Names \cup {Missing} : ~ExecuteProgram(n) /\ ~Open(n)
  PROVE  /\ pcb' = pcb /\ (cpu' = "user" => frame' = frame)
         /\ \A p \in Pids : pid_check'[p] = pid_check[p] \/ p = cur_pid
<1>1. CASE HaltChild \/ Close
  <2>1. pcb' = pcb /\ cpu' # "user"
    BY <1>1 DEF HaltChild, Close, CloseSearch
  <2>2. pid_check' = pid_check \/ pid_check' = [pid_check EXCEPT ![cur_pid] = 0]
    BY <1>1 DEF HaltChild, Close
  <2>3. QED BY <2>1, <2>2 DEF TypeOK
<1>2. CASE ExecuteNull \/ HaltRootFails \/ OtherCall
           \/ Interrupt \/ UserException \/ Stopped \/ UNCHANGED vars
  BY <1>2 DEF ExecuteNull, HaltRootFails, OtherCall, Interrupt, UserException,
              Stopped, vars, context, TypeOK
<1>3. ASSUME NEW n \in Names \cup {Missing},
             ExecuteFails(n) \/ OpenMissing(n) \/ OpenFaults(n) \/ OpenNoFd(n)
      PROVE  pcb' = pcb /\ frame' = frame /\ pid_check' = pid_check
  BY <1>3 DEF ExecuteFails, OpenMissing, OpenFaults, OpenNoFd, vars, context
<1>4. ASSUME NEW fd \in 0..FDARRAY_MAX, Read(fd) \/ ReadFile(fd) \/ Write(fd)
      PROVE  pcb' = pcb /\ frame' = frame /\ pid_check' = pid_check
  BY <1>4 DEF Read, ReadFile, Write, context
<1>5. QED BY <1>1, <1>2, <1>3, <1>4 DEF Next

LEMMA StepIsolated ==
  ASSUME IInv, [Next]_vars, NEW p \in Pids, Live(p),
         p # cur_pid \/ p # cur_pid'
  PROVE  Untouched(p)
<1>1. CASE Boot
  BY <1>1 DEF Boot, IInv, NotStarted, Live
<1>2. ASSUME NEW n \in Names \cup {Missing}, ExecuteProgram(n)
      PROVE  Untouched(p)
  <2>1. p # cur_pid + 1
    BY <1>2, ExecuteSlot DEF Live, Pids
  <2>2. QED BY <1>2, <2>1, ExecuteSlot, LaunchElsewhere DEF Untouched, IInv
<1>3. CASE HaltRoot
  <2>1. p = 0 /\ cur_pid = 0
    BY <1>3, RootSlot
  <2>2. FirstFree(RootTable) = 0
    BY <1>3, RootSlot, FirstFreeIs
  <2>3. cur_pid' = 0
    BY <1>3, <2>2, RootSlot DEF Launch, InstallPcb
  <2>4. QED BY <2>1, <2>3
<1>4. ASSUME NEW n \in Names \cup {Missing}, Open(n)
      PROVE  Untouched(p)
  <2>1. /\ filed_array = cur_pid
        /\ cur_pid' = cur_pid /\ frame' = frame
        /\ \E i \in FreeFds :
             pcb' = [pcb EXCEPT ![filed_array].fd_array[i] = Opened(Lookup(n))]
    BY <1>4 DEF Open, IInv, UserContext, context
  <2>2. p # filed_array
    BY <2>1
  <2>3. QED BY <2>1, <2>2 DEF IInv, TypeOK, Untouched
<1>5. QED
  BY <1>1, <1>2, <1>3, <1>4, QuietSteps DEF Untouched, IInv

(* Nothing a process does, and no execute, reaches the descriptors of      *)
(* another process, nor its memory while programs run.                     *)
THEOREM Isolated == Spec => Isolation
<1>1. ASSUME IInv, [Next]_vars
      PROVE  [\A p \in Pids : Live(p) /\ Live(p)' /\ (p # cur_pid \/ p # cur_pid') =>
                /\ cpu' # "wild" => pcb'[p].fd_array = pcb[p].fd_array
                /\ cpu' = "user" => frame'[p] = frame[p]]_vars
  BY <1>1, StepIsolated DEF Untouched
<1>2. QED BY <1>1, Inductive, PTL DEF Spec, Isolation

-----------------------------------------------------------------------------
(* What a step may make of descriptor i of process p. *)
Persists(p, i) ==
  IF Starts(p) THEN i >= 2 => pcb'[p].fd_array[i].flags = 0
  ELSE pcb[p].fd_array[i].flags = 1 => pcb'[p].fd_array[i] = pcb[p].fd_array[i]

(* The process an execute starts has no descriptor but the standard ones,  *)
(* and no other process starts.                                            *)
LEMMA LaunchStarts ==
  ASSUME TypeOK, NEW n, NEW parent \in PidOrNone, NEW k \in Pids,
         NEW check \in [Pids -> {0, 1}],
         \A q \in Pids : check[q] = 0 <=> q >= k,
         Launch(n, check, parent),
         NEW p \in Pids, check[p] = 0, Live(p)', NEW i \in Fds, i >= 2
  PROVE  pcb'[p].fd_array[i].flags = 0
<1>1. FirstFree(check) = k
  BY FirstFreeIs
<1>2. /\ pid_check' = [check EXCEPT ![k] = 1]
      /\ pcb' = [pcb EXCEPT ![k] = InitializedPcb(pcb[k], k, parent)]
  BY <1>1 DEF Launch, InstallPcb
<1>3. p = k
  BY <1>2 DEF Live
<1>4. pcb[k] \in Pcbs /\ pcb'[k] = InitializedPcb(pcb[k], k, parent)
  BY <1>2 DEF TypeOK
<1>5. QED BY <1>3, <1>4, InitializedType

(* A process starts by execute, or in place of the root.                   *)
LEMMA StartsClosed ==
  ASSUME IInv, [Next]_vars, NEW p \in Pids, Starts(p), NEW i \in Fds, i >= 2
  PROVE  pcb'[p].fd_array[i].flags = 0
<1>1. CASE HaltRoot
  <2>1. None \in PidOrNone /\ Live(p)'
    BY DEF PidOrNone, Starts
  <2>2. QED BY <1>1, <2>1, RootSlot, LaunchStarts DEF IInv
<1>2. CASE ~HaltRoot
  <2>1. Live(p)' /\ pid_check[p] # 1 /\ pid_check \in [Pids -> {0, 1}]
    BY <1>2 DEF Starts, Live, IInv, TypeOK
  <2>2. CASE Boot
    <3>1. 0 \in Pids /\ \A q \in Pids : q >= 0 /\ pid_check[q] = 0
      BY <2>2, SizesAssumption DEF Boot, IInv, NotStarted, Pids
    <3>2. cur_pid \in PidOrNone /\ Launch(Shell, pid_check, cur_pid)
      BY <2>2 DEF Boot, IInv, TypeOK
    <3>3. QED BY <2>1, <3>1, <3>2, LaunchStarts DEF IInv
  <2>3. ASSUME NEW n \in Names \cup {Missing}, ExecuteProgram(n)
        PROVE  pcb'[p].fd_array[i].flags = 0
    <3>1. pid_check[p] = 0 /\ cur_pid \in PidOrNone
      BY <2>1 DEF IInv, TypeOK
    <3>2. QED BY <2>1, <2>3, <3>1, ExecuteSlot, LaunchStarts DEF IInv
  <2>4. ASSUME NEW n \in Names \cup {Missing}, Open(n)
        PROVE  FALSE
    BY <2>1, <2>4 DEF Open, Live
  <2>5. CASE p = cur_pid /\ cpu = "user"
    BY <2>1, <2>5 DEF IInv, UserContext, Live
  <2>6. CASE pid_check'[p] = pid_check[p]
    BY <2>1, <2>6 DEF Live
  <2>7. ASSUME pid_check'[p] # pid_check[p], ~Boot,
               \A n \in Names \cup {Missing} : ~ExecuteProgram(n) /\ ~Open(n)
        PROVE  p = cur_pid /\ cpu = "user"
    <3>1. p = cur_pid
      BY <1>2, <2>7, QuietSteps DEF IInv
    <3>2. HaltChild \/ HaltRootFails
      BY <1>2, <2>7 DEF Next, ExecuteNull, Close, OtherCall, Interrupt,
         UserException, Stopped, ExecuteFails, OpenMissing, OpenFaults, OpenNoFd,
         Read, ReadFile, Write, vars
    <3>3. QED BY <3>1, <3>2 DEF HaltChild, HaltRootFails
  <2>8. QED BY <2>2, <2>3, <2>4, <2>5, <2>6, <2>7
<1>3. QED BY <1>1, <1>2

(* open writes a free descriptor. *)
LEMMA OpenPersists ==
  ASSUME IInv, NEW n, Open(n), NEW p \in Pids, NEW i \in Fds,
         pcb[p].fd_array[i].flags = 1
  PROVE  pcb'[p].fd_array[i] = pcb[p].fd_array[i]
<1>1. PICK j \in FreeFds :
        pcb' = [pcb EXCEPT ![filed_array].fd_array[j] = Opened(Lookup(n))]
  BY DEF Open
<1>2. CASE p = filed_array
  <2>1. i # j
    BY <1>1, <1>2 DEF FreeFds, FdTable
  <2>2. QED BY <1>1, <1>2, <2>1 DEF IInv, TypeOK, Pcbs
<1>3. CASE p # filed_array
  BY <1>1, <1>3 DEF IInv, TypeOK
<1>4. QED BY <1>2, <1>3

LEMMA StepPersists ==
  ASSUME IInv, [Next]_vars, NEW p \in Pids, NEW i \in Fds,
         Live(p)', cpu' # "wild"
  PROVE  Persists(p, i)
<1>1. CASE Starts(p)
  BY <1>1, StartsClosed DEF Persists
<1>2. CASE ~Starts(p)
  <2>1. Live(p) /\ ~HaltRoot
    BY <1>2 DEF Starts
  <2>2. SUFFICES ASSUME pcb[p].fd_array[i].flags = 1
                 PROVE  pcb'[p].fd_array[i] = pcb[p].fd_array[i]
    BY <1>2 DEF Persists
  <2>3. ASSUME NEW n \in Names \cup {Missing}, Open(n)
        PROVE  pcb'[p].fd_array[i] = pcb[p].fd_array[i]
    BY <2>2, <2>3, OpenPersists
  <2>4. CASE Boot
    BY <2>1, <2>4 DEF Boot, IInv, NotStarted, Live
  <2>5. ASSUME NEW n \in Names \cup {Missing}, ExecuteProgram(n)
        PROVE  pcb'[p].fd_array[i] = pcb[p].fd_array[i]
    <3>1. p # cur_pid + 1
      BY <2>1, <2>5, ExecuteSlot DEF Live, Pids
    <3>2. QED BY <2>5, <3>1, ExecuteSlot, LaunchElsewhere DEF IInv
  <2>6. QED BY <2>1, <2>3, <2>4, <2>5, QuietSteps DEF IInv
<1>3. QED BY <1>1, <1>2

(* A program starts with no descriptor of the former owner of its slot, be *)
(* it a process that had halted or the root shell it replaces; after that  *)
(* an open descriptor names the same file for as long as the program lives.*)
THEOREM Persistent == Spec => DescriptorsPersist
<1>1. ASSUME IInv, [Next]_vars
      PROVE  [\A p \in Pids, i \in Fds : Live(p)' /\ cpu' # "wild" =>
                IF Starts(p) THEN i >= 2 => pcb'[p].fd_array[i].flags = 0
                ELSE pcb[p].fd_array[i].flags = 1
                       => pcb'[p].fd_array[i] = pcb[p].fd_array[i]]_vars
  BY <1>1, StepPersists DEF Persists
<1>2. QED BY <1>1, Inductive, PTL DEF Spec, DescriptorsPersist
=============================================================================
