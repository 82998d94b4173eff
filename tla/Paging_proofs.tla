---------------------------- MODULE Paging_proofs ----------------------------
(***************************************************************************)
(* The tables' invariants for every number of entries and of processes.    *)
(* They follow from IInv; its parts are proved action by action, the TLB's *)
(* part (Kept) last, because it needs what the tables are after the step.  *)
(***************************************************************************)
EXTENDS Paging, TLAPS

TableInv == TypeOK /\ Building /\ Built /\ Controlled /\ InSlots /\ HalfWritten

-----------------------------------------------------------------------------
(* Facts about entries. *)

(* Entries have their type. *)
LEMMA EntryTyped ==
  /\ Zero \in EntryType
  /\ \A e \in Entries : PT_entry(e) \in EntryType /\ DT_entry(e) \in EntryType
  /\ \A a \in {0} \cup 1..(MAX_PROCESS_NUMBER + 1) : UserEntry(a) \in EntryType
<1>1. 0 \in Entries /\ KERNEL \in Entries BY LayoutAssumption DEF Entries, KERNEL
<1>2. Zero \in EntryType BY <1>1 DEF Zero, Entry, EntryType
<1>3. \A e \in Entries : PT_entry(e) \in EntryType BY DEF PT_entry, Entry, EntryType
<1>4. \A e \in Entries : DT_entry(e) \in EntryType
  BY <1>1 DEF DT_entry, Entry, EntryType
<1>5. \A a \in {0} \cup 1..(MAX_PROCESS_NUMBER + 1) : UserEntry(a) \in EntryType
  BY <1>1 DEF UserEntry, Entry, EntryType
<1> QED BY <1>2, <1>3, <1>4, <1>5

-----------------------------------------------------------------------------
(* The tables. *)

LEMMA InitTables == Init => TableInv
<1> SUFFICES ASSUME Init PROVE TableInv OBVIOUS
<1> USE LayoutAssumption
<1>1. TypeOK
  <2>1. DT \in [Entries -> EntryType] /\ PT \in [Entries -> EntryType]
    BY EntryTyped DEF Init
  <2>2. cr3 \in BOOLEAN /\ pse \in BOOLEAN /\ pg \in BOOLEAN BY Zenon DEF Init
  <2>3. /\ pc \in Steps /\ i \in 0..SIZE /\ j \in 0..SIZE
        /\ pid_check \in [Pids -> {0, 1}] /\ parent \in [Pids -> Pids \cup {NoPid}]
        /\ cur_pid \in Pids \cup {NoPid} /\ goal \in Pids \cup {NoPid}
        /\ then \in {"load", "hung"}
    BY DEF Init, Steps
  <2> QED BY <2>1, <2>2, <2>3 DEF TypeOK
<1>2. Building BY DEF Init, Building, Entries
<1>3. Built /\ Controlled /\ HalfWritten
  BY DEF Init, Built, Controlled, HalfWritten, Starting, Switching
<1>4. InSlots BY DEF Init, InSlots, Starting, Switching
<1> QED BY <1>1, <1>2, <1>3, <1>4 DEF TableInv

(* paging_init. *)
LEMMA InitializationTables ==
  ASSUME TableInv, PT_init \/ DT_init \/ TablesDone \/ SetCr3 \/ SetPse \/ SetPg
  PROVE  TableInv'
<1> USE LayoutAssumption DEF TableInv, tables, control, processes
<1>1. CASE PT_init
  <2>1. j \in Entries /\ i = 0 BY <1>1 DEF PT_init, TypeOK, Entries
  <2>2. TypeOK' BY <1>1, <2>1, EntryTyped DEF PT_init, TypeOK, Entries
  <2>3. Building' BY <1>1, <2>1 DEF PT_init, TypeOK, Building, Entries
  <2>4. (Built /\ Controlled /\ HalfWritten /\ InSlots)'
    BY <1>1 DEF PT_init, Built, Controlled, HalfWritten, InSlots, Switching, Starting
  <2> QED BY <2>2, <2>3, <2>4
<1>2. CASE DT_init
  <2>1. i \in Entries BY <1>2 DEF DT_init, TypeOK, Entries
  <2>2. TypeOK' BY <1>2, <2>1, EntryTyped DEF DT_init, TypeOK, Entries
  <2>3. Building' BY <1>2, <2>1 DEF DT_init, TypeOK, Building, Entries
  <2>4. (Built /\ Controlled /\ HalfWritten /\ InSlots)'
    BY <1>2 DEF DT_init, Built, Controlled, HalfWritten, InSlots, Switching, Starting
  <2> QED BY <2>2, <2>3, <2>4
<1>3. CASE TablesDone
  <2>1. TypeOK' BY <1>3 DEF TablesDone, TypeOK, Steps
  <2>2. USER \in Entries /\ j = SIZE BY <1>3 DEF TablesDone, Building, Entries
  <2>3. Building' /\ Controlled' /\ InSlots'
    BY <1>3 DEF TablesDone, Building, Controlled, InSlots, Switching, Starting
  <2>4. /\ \A e \in Entries : PT[e] = PT_entry(e)
        /\ \A e \in Entries : DT[e] = DT_entry(e)
    BY <1>3, <2>2 DEF TablesDone, Building, Entries
  <2>5. Built' BY <1>3, <2>4 DEF TablesDone, Built, PT_entry, DT_entry
  <2>6. HalfWritten'
    BY <1>3, <2>2, <2>4 DEF TablesDone, HalfWritten, Switching, Starting, DT_entry
  <2> QED BY <2>1, <2>3, <2>5, <2>6
<1>4. CASE SetCr3 \/ SetPse \/ SetPg
  <2>1. TypeOK' BY <1>4 DEF SetCr3, SetPse, SetPg, TypeOK, Steps
  <2>2. (Building /\ Built /\ InSlots /\ HalfWritten)'
    BY <1>4 DEF SetCr3, SetPse, SetPg, Building, Built, InSlots, HalfWritten,
                Switching, Starting, DT_entry, PT_entry
  <2>3. Controlled' BY <1>4 DEF SetCr3, SetPse, SetPg, Controlled, TypeOK
  <2> QED BY <2>1, <2>2, <2>3
<1> QED BY <1>1, <1>2, <1>3, <1>4

(* The first free slot is the one above the processes there are.           *)
LEMMA FirstFree ==
  ASSUME NEW s, NEW new \in Pids, \A p \in Pids : s[p] = 0 <=> p >= new
  PROVE  (CHOOSE k \in Pids : s[k] = 0 /\ \A q \in Pids : q < k => s[q] # 0) = new
<1>1. s[new] = 0 /\ \A q \in Pids : q < new => s[q] # 0 BY DEF Pids
<1>2. ASSUME NEW k \in Pids, s[k] = 0 /\ \A q \in Pids : q < k => s[q] # 0
      PROVE  k = new
  BY <1>1, <1>2 DEF Pids
<1> QED BY <1>1, <1>2

(* A child of the process p in the slot above it. *)
LEMMA TakesTables ==
  ASSUME TableInv, pc \in {"boot", "user"}, NEW s, NEW p, p + 1 \in Pids,
         p = NoPid \/ p = cur_pid, p \in Int,
         s \in [Pids -> {0, 1}],
         \A q \in Pids : s[q] = IF q <= p THEN 1 ELSE 0,
         p # NoPid => \A q \in Pids : q <= p => parent[q] = q - 1,
         Takes(s, p), UNCHANGED <<tables, control, i, j>>
  PROVE  TableInv'
<1> USE LayoutAssumption DEF TableInv, tables, control
<1>1. \A q \in Pids : s[q] = 0 <=> q >= p + 1 BY DEF Pids
<1>2. (CHOOSE k \in Pids : s[k] = 0 /\ \A q \in Pids : q < k => s[q] # 0) = p + 1
  BY <1>1, FirstFree
<1>3. /\ pid_check' = [s EXCEPT ![p + 1] = 1] /\ parent' = [parent EXCEPT ![p + 1] = p]
      /\ goal' = p + 1 /\ cur_pid' = p + 1 /\ then' = "load" /\ pc' = "clear"
  BY <1>2 DEF Takes
<1>4. p \in Pids \cup {NoPid} BY DEF TypeOK
<1>5. TypeOK' BY <1>3, <1>4 DEF TypeOK, Steps
<1>6. (Building /\ Built /\ Controlled)'
  BY <1>3 DEF Building, Built, Controlled, DT_entry, PT_entry
<1>7. InSlots'
  <2>1. \A q \in Pids : pid_check'[q] = IF q <= p + 1 THEN 1 ELSE 0 BY <1>3 DEF Pids
  <2>2. \A q \in Pids : q <= p + 1 => parent'[q] = q - 1
    BY <1>3, <1>4 DEF Pids, NoPid, TypeOK
  <2> QED BY <1>3, <2>1, <2>2 DEF InSlots, Starting, Switching
<1>8. HalfWritten' BY <1>3 DEF HalfWritten, Switching, Starting, DT_entry
<1> QED BY <1>5, <1>6, <1>7, <1>8

(* execute and halt up to the switch. *)
LEMMA ProcessTables ==
  ASSUME TableInv, Execute \/ BootFails \/ HaltChild \/ HaltRoot \/ HaltRootFails
  PROVE  TableInv'
<1> USE LayoutAssumption DEF TableInv
<1>1. CASE Execute
  <2>1. PICK f \in Pids : pid_check[f] = 0 BY <1>1 DEF Execute
  <2>2. CASE pc = "boot"
    <3>1. cur_pid = NoPid /\ \A q \in Pids : pid_check[q] = 0
      BY <2>2 DEF InSlots, Starting
    <3>2. cur_pid + 1 \in Pids BY <3>1 DEF Pids, NoPid
    <3>3. \A q \in Pids : pid_check[q] = IF q <= cur_pid THEN 1 ELSE 0
      BY <3>1 DEF Pids, NoPid
    <3>4. pid_check \in [Pids -> {0, 1}] BY DEF TypeOK
    <3>5. cur_pid \in Int BY <3>1 DEF NoPid
    <3> QED BY <1>1, <2>2, <3>1, <3>2, <3>3, <3>4, <3>5, TakesTables DEF Execute
  <2>3. CASE pc = "user"
    <3>1. /\ cur_pid \in Pids
          /\ \A q \in Pids : pid_check[q] = IF q <= cur_pid THEN 1 ELSE 0
          /\ \A q \in Pids : q <= cur_pid => parent[q] = q - 1
      BY <2>3 DEF InSlots, HalfWritten
    <3>2. cur_pid + 1 \in Pids BY <2>1, <3>1 DEF Pids
    <3>3. pid_check \in [Pids -> {0, 1}] BY DEF TypeOK
    <3>4. cur_pid \in Int BY <3>1 DEF Pids
    <3> QED BY <1>1, <2>3, <3>1, <3>2, <3>3, <3>4, TakesTables DEF Execute
  <2> QED BY <1>1, <2>2, <2>3 DEF Execute
<1>2. CASE BootFails
  <2>1. TypeOK' BY <1>2 DEF BootFails, TypeOK, Steps, tables, control, processes
  <2>2. (Building /\ Built /\ Controlled /\ InSlots /\ HalfWritten)'
    BY <1>2 DEF BootFails, Building, Built, Controlled, InSlots, HalfWritten, Starting,
                Switching, tables, control, processes, DT_entry, PT_entry
  <2> QED BY <2>1, <2>2
<1>3. CASE HaltChild
  <2>1. cur_pid \in Pids BY <1>3 DEF HaltChild, InSlots, HalfWritten
  <2>2. parent[cur_pid] \in Pids BY <1>3, <2>1 DEF HaltChild, TypeOK
  <2>3. TypeOK' BY <1>3, <2>1, <2>2 DEF HaltChild, TypeOK, Steps, tables, control
  <2>4. (Building /\ Built /\ Controlled /\ InSlots /\ HalfWritten)'
    BY <1>3, <2>2 DEF HaltChild, Building, Built, Controlled, InSlots, HalfWritten,
                Starting, Switching, tables, control, DT_entry, PT_entry
  <2> QED BY <2>3, <2>4
<1>4. CASE HaltRoot
  <2>1. /\ cur_pid \in Pids
        /\ \A q \in Pids : pid_check[q] = IF q <= cur_pid THEN 1 ELSE 0
        /\ parent[cur_pid] = cur_pid - 1
    BY <1>4 DEF HaltRoot, InSlots, HalfWritten, Pids
  <2>2. cur_pid = 0 BY <1>4, <2>1 DEF HaltRoot, NoPid, Pids
  <2> DEFINE s == [pid_check EXCEPT ![cur_pid] = 0]
  <2>3. s \in [Pids -> {0, 1}] BY DEF TypeOK
  <2>4. \A q \in Pids : s[q] = IF q <= NoPid THEN 1 ELSE 0
    BY <2>1, <2>2 DEF Pids, NoPid, TypeOK
  <2>5. NoPid + 1 \in Pids /\ NoPid \in Int BY DEF Pids, NoPid
  <2>6. Takes(s, NoPid) /\ UNCHANGED <<tables, control, i, j>> BY <1>4 DEF HaltRoot
  <2>7. pc = "user" BY <1>4 DEF HaltRoot
  <2> HIDE DEF s
  <2> QED BY <2>3, <2>4, <2>5, <2>6, <2>7, TakesTables
<1>5. CASE HaltRootFails
  <2>1. cur_pid \in Pids BY <1>5 DEF HaltRootFails, InSlots, HalfWritten
  <2>2. KERNEL_END \in Entries \ {USER} BY DEF KERNEL_END, Entries
  <2>3. ~DT[KERNEL_END].P
    BY <1>5, <2>2 DEF HaltRootFails, Built, DT_entry, Entry, KERNEL, KERNEL_END
  <2>4. pc' = "hung" BY <1>5, <2>3 DEF HaltRootFails, Walk
  <2>5. TypeOK' BY <1>5, <2>1, <2>4 DEF HaltRootFails, TypeOK, Steps, tables, control
  <2>6. (Building /\ Built /\ Controlled /\ InSlots /\ HalfWritten)'
    BY <1>5, <2>4 DEF HaltRootFails, Building, Built, Controlled, InSlots, HalfWritten,
                Starting, Switching, tables, control, DT_entry, PT_entry
  <2> QED BY <2>5, <2>6
<1> QED BY <1>1, <1>2, <1>3, <1>4, <1>5

(* A step of the switch, which stores v. *)
LEMMA SwitchStep ==
  ASSUME TableInv, NEW v \in EntryType, goal \in Pids,
         DT' = [DT EXCEPT ![USER] = v],
         UNCHANGED <<PT, control, i, j, processes>>,
         \/ pc = "clear" /\ pc' = "mask" /\ v = Zero
         \/ pc = "mask" /\ pc' = "frame" /\ v = UserEntry(0)
         \/ pc = "frame" /\ pc' = "flush" /\ v = UserEntry(2 + goal)
  PROVE  TableInv'
<1> USE LayoutAssumption DEF TableInv, control, processes
<1>1. USER \in Entries BY DEF Entries
<1>2. DT \in [Entries -> EntryType] BY DEF TypeOK
<1>3. DT' \in [Entries -> EntryType] BY <1>1, <1>2
<1>4. DT'[USER] = v /\ \A e \in Entries \ {USER} : DT'[e] = DT[e] BY <1>1, <1>2
<1>5. TypeOK' BY <1>3 DEF TypeOK, Steps
<1>6. Building' /\ InSlots' BY DEF Building, InSlots, Starting, Switching
<1>7. Built' BY <1>4 DEF Built, DT_entry, PT_entry
<1>8. Controlled' BY Zenon DEF Controlled
<1>9. HalfWritten'
  <2>1. 2 + goal \in 2..(MAX_PROCESS_NUMBER + 1) BY DEF Pids
  <2>2. v \in {DT_entry(USER), Zero}
              \cup {UserEntry(a) : a \in {0} \cup 2..(MAX_PROCESS_NUMBER + 1)}
    BY <2>1
  <2>3. (DT_entry(USER))' = DT_entry(USER) BY DEF DT_entry
  <2> QED BY <1>4, <2>2, <2>3 DEF HalfWritten, Starting, Switching
<1> QED BY <1>5, <1>6, <1>7, <1>8, <1>9

(* The switch, and what changes no table. *)
LEMMA SwitchTables ==
  ASSUME TableInv,
         ClearEntry \/ MaskEntry \/ FrameEntry \/ tlb_flash \/ Load \/ Fill \/ Hung
  PROVE  TableInv'
<1> USE LayoutAssumption DEF TableInv, tables, control, processes
<1>1. USER \in Entries BY DEF Entries
<1>2. CASE ClearEntry \/ MaskEntry \/ FrameEntry
  <2>1. goal \in Pids /\ DT \in [Entries -> EntryType]
    BY <1>2 DEF ClearEntry, MaskEntry, FrameEntry, HalfWritten, Switching, TypeOK
  <2>2. 2 + goal \in 2..(MAX_PROCESS_NUMBER + 1) BY <2>1 DEF Pids
  <2>3. CASE ClearEntry
    <3>1. pc = "clear" /\ pc' = "mask" /\ DT' = [DT EXCEPT ![USER] = Zero]
      BY <2>3 DEF ClearEntry
    <3> QED BY <1>1, <2>1, <3>1, EntryTyped, SwitchStep, <2>3 DEF ClearEntry
  <2>4. CASE MaskEntry
    <3>1. pc = "mask" /\ pc' = "frame" BY <2>4 DEF MaskEntry
    <3>2. DT[USER].addr = 0 BY <3>1 DEF HalfWritten, Zero, Entry
    <3>3. DT' = [DT EXCEPT ![USER] = UserEntry(0)]
      BY <2>4, <3>2 DEF MaskEntry, UserEntry
    <3> QED BY <1>1, <2>1, <3>1, <3>3, EntryTyped, SwitchStep, <2>4 DEF MaskEntry
  <2>5. CASE FrameEntry
    <3>1. pc = "frame" /\ pc' = "flush" BY <2>5 DEF FrameEntry
    <3>2. DT[USER] = UserEntry(0) BY <3>1 DEF HalfWritten
    <3>3. /\ DT[USER].P = TRUE /\ DT[USER].RW = TRUE
          /\ DT[USER].US = TRUE /\ DT[USER].PS = TRUE
      BY <3>2 DEF UserEntry, Entry
    <3>4. DT' = [DT EXCEPT ![USER] = UserEntry(2 + goal)]
      BY <2>5, <3>3 DEF FrameEntry, UserEntry
    <3>5. UserEntry(2 + goal) \in EntryType BY <2>2, EntryTyped
    <3> HIDE DEF TableInv
    <3> QED BY <2>1, <3>1, <3>4, <3>5, SwitchStep, <2>5 DEF FrameEntry
  <2> QED BY <1>2, <2>3, <2>4, <2>5
<1>3. CASE tlb_flash \/ Load
  <2>1. TypeOK' BY <1>3 DEF tlb_flash, Load, TypeOK, Steps
  <2>2. then \in {"load", "hung"} BY DEF TypeOK
  <2>3. (Building /\ Built)'
    BY <1>3, <2>2 DEF tlb_flash, Load, Building, Built, DT_entry, PT_entry
  <2>5. InSlots' BY <1>3, <2>2 DEF tlb_flash, Load, InSlots, Starting, Switching
  <2>6. HalfWritten'
    <3>1. (DT_entry(USER))' = DT_entry(USER) BY DEF DT_entry
    <3> QED BY <1>3, <2>2, <3>1 DEF tlb_flash, Load, HalfWritten, Starting, Switching
  <2>4. Controlled' BY <1>3, <2>2 DEF tlb_flash, Load, Controlled
  <2> QED BY <2>1, <2>3, <2>4, <2>5, <2>6
<1>4. CASE Fill \/ Hung
  <2>1. UNCHANGED <<tables, control, pc, i, j, processes>> BY <1>4 DEF Fill, Hung, vars
  <2>2. TypeOK' BY <2>1 DEF TypeOK
  <2>3. (Building /\ Built /\ InSlots /\ HalfWritten)'
    BY <2>1 DEF Building, Built, InSlots, HalfWritten, DT_entry, PT_entry
  <2>4. Controlled' BY <2>1, Zenon DEF Controlled
  <2> QED BY <2>2, <2>3, <2>4
<1> QED BY <1>2, <1>3, <1>4

-----------------------------------------------------------------------------
(* Translations. *)

(* With paging on, the kernel's two translations and the programs' entry,  *)
(* if it is present, are all there is.                                     *)
LEMMA Reach ==
  ASSUME TableInv, pg
  PROVE  /\ Walk(KERNEL, 0) = {Frame(KERNEL, KERNEL, FALSE)}
         /\ Walk(0, VIDEO) = {[at |-> <<0, VIDEO>>, big |-> FALSE, addr |-> VIDEO,
                               us |-> FALSE]}
         /\ Page(0, VIDEO, FALSE) \in Walk(0, VIDEO)
         /\ Walk(USER, 0) \subseteq UserFrames
         /\ pc \in {"load", "user"} => Walk(USER, 0) = {Frame(USER, 2 + cur_pid, TRUE)}
         /\ Translations = Walk(KERNEL, 0) \cup Walk(0, VIDEO) \cup Walk(USER, 0)
<1> USE LayoutAssumption DEF TableInv
<1>1. cr3 /\ pse /\ pc \notin Starting \ {"boot"} BY DEF Controlled, Starting
<1>2. /\ \A e \in Entries : PT[e] = PT_entry(e)
      /\ \A e \in Entries \ {USER} : DT[e] = DT_entry(e)
  BY <1>1 DEF Built, Starting
<1>3. /\ 0 \in Entries \ {USER} /\ KERNEL \in Entries \ {USER}
      /\ VIDEO \in Entries /\ USER \in Entries /\ KERNEL # 0
  BY DEF Entries, KERNEL
<1>4. Walk(KERNEL, 0) = {Frame(KERNEL, KERNEL, FALSE)}
  <2>1. DT[KERNEL] = Entry(TRUE, TRUE, FALSE, TRUE, KERNEL)
    BY <1>2, <1>3 DEF DT_entry
  <2>2. /\ DT[KERNEL].P = TRUE /\ DT[KERNEL].PS = TRUE
        /\ DT[KERNEL].US = FALSE /\ DT[KERNEL].addr = KERNEL
    BY <2>1 DEF Entry
  <2> QED BY <1>1, <2>2 DEF Walk
<1>5. \A e \in Entries : Walk(0, e) = IF e = VIDEO THEN {Page(0, VIDEO, FALSE)} ELSE {}
  <2>1. DT[0] = Entry(TRUE, TRUE, TRUE, FALSE, PT_ADDR) BY <1>2, <1>3 DEF DT_entry
  <2>2. DT[0].P = TRUE /\ DT[0].PS = FALSE /\ DT[0].US = TRUE BY <2>1 DEF Entry
  <2>3. \A e \in Entries : (PT[e].P <=> e = VIDEO) /\ PT[e].US = FALSE
    <3>1. PT[VIDEO].P = TRUE /\ PT[VIDEO].US = FALSE
      <4>1. PT[VIDEO] = Entry(TRUE, TRUE, FALSE, FALSE, VIDEO)
        BY <1>2, <1>3 DEF PT_entry
      <4> QED BY <4>1 DEF Entry
    <3>2. ASSUME NEW e \in Entries, e # VIDEO
          PROVE  PT[e].P = FALSE /\ PT[e].US = FALSE
      <4>1. PT[e] = Entry(FALSE, TRUE, FALSE, FALSE, e) BY <1>2, <3>2 DEF PT_entry
      <4> QED BY <4>1 DEF Entry
    <3> QED BY <3>1, <3>2
  <2> QED BY <1>1, <2>2, <2>3 DEF Walk
<1>6. Page(0, VIDEO, FALSE) = [at |-> <<0, VIDEO>>, big |-> FALSE, addr |-> VIDEO,
                               us |-> FALSE]
  <2>1. PT[VIDEO] = Entry(TRUE, TRUE, FALSE, FALSE, VIDEO) BY <1>2, <1>3 DEF PT_entry
  <2>2. PT[VIDEO].addr = VIDEO BY <2>1 DEF Entry
  <2> QED BY <2>2 DEF Page
<1>7. \A d \in Entries \ {0, KERNEL, USER}, e \in Entries : Walk(d, e) = {}
  BY <1>2 DEF Walk, DT_entry, Entry
<1>8. \A e \in Entries : Walk(KERNEL, e) = Walk(KERNEL, 0)
  BY <1>1, <1>2, <1>3 DEF Walk, DT_entry, Entry
<1>9. PICK a \in {0} \cup 2..(MAX_PROCESS_NUMBER + 1) :
        DT[USER] = UserEntry(a) \/ DT[USER] = DT_entry(USER) \/ DT[USER] = Zero
  BY <1>1 DEF HalfWritten, Starting
<1>10. \A e \in Entries : Walk(USER, e) = IF DT[USER] = UserEntry(a)
                                         THEN {Frame(USER, a, TRUE)} ELSE {}
  <2>1. CASE DT[USER] = UserEntry(a)
    <3>1. /\ DT[USER].P = TRUE /\ DT[USER].PS = TRUE
          /\ DT[USER].US = TRUE /\ DT[USER].addr = a
      BY <2>1 DEF UserEntry, Entry
    <3> QED BY <1>1, <2>1, <3>1 DEF Walk
  <2>2. CASE DT[USER] = DT_entry(USER) \/ DT[USER] = Zero
    <3>1. DT[USER].P = FALSE BY <1>3, <2>2 DEF DT_entry, Zero, Entry, KERNEL
    <3>2. DT[USER] # UserEntry(a) BY <3>1 DEF UserEntry, Entry
    <3> QED BY <3>1, <3>2 DEF Walk
  <2> QED BY <1>9, <2>1, <2>2
<1>11. Walk(USER, 0) \subseteq UserFrames BY <1>3, <1>9, <1>10 DEF UserFrames
<1>12. ASSUME pc \in {"load", "user"}
       PROVE  Walk(USER, 0) = {Frame(USER, 2 + cur_pid, TRUE)}
  <2>1. DT[USER] = UserEntry(2 + cur_pid) BY <1>12 DEF HalfWritten, InSlots
  <2>2. /\ DT[USER].P = TRUE /\ DT[USER].PS = TRUE
        /\ DT[USER].US = TRUE /\ DT[USER].addr = 2 + cur_pid
    BY <2>1 DEF UserEntry, Entry
  <2> QED BY <1>1, <2>2 DEF Walk
<1>13. Translations = Walk(KERNEL, 0) \cup Walk(0, VIDEO) \cup Walk(USER, 0)
  <2>1. \A d, e \in Entries :
          Walk(d, e) \subseteq Walk(KERNEL, 0) \cup Walk(0, VIDEO) \cup Walk(USER, 0)
    BY <1>3, <1>5, <1>7, <1>8, <1>10
  <2> QED BY <1>3, <2>1 DEF Translations
<1> QED BY <1>3, <1>4, <1>5, <1>6, <1>11, <1>12, <1>13

-----------------------------------------------------------------------------
(* What the processor keeps. *)

(* The translations depend on the tables and the control registers alone.  *)
LEMMA SameTables ==
  ASSUME UNCHANGED <<tables, control>>
  PROVE  Translations' = Translations
BY DEF tables, control, Translations, Walk, Frame, Page

LEMMA ConstantFrames == (KernelFrames \cup UserFrames)' = KernelFrames \cup UserFrames
BY DEF KernelFrames, UserFrames, Frame

(* An empty TLB holds nothing stale. *)
LEMMA KeptEmpty == ASSUME tlb' = {} PROVE Kept'
BY DEF Kept

(* What was kept stays right when the tables do, and it may be stale while *)
(* an entry is switched.                                                   *)
LEMMA KeptFrozen ==
  ASSUME Kept, tlb' = tlb, pg' = pg,
         \/ pc' \in Switching
         \/ pc \notin Switching /\ UNCHANGED <<tables, control>>
  PROVE  Kept'
<1>1. (~pg => tlb = {})' BY DEF Kept
<1>2. (tlb \subseteq KernelFrames \cup UserFrames)' BY ConstantFrames DEF Kept
<1>3. (pc \notin Switching => tlb \subseteq Translations)'
  BY SameTables DEF Kept, Switching
<1> QED BY <1>1, <1>2, <1>3 DEF Kept

LEMMA KeptFill == ASSUME TableInv, Kept, Fill PROVE Kept'
<1>1. PICK t \in Translations : tlb' = tlb \cup {t} BY DEF Fill
<1>2. pg /\ pg' = pg /\ pc' = pc /\ UNCHANGED <<tables, control>>
  BY DEF Fill, control
<1>3. Translations \subseteq KernelFrames \cup UserFrames
  BY <1>2, Reach DEF KernelFrames
<1>4. Translations' = Translations BY <1>2, SameTables
<1>5. (tlb \subseteq KernelFrames \cup UserFrames)'
  BY <1>1, <1>3, ConstantFrames DEF Kept
<1>6. (pc \notin Switching => tlb \subseteq Translations)'
  BY <1>1, <1>2, <1>4 DEF Kept, Switching
<1> QED BY <1>2, <1>5, <1>6 DEF Kept

LEMMA KeptStep == ASSUME TableInv, Kept, [Next]_vars PROVE Kept'
<1>1. CASE PT_init \/ DT_init \/ TablesDone \/ SetCr3 \/ SetPse \/ SetPg
  <2>1. ~pg /\ tlb' = tlb
    BY <1>1 DEF PT_init, DT_init, TablesDone, SetCr3, SetPse, SetPg, TableInv, Controlled
  <2> QED BY <2>1, KeptEmpty DEF Kept
<1>2. CASE Execute \/ HaltChild \/ HaltRoot
  BY <1>2, KeptFrozen DEF Execute, HaltChild, HaltRoot, Takes, Switching, control
<1>3. CASE HaltRootFails \/ BootFails \/ Load
  <2>1. pc \notin Switching /\ UNCHANGED <<tables, control, tlb>>
    BY <1>3 DEF HaltRootFails, BootFails, Load, Switching
  <2> QED BY <2>1, KeptFrozen DEF control
<1>4. CASE ClearEntry \/ MaskEntry \/ FrameEntry
  BY <1>4, KeptFrozen DEF ClearEntry, MaskEntry, FrameEntry, Switching, control
<1>5. CASE tlb_flash BY <1>5, KeptEmpty DEF tlb_flash
<1>6. CASE Fill BY <1>6, KeptFill
<1>7. CASE Hung \/ UNCHANGED vars
  <2>1. pc' = pc /\ UNCHANGED <<tables, control, tlb>> BY <1>7 DEF Hung, vars
  <2> QED BY <2>1, KeptFrozen DEF control, Switching
<1> QED BY <1>1, <1>2, <1>3, <1>4, <1>5, <1>6, <1>7 DEF Next

-----------------------------------------------------------------------------
(* The inductive invariant and what follows from it. *)

LEMMA Stutter == ASSUME TableInv, UNCHANGED vars PROVE TableInv'
<1> USE DEF TableInv, vars, tables, control, processes
<1>1. TypeOK' BY DEF TypeOK
<1>2. (Building /\ Built /\ InSlots /\ HalfWritten)'
  BY DEF Building, Built, InSlots, HalfWritten, DT_entry, PT_entry
<1>3. Controlled' BY Zenon DEF Controlled
<1> QED BY <1>1, <1>2, <1>3

LEMMA Inductive == Spec => []IInv
<1>1. Init => IInv
  <2> SUFFICES ASSUME Init PROVE IInv OBVIOUS
  <2>1. TableInv BY InitTables
  <2>2. Kept BY DEF Init, Kept
  <2> QED BY <2>1, <2>2 DEF TableInv, IInv
<1>2. IInv /\ [Next]_vars => IInv'
  <2> SUFFICES ASSUME TableInv, Kept, [Next]_vars PROVE TableInv' /\ Kept'
    BY DEF TableInv, IInv
  <2>1. TableInv'
    BY InitializationTables, ProcessTables, SwitchTables, Stutter DEF Next
  <2> QED BY <2>1, KeptStep
<1> QED BY <1>1, <1>2, PTL DEF Spec

(* Every variable has its type, for every size of the tables and number of *)
(* processes.                                                              *)
THEOREM Typing == Spec => []TypeOK
<1>1. IInv => TypeOK BY DEF IInv
<1> QED BY <1>1, Inductive, PTL

(* With paging on, the kernel and the video memory are always reachable,   *)
(* and at their own addresses.                                             *)
THEOREM Reachable == Spec => []KernelReachable
<1>1. IInv => KernelReachable
  <2> SUFFICES ASSUME TableInv, Kept, pg, NEW t \in tlb \cup Translations
               PROVE  /\ t.at[1] = KERNEL => t = Frame(KERNEL, KERNEL, FALSE)
                      /\ t.at[1] = 0 => t = Page(0, VIDEO, FALSE)
                      /\ Walk(KERNEL, 0) # {} /\ Walk(0, VIDEO) # {}
    BY DEF KernelReachable, TableInv, IInv
  <2>1. /\ Walk(KERNEL, 0) = {Frame(KERNEL, KERNEL, FALSE)}
        /\ Walk(0, VIDEO) = {[at |-> <<0, VIDEO>>, big |-> FALSE, addr |-> VIDEO,
                              us |-> FALSE]}
    BY Reach
  <2>2. t \in KernelFrames \cup UserFrames BY Reach DEF Kept, KernelFrames
  <2>3. Page(0, VIDEO, FALSE) = [at |-> <<0, VIDEO>>, big |-> FALSE, addr |-> VIDEO,
                                 us |-> FALSE]
    BY <2>1, Reach
  <2>4. KERNEL # 0 /\ USER # 0 /\ USER # KERNEL BY LayoutAssumption DEF KERNEL
  <2>5. (t.at[1] = KERNEL => t = Frame(KERNEL, KERNEL, FALSE))
        /\ (t.at[1] = 0 => t = Page(0, VIDEO, FALSE))
    <3>1. CASE t = Frame(KERNEL, KERNEL, FALSE)
      <4>1. t.at = <<KERNEL, 0>> BY <3>1 DEF Frame
      <4>2. t.at[1] = KERNEL BY <4>1
      <4> QED BY <2>4, <3>1, <4>2
    <3>2. CASE t = Page(0, VIDEO, FALSE)
      <4>1. t.at = <<0, VIDEO>> BY <3>2 DEF Page
      <4>2. t.at[1] = 0 BY <4>1
      <4> QED BY <2>4, <3>2, <4>2
    <3>3. CASE t \in UserFrames
      <4>1. PICK a : t = Frame(USER, a, TRUE) BY <3>3 DEF UserFrames
      <4>2. t.at = <<USER, 0>> BY <4>1 DEF Frame
      <4>3. t.at[1] = USER BY <4>2
      <4> QED BY <2>4, <4>3
    <3> QED BY <2>2, <2>3, <3>1, <3>2, <3>3 DEF KernelFrames
  <2> QED BY <2>1, <2>5
<1> QED BY <1>1, Inductive, PTL

(* Nothing but the kernel's entry, the video page and the entry of         *)
(* programs is ever present, which page_test_present expects.              *)
THEOREM Only == Spec => []NothingElseMapped
<1>1. IInv => NothingElseMapped BY Reach DEF IInv, TableInv, NothingElseMapped
<1> QED BY <1>1, Inductive, PTL

(* The TLB is stale at most inside a switch. *)
THEOREM NoStale == Spec => []NoStaleTranslation
<1>1. IInv => NoStaleTranslation BY DEF IInv, Kept, NoStaleTranslation, Switching
<1> QED BY <1>1, Inductive, PTL

(* A program, and execute when it copies one, reaches its process's frame  *)
(* and no other memory.                                                    *)
THEOREM Own == Spec => []OwnFrame
<1>1. IInv => OwnFrame
  <2> SUFFICES ASSUME TableInv, Kept, pc \in {"load", "user"}
               PROVE  UserReach = {Frame(USER, 2 + cur_pid, TRUE)}
    BY DEF OwnFrame, TableInv, IInv
  <2>1. pg BY DEF TableInv, Controlled
  <2>2. tlb \subseteq Translations BY DEF Kept, Switching
  <2>3. Translations = KernelFrames \cup {Frame(USER, 2 + cur_pid, TRUE)}
    BY <2>1, Reach DEF KernelFrames
  <2>4. \A t \in KernelFrames : ~t.us BY DEF KernelFrames, Frame
  <2>5. Frame(USER, 2 + cur_pid, TRUE).us BY DEF Frame
  <2> QED BY <2>2, <2>3, <2>4, <2>5 DEF UserReach
<1> QED BY <1>1, Inductive, PTL

(* No program ever reaches the kernel's frame. *)
THEOREM Private == Spec => []KernelPrivate
<1>1. IInv => KernelPrivate
  <2> SUFFICES ASSUME TableInv, Kept, NEW t \in tlb \cup Translations, t.us
               PROVE  t.addr # KERNEL
    BY DEF KernelPrivate, UserReach, TableInv, IInv
  <2>1. t \in KernelFrames \cup UserFrames
    <3>1. CASE pg BY <3>1, Reach DEF Kept, KernelFrames
    <3>2. CASE ~pg BY <3>2 DEF Kept, Translations, Walk
    <3> QED BY <3>1, <3>2
  <2>2. t \in UserFrames BY <2>1 DEF KernelFrames, Frame
  <2>3. PICK a \in {0} \cup 2..(MAX_PROCESS_NUMBER + 1) : t = Frame(USER, a, TRUE)
    BY <2>2 DEF UserFrames
  <2> QED BY <2>3 DEF Frame, KERNEL
<1> QED BY <1>1, Inductive, PTL
=============================================================================
