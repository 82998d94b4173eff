-------------------------- MODULE ProcessStack_proofs --------------------------
(* The process layer implements the stack of program images, for every     *)
(* size of the process table and every directory.                          *)
EXTENDS Process_proofs, DataLemmas

-----------------------------------------------------------------------------
(* The refinement mapping. *)

Images == [i \in 1..Depth |-> frame[i - 1]]
Power == IF cpu = "boot" THEN "off" ELSE IF cpu = "user" THEN "on" ELSE "dead"

(* The live slots are the k lowest. *)
Deep(check, k) == k \in 0..MAX_PROCESS_NUMBER
                  /\ \A p \in Pids : check[p] = 1 <=> p < k

(* Only one depth fits a table. *)
LEMMA OneDepth ==
  ASSUME NEW check, NEW k, NEW l, Deep(check, k), Deep(check, l)
  PROVE  k = l
<1>1. ASSUME NEW a \in 0..MAX_PROCESS_NUMBER, NEW b \in 0..MAX_PROCESS_NUMBER, a < b,
             Deep(check, a), Deep(check, b)
      PROVE  FALSE
  <2>1. a \in Pids
    BY <1>1, SizesAssumption DEF Pids
  <2>2. QED BY <1>1, <2>1 DEF Deep
<1>2. k \in Int /\ l \in Int
  BY SizesAssumption DEF Deep
<1>3. ~(k < l) /\ ~(l < k)
  BY <1>1 DEF Deep
<1>4. QED BY <1>2, <1>3

LEMMA DepthIs ==
  ASSUME NEW k, Deep(pid_check, k)
  PROVE  Depth = k
<1>1. \A l \in 0..MAX_PROCESS_NUMBER :
        (\A p \in Pids : Live(p) <=> p < l) <=> Deep(pid_check, l)
  BY DEF Live, Deep
<1>2. k \in 0..MAX_PROCESS_NUMBER /\ \A p \in Pids : Live(p) <=> p < k
  BY <1>1 DEF Deep
<1>3. QED BY <1>1, <1>2, OneDepth DEF Depth

LEMMA NextDepthIs ==
  ASSUME NEW k, Deep(pid_check', k)
  PROVE  Depth' = k
<1>1. \A l \in 0..MAX_PROCESS_NUMBER :
        (\A p \in Pids : (Live(p))' <=> p < l) <=> Deep(pid_check', l)
  BY DEF Live, Deep
<1>2. k \in 0..MAX_PROCESS_NUMBER /\ \A p \in Pids : (Live(p))' <=> p < k
  BY <1>1 DEF Deep
<1>3. QED BY <1>1, <1>2, OneDepth DEF Depth

(* What the mapped variables are. *)
LEMMA ImagesAre ==
  ASSUME TypeOK, NEW k, Deep(pid_check, k)
  PROVE  /\ k \in Nat /\ Images \in [1..k -> Names \cup {Missing}]
         /\ \A i \in 1..k : i - 1 \in Pids /\ Images[i] = frame[i - 1]
<1>1. k \in Nat /\ k <= MAX_PROCESS_NUMBER
  BY SizesAssumption DEF Deep
<1>2. \A i \in 1..k : i - 1 \in Pids
  BY <1>1, SizesAssumption DEF Pids
<1>3. Images = [i \in 1..k |-> frame[i - 1]]
  BY DepthIs DEF Images
<1>4. \A i \in 1..k : frame[i - 1] \in Names \cup {Missing}
  BY <1>2 DEF TypeOK
<1>5. QED BY <1>1, <1>2, <1>3, <1>4

LEMMA NextImagesAre ==
  ASSUME TypeOK', NEW k, Deep(pid_check', k)
  PROVE  /\ k \in Nat /\ Images' \in [1..k -> Names \cup {Missing}]
         /\ \A i \in 1..k : i - 1 \in Pids /\ Images'[i] = frame'[i - 1]
<1>1. k \in Nat /\ k <= MAX_PROCESS_NUMBER
  BY SizesAssumption DEF Deep
<1>2. \A i \in 1..k : i - 1 \in Pids
  BY <1>1, SizesAssumption DEF Pids
<1>3. Images' = [i \in 1..k |-> frame'[i - 1]]
  BY NextDepthIs DEF Images
<1>4. \A i \in 1..k : frame'[i - 1] \in Names \cup {Missing}
  BY <1>2 DEF TypeOK
<1>5. QED BY <1>1, <1>2, <1>3, <1>4

(* While a program runs, the stack ends in the running process.            *)
LEMMA RunningDepth ==
  ASSUME IInv, cpu = "user"
  PROVE  /\ cur_pid \in Pids /\ cur_pid + 1 \in 1..MAX_PROCESS_NUMBER
         /\ Deep(pid_check, cur_pid + 1)
<1>1. cur_pid \in Pids /\ \A p \in Pids : Live(p) <=> p <= cur_pid
  BY DEF IInv, UserContext, Running, Live
<1>2. QED BY <1>1, SizesAssumption DEF Deep, Live, Pids

-----------------------------------------------------------------------------
(* Steps. *)

(* execute into slot k puts its program on top of the k images below it.   *)
LEMMA LaunchPushes ==
  ASSUME TypeOK, TypeOK', NEW n \in Names, NEW k \in Pids,
         NEW check \in [Pids -> {0, 1}],
         \A p \in Pids : check[p] = 0 <=> p >= k,
         NEW parent, Launch(n, check, parent)
  PROVE  /\ Deep(pid_check', k + 1)
         /\ frame' = [frame EXCEPT ![k] = n] /\ Images'[k + 1] = n
         /\ \A i \in 1..k : Images'[i] = frame[i - 1]
<1>1. FirstFree(check) = k
  BY FirstFreeIs
<1>2. pid_check' = [check EXCEPT ![k] = 1] /\ frame' = [frame EXCEPT ![k] = n]
  BY <1>1 DEF Launch, SwitchPage, LoadImage
<1>3. Deep(pid_check', k + 1)
  BY <1>2, SizesAssumption DEF Deep, Pids
<1>4. \A i \in 1..(k + 1) : i - 1 \in Pids /\ Images'[i] = frame'[i - 1]
  BY <1>3, NextImagesAre
<1>5. k \in Nat /\ frame'[(k + 1) - 1] = n
  BY <1>2 DEF Pids, TypeOK
<1>6. \A i \in 1..k : frame'[i - 1] = frame[i - 1]
  BY <1>2, <1>4, <1>5 DEF TypeOK
<1>7. QED BY <1>2, <1>3, <1>4, <1>5, <1>6

(* The stack is a shell alone. *)
LEMMA OnlyShell ==
  ASSUME TypeOK', Deep(pid_check', 1), Images'[1] = Shell
  PROVE  Images' = <<Shell>>
<1>1. Images' \in [1..1 -> Names \cup {Missing}]
  BY NextImagesAre
<1>2. Images' \in Seq(Names \cup {Missing}) /\ Len(Images') = 1
  BY <1>1, FunctionIsSeq
<1>3. <<Shell>> \in Seq(Names \cup {Missing}) /\ Len(<<Shell>>) = 1
  BY DirectoryAssumption
<1>4. \A i \in 1..1 : Images'[i] = <<Shell>>[i]
  OBVIOUS
<1>5. QED BY <1>2, <1>3, <1>4, SeqEqual

(* No slot and no image changed. *)
LEMMA SameImages == ASSUME UNCHANGED <<pid_check, frame>> PROVE Images' = Images
BY DEF Images, Depth, Live

(* The images of the first k slots, before the step. *)
Lowest(k) == [i \in 1..k |-> frame[i - 1]]

(* Without the top of the stack the slots below it are left. *)
LEMMA WithoutTop ==
  ASSUME TypeOK, NEW k \in Pids, Deep(pid_check, k + 1)
  PROVE  Lowest(k) = SubSeq(Images, 1, Len(Images) - 1)
<1>1. k + 1 \in Nat \ {0} /\ (k + 1) - 1 = k
  BY DEF Pids
<1>2. /\ Images \in [1..(k + 1) -> Names \cup {Missing}]
      /\ \A i \in 1..(k + 1) : Images[i] = frame[i - 1]
  BY ImagesAre
<1>3. \A i \in 1..k : i \in 1..(k + 1)
  BY <1>1
<1>4. Lowest(k) \in [1..k -> Names \cup {Missing}]
  BY <1>2, <1>3 DEF Lowest
<1>5. \A i \in 1..k : Lowest(k)[i] = Images[i]
  BY <1>2, <1>3 DEF Lowest
<1>6. Lowest(k) = SubSeq(Images, 1, k) /\ Len(Images) = k + 1
  BY <1>1, <1>2, <1>4, <1>5, OneLess
<1>7. QED BY <1>1, <1>6

(* The stack after a step that stopped the machine with k slots taken and  *)
(* at most the last image overwritten.                                     *)
LEMMA LastHarmed ==
  ASSUME TypeOK, TypeOK', NEW k, Deep(pid_check', k),
         \/ frame' = frame
         \/ k > 0 /\ frame' = [frame EXCEPT ![k - 1] = Missing]
  PROVE  LET rest == Lowest(k)
         IN  \/ Images' = rest
             \/ rest # <<>> /\ Images' = [rest EXCEPT ![Len(rest)] = Missing]
<1>1. /\ k \in Nat /\ Images' \in [1..k -> Names \cup {Missing}]
      /\ \A i \in 1..k : i - 1 \in Pids /\ Images'[i] = frame'[i - 1]
  BY NextImagesAre
<1>2. Lowest(k) \in [1..k -> Names \cup {Missing}]
  BY <1>1 DEF Lowest, TypeOK
<1>3. Len(Lowest(k)) = k
  BY <1>1, <1>2, FunctionIsSeq
<1>4. CASE frame' = frame
  <2>1. \A i \in 1..k : Images'[i] = Lowest(k)[i]
    BY <1>1, <1>4 DEF Lowest
  <2>2. QED BY <1>1, <1>2, <2>1
<1>5. CASE k > 0 /\ frame' = [frame EXCEPT ![k - 1] = Missing]
  <2> DEFINE harmed == [Lowest(k) EXCEPT ![k] = Missing]
  <2>1. k \in 1..k
    BY <1>1, <1>5
  <2>2. harmed \in [1..k -> Names \cup {Missing}]
    BY <1>2
  <2>3. ASSUME NEW i \in 1..k PROVE Images'[i] = harmed[i]
    <3>1. CASE i = k
      <4>1. frame'[k - 1] = Missing
        BY <1>1, <1>5, <2>1 DEF TypeOK
      <4>2. harmed[k] = Missing
        BY <1>2, <2>1
      <4>3. QED BY <1>1, <3>1, <4>1, <4>2
    <3>2. CASE i # k
      <4>1. i - 1 # k - 1 /\ i - 1 \in Pids
        <5>1. i \in Int /\ k \in Int
          BY <1>1
        <5>2. i - 1 # k - 1
          BY <3>2, <5>1
        <5>3. QED BY <1>1, <5>2
      <4>2. frame'[i - 1] = frame[i - 1]
        BY <1>5, <4>1 DEF TypeOK
      <4>3. harmed[i] = frame[i - 1]
        BY <3>2 DEF Lowest
      <4>4. QED BY <1>1, <4>2, <4>3
    <3>3. QED BY <3>1, <3>2
  <2> HIDE DEF harmed
  <2>4. Images' = harmed
    BY <1>1, <2>2, <2>3
  <2>5. Lowest(k) # <<>>
    BY <1>3, <1>5
  <2>6. QED BY <1>3, <2>4, <2>5 DEF harmed
<1>6. QED BY <1>4, <1>5

Mapped == [Stack!Next]_(Stack!svars)

LEMMA BootMapped == ASSUME IInv, IInv', Boot PROVE Mapped
<1>1. 0 \in Pids /\ \A p \in Pids : p >= 0
  BY SizesAssumption DEF Pids
<1>2. /\ pid_check \in [Pids -> {0, 1}] /\ \A p \in Pids : pid_check[p] = 0
      /\ Launch(Shell, pid_check, cur_pid) /\ Shell \in Names
  BY DirectoryAssumption DEF Boot, IInv, NotStarted, TypeOK
<1>3. \A p \in Pids : pid_check[p] = 0 <=> p >= 0
  BY <1>1, <1>2
<1>4. Deep(pid_check', 0 + 1) /\ Images'[0 + 1] = Shell
  BY <1>1, <1>2, <1>3, LaunchPushes DEF IInv
<1>5. Images' = <<Shell>>
  BY <1>4, OnlyShell DEF IInv
<1>6. Power = "off" /\ Power' = "on"
  BY DEF Boot, Launch, Power
<1>7. QED BY <1>5, <1>6 DEF Mapped, Stack!Next, Stack!Start, Images, Power

LEMMA ExecuteMapped ==
  ASSUME IInv, IInv', NEW n \in Names \cup {Missing}, ExecuteProgram(n)
  PROVE  Mapped
<1>1. n \in Names
  BY DEF ExecuteProgram, Loads, Lookup, EmptyDentry
<1>2. cur_pid \in Pids /\ Deep(pid_check, cur_pid + 1)
  BY RunningDepth DEF ExecuteProgram
<1>3. pid_check \in [Pids -> {0, 1}]
  BY DEF IInv, TypeOK
<1>4. PICK q \in Pids : pid_check[q] = 0
  BY DEF ExecuteProgram, FreeSlots
<1> DEFINE k == cur_pid + 1
<1>5. k \in Pids /\ k \in Nat /\ k < MAX_PROCESS_NUMBER
  BY <1>2, <1>4, SizesAssumption DEF Pids, Deep
<1>6. \A p \in Pids : pid_check[p] = 0 <=> p >= k
  BY <1>2, <1>3, <1>5 DEF Pids, Deep
<1>7. Deep(pid_check, k)
  BY <1>2
<1> HIDE DEF k
<1>8. /\ Deep(pid_check', k + 1) /\ Images'[k + 1] = n
      /\ \A i \in 1..k : Images'[i] = frame[i - 1]
  BY <1>1, <1>3, <1>5, <1>6, LaunchPushes DEF IInv, ExecuteProgram
<1>9. /\ Images \in [1..k -> Names \cup {Missing}]
      /\ \A i \in 1..k : Images[i] = frame[i - 1]
  BY <1>7, ImagesAre DEF IInv
<1>10. Images' \in [1..(k + 1) -> Names \cup {Missing}]
  BY <1>8, NextImagesAre DEF IInv
<1>11. Images' = Append(Images, n)
  BY <1>5, <1>8, <1>9, <1>10, OneMore
<1>12. Len(Images) < MAX_PROCESS_NUMBER
  BY <1>5, <1>9, FunctionIsSeq
<1>13. Power = "on" /\ Power' = Power
  BY DEF ExecuteProgram, Launch, Power
<1>14. QED BY <1>1, <1>11, <1>12, <1>13
           DEF Mapped, Stack!Next, Stack!Execute, Images, Power

LEMMA ReplaceMapped == ASSUME IInv, IInv', HaltRoot PROVE Mapped
<1> USE DEF IInv
<1>1. cur_pid = 0 /\ \A p \in Pids : Live(p) <=> p <= cur_pid
  BY DEF HaltRoot, UserContext, Running, ChainBySlot, Live, Pids, None
<1>2. Deep(pid_check, 1) /\ 0 \in Pids
  BY <1>1, RunningDepth DEF HaltRoot
<1> DEFINE check == [pid_check EXCEPT ![cur_pid] = 0]
<1>3. check \in [Pids -> {0, 1}] /\ \A p \in Pids : check[p] = 0 <=> p >= 0
  <2>1. pid_check \in [Pids -> {0, 1}]
    BY DEF TypeOK
  <2>2. \A p \in Pids : p >= 0 /\ (p # 0 => pid_check[p] = 0)
    BY <1>1, <2>1 DEF Live, Pids
  <2>3. QED BY <1>1, <2>1, <2>2
<1>4. Launch(Shell, check, None) /\ Shell \in Names
  BY DirectoryAssumption DEF HaltRoot
<1> HIDE DEF check
<1>5. Deep(pid_check', 0 + 1) /\ Images'[0 + 1] = Shell
  BY <1>2, <1>3, <1>4, LaunchPushes
<1>6. Images' = <<Shell>>
  BY <1>5, OnlyShell
<1>7. Len(Images) = 1
  BY <1>2, ImagesAre, FunctionIsSeq
<1>8. Power = "on" /\ Power' = Power
  BY DEF HaltRoot, Launch, Power
<1>9. QED BY <1>6, <1>7, <1>8 DEF Mapped, Stack!Next, Stack!Replace, Images, Power

(* halt frees the running process's slot; then the machine stops, and the  *)
(* search of close may have overwritten the parent's memory before.        *)
LEMMA HaltMapped == ASSUME IInv, IInv', HaltChild \/ HaltRootFails PROVE Mapped
<1>1. /\ pid_check' = [pid_check EXCEPT ![cur_pid] = 0]
      /\ cpu = "user" /\ cpu' \in {"hung", "wild"}
  BY DEF HaltChild, HaltRootFails, CloseSearch, Hang
<1>2. cur_pid \in Pids /\ Deep(pid_check, cur_pid + 1)
  BY <1>1, RunningDepth
<1>3. Deep(pid_check', cur_pid)
  BY <1>1, <1>2, SizesAssumption DEF Deep, Pids, IInv, TypeOK
<1>4. \/ frame' = frame
      \/ cur_pid > 0 /\ frame' = [frame EXCEPT ![cur_pid - 1] = Missing]
  <2>1. CASE HaltRootFails
    BY <2>1 DEF HaltRootFails
  <2>2. CASE HaltChild
    <3>1. Live(cur_pid) /\ cur_process_ptr = cur_pid
      BY <1>1 DEF IInv, UserContext
    <3>2. cur_pid # 0 /\ tlb' = cur_pid - 1
      BY <1>2, <2>2, <3>1 DEF HaltChild, SwitchPage, IInv, ChainBySlot, None
    <3>3. cur_pid > 0
      BY <1>2, <3>2 DEF Pids
    <3>4. QED BY <2>2, <3>2, <3>3 DEF HaltChild, CloseSearch
  <2>3. QED BY <2>1, <2>2
<1>5. Lowest(cur_pid) = SubSeq(Images, 1, Len(Images) - 1)
  BY <1>2, WithoutTop DEF IInv
<1>6. \/ Images' = Lowest(cur_pid)
      \/ /\ Lowest(cur_pid) # <<>>
         /\ Images' = [Lowest(cur_pid) EXCEPT ![Len(Lowest(cur_pid))] = Missing]
  BY <1>3, <1>4, LastHarmed DEF IInv
<1>7. Power = "on" /\ Power' = "dead"
  BY <1>1 DEF Power
<1>8. QED BY <1>5, <1>6, <1>7 DEF Mapped, Stack!Next, Stack!Crash, Images, Power

(* close stops the machine, perhaps with the program's memory overwritten. *)
LEMMA CloseMapped == ASSUME IInv, IInv', Close PROVE Mapped
<1>1. /\ pid_check' = pid_check /\ tlb' = cur_pid
      /\ cpu = "user" /\ cpu' \in {"hung", "wild"}
  BY DEF Close, CloseSearch, IInv, UserContext
<1>2. /\ cur_pid \in Pids /\ Deep(pid_check, cur_pid + 1)
      /\ (cur_pid + 1) - 1 = cur_pid /\ cur_pid + 1 > 0
  BY <1>1, RunningDepth DEF Pids
<1>3. frame' \in {frame, [frame EXCEPT ![(cur_pid + 1) - 1] = Missing]}
  BY <1>1, <1>2 DEF Close, CloseSearch
<1>4. Lowest(cur_pid + 1) = Images
  BY <1>2, DepthIs DEF Lowest, Images
<1>5. \/ Images' = Images
      \/ Images # <<>> /\ Images' = [Images EXCEPT ![Len(Images)] = Missing]
  BY <1>1, <1>2, <1>3, <1>4, LastHarmed DEF IInv
<1>6. Power = "on" /\ Power' = "dead"
  BY <1>1 DEF Power
<1>7. QED BY <1>5, <1>6 DEF Mapped, Stack!Next, Stack!Crash, Images, Power

(* Every other step keeps the images; it may stop the machine. *)
LEMMA OthersMapped ==
  ASSUME UNCHANGED <<pid_check, frame>>,
         cpu' = cpu \/ (cpu = "user" /\ cpu' \in {"hung", "wild"})
  PROVE  Mapped
<1>1. Images' = Images
  BY SameImages
<1>2. Power' = Power \/ (Power = "on" /\ Power' = "dead")
  BY DEF Power
<1>3. QED
  BY <1>1, <1>2 DEF Mapped, Stack!Next, Stack!Crash, Stack!svars, Images, Power

LEMMA StepMapped == ASSUME IInv, IInv', [Next]_vars PROVE Mapped
<1>1. CASE Boot
  BY <1>1, BootMapped
<1>2. ASSUME NEW n \in Names \cup {Missing}, ExecuteProgram(n)
      PROVE  Mapped
  BY <1>2, ExecuteMapped
<1>3. CASE HaltRoot
  BY <1>3, ReplaceMapped
<1>4. CASE HaltChild \/ HaltRootFails
  BY <1>4, HaltMapped
<1>5. CASE ExecuteNull \/ OtherCall \/ Interrupt \/ UserException
           \/ Stopped \/ UNCHANGED vars
  BY <1>5, OthersMapped DEF ExecuteNull, OtherCall, Interrupt,
        UserException, Stopped, Hang, vars, context
<1>6. ASSUME NEW n \in Names \cup {Missing},
             \/ ExecuteFails(n) \/ OpenMissing(n) \/ OpenFaults(n)
             \/ Open(n) \/ OpenNoFd(n)
      PROVE  Mapped
  BY <1>6, OthersMapped DEF ExecuteFails, OpenMissing, OpenFaults, Open,
        OpenNoFd, vars, context
<1>7. ASSUME NEW fd \in 0..FDARRAY_MAX, Read(fd) \/ ReadFile(fd) \/ Write(fd)
      PROVE  Mapped
  BY <1>7, OthersMapped DEF Read, ReadFile, Write, context
<1>8. CASE Close
  BY <1>8, CloseMapped
<1>9. QED
  BY <1>1, <1>2, <1>3, <1>4, <1>5, <1>6, <1>7, <1>8 DEF Next

(* Before the shell is executed the stack is empty. *)
LEMMA InitMapped == Init => Stack!Init
<1> SUFFICES ASSUME Init PROVE Stack!Init
  OBVIOUS
<1>1. TypeOK
  BY InitInv DEF IInv
<1>2. Deep(pid_check, 0)
  BY SizesAssumption DEF Init, Deep, Pids
<1>3. Images \in [1..0 -> Names \cup {Missing}]
  BY <1>1, <1>2, ImagesAre
<1>4. Images \in Seq(Names \cup {Missing}) /\ Len(Images) = 0
  BY <1>3, FunctionIsSeq
<1>5. Images = <<>>
  BY <1>4, EmptySeq
<1>6. Power = "off"
  BY DEF Init, Power
<1>7. QED BY <1>5, <1>6 DEF Stack!Init, Images, Power

(* execute pushes a program image and the root's halt replaces it; any     *)
(* other halt, close or exception stops the machine with at most the top   *)
(* gone and the image below it harmed, and no call does anything else to   *)
(* the images: the kernel implements ProcessStack.                         *)
THEOREM Implements == Spec => ImplementsStack
<1>1. IInv /\ IInv' /\ [Next]_vars => [Stack!Next]_(Stack!svars)
  BY StepMapped DEF Mapped
<1>2. QED
  BY <1>1, InitMapped, Inductive, PTL DEF Spec, ImplementsStack, Stack!Spec
=============================================================================
