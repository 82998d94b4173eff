------------------------- MODULE Interrupts_proofs -------------------------
(***************************************************************************)
(* The safety invariants of the interrupt path, for every base frequency   *)
(* of the RTC.  They are proved together, as IInv: which lines are in      *)
(* service depends on the handlers not nesting, and what rtc_read has      *)
(* waited for on the flag being set only by the handler.                   *)
(***************************************************************************)
EXTENDS Interrupts, TLAPS

(* rtc_read never owes more than BASE rounds.                              *)
LEMMA RoundsBound ==
  ASSUME rtc_freq \in 2..BASE
  PROVE  Rounds \in 0..BASE
  BY BaseAssumption DEF Rounds

Pics == [master_mask : SUBSET Master, slave_mask : SUBSET Slave,
         imr : SUBSET (Master \cup Slave), isr : SUBSET (Master \cup Slave),
         irr : SUBSET (Master \cup Slave)]

(* Requests and lines in service may be any lines.                         *)
LEMMA PicType ==
  ASSUME NEW p \in Pics, NEW r \in SUBSET (Master \cup Slave),
         NEW s \in SUBSET (Master \cup Slave)
  PROVE  [p EXCEPT !.irr = r, !.isr = s] \in Pics
  BY DEF Pics

(* The operations of the controller's driver leave the requests and what   *)
(* is in service alone, except for the line an EOI ends.                   *)
LEMMA EnableType ==
  ASSUME NEW p \in Pics, NEW n \in Master \cup Slave
  PROVE  /\ Enable(p, n) \in Pics
         /\ Enable(p, n).isr = p.isr /\ Enable(p, n).irr = p.irr
<1>1. \A q \in Pics : \A m \in SUBSET Master :
        /\ PutMaster(q, m) \in Pics
        /\ PutMaster(q, m).isr = q.isr /\ PutMaster(q, m).irr = q.irr
  BY DEF PutMaster, Pics
<1>2. \A q \in Pics : \A m \in SUBSET Slave :
        /\ PutSlave(q, m) \in Pics
        /\ PutSlave(q, m).isr = q.isr /\ PutSlave(q, m).irr = q.irr
        /\ PutSlave(q, m).master_mask = q.master_mask
  BY DEF PutSlave, Pics
<1>3. \A q \in Pics : q.master_mask \in SUBSET Master /\ q.slave_mask \in SUBSET Slave
  BY DEF Pics
<1>4. CASE n \in Slave
  <2>1. Enable(p, n) = PutMaster(PutSlave(p, p.slave_mask \ {n}), p.master_mask \ {CASCADE})
    BY <1>4 DEF Enable
  <2> DEFINE q == PutSlave(p, p.slave_mask \ {n})
  <2>2. p.slave_mask \ {n} \in SUBSET Slave BY <1>3
  <2>3. p.master_mask \ {CASCADE} \in SUBSET Master BY <1>3
  <2>4. q \in Pics /\ q.isr = p.isr /\ q.irr = p.irr BY <1>2, <2>2
  <2> HIDE DEF q
  <2>5. Enable(p, n) = PutMaster(q, p.master_mask \ {CASCADE}) BY <2>1 DEF q
  <2> QED BY <1>1, <2>3, <2>4, <2>5
<1>5. CASE n \notin Slave
  <2> DEFINE q == PutMaster(p, p.master_mask \ {n})
  <2>1. Enable(p, n) = IF n = CASCADE THEN PutSlave(q, {}) ELSE q
    BY <1>5 DEF Enable
  <2>2. p.master_mask \ {n} \in SUBSET Master BY <1>3
  <2>3. q \in Pics /\ q.isr = p.isr /\ q.irr = p.irr BY <1>1, <2>2
  <2> HIDE DEF q
  <2>4. {} \in SUBSET Slave OBVIOUS
  <2> QED BY <1>2, <2>1, <2>3, <2>4
<1> QED BY <1>4, <1>5

(* The initial state satisfies IInv.                                       *)
LEMMA InitInv == Init => IInv
<1> SUFFICES ASSUME Init PROVE IInv OBVIOUS
<1>1. iflag \in BOOLEAN /\ regC \in BOOLEAN /\ scancode \in BOOLEAN
  BY Zenon DEF Init
<1>2. pic \in Pics BY DEF Init, Pics
<1>3. TypeOK BY <1>1, <1>2, BaseAssumption DEF Init, TypeOK, Boots, Pics
<1> QED BY <1>3 DEF Init, IInv, InService, NoSilentDevice, Quiet, Gated, Paid, RtcSteps

(* Initialisation only moves masks; the reset of the controllers comes     *)
(* before any request.                                                     *)
LEMMA BootInv ==
  ASSUME IInv, Booting
  PROVE  IInv'
<1>0. TypeOK /\ pic \in Pics BY DEF IInv, TypeOK, Pics
<1>1. CASE I8259Init
  <2> DEFINE p == [master_mask |-> Master, slave_mask |-> Slave, imr |-> {},
                   isr |-> {}, irr |-> {}]
             q == Enable(p, CASCADE)
  <2>1. p \in Pics /\ p.isr = {} /\ p.irr = {} BY DEF Pics
  <2>2. CASCADE \in Master \cup Slave /\ RTC_IRQ_index \in Master \cup Slave
    BY DEF CASCADE, RTC_IRQ_index, Master, Slave
  <2>3. pic' = Enable(q, RTC_IRQ_index) BY <1>1 DEF I8259Init
  <2> HIDE DEF p
  <2>4. q \in Pics /\ q.isr = {} /\ q.irr = {} BY <2>1, <2>2, EnableType
  <2> HIDE DEF q
  <2>5. pic' \in Pics /\ pic'.isr = {} /\ pic'.irr = {}
    BY <2>2, <2>3, <2>4, EnableType
  <2>6. boot = "i8259_init" /\ boot' = "keyboard_init" /\ UNCHANGED <<iflag, handler, device, driver>>
    BY <1>1 DEF I8259Init
  <2>7. handler = "none" /\ ~iflag /\ ~regC /\ ~scancode
    BY <2>6 DEF IInv, Quiet
  <2> QED BY <1>0, <2>5, <2>6, <2>7 DEF IInv, TypeOK, InService, NoSilentDevice,
          Quiet, Gated, Paid, Rounds, Boots, Pics, device, driver, RtcSteps
<1>2. CASE KeyboardInit \/ RtcInit \/ RtcUnmask
  <2>1. pic' \in Pics /\ pic'.isr = pic.isr /\ pic'.irr = pic.irr
    <3>1. KEYBOARD_IRQ_NUM \in Master \cup Slave /\ RTC_IRQ_index \in Master \cup Slave
      BY DEF KEYBOARD_IRQ_NUM, RTC_IRQ_index, Master, Slave
    <3>2. CASE KeyboardInit BY <1>0, <3>1, <3>2, EnableType DEF KeyboardInit
    <3>3. CASE RtcInit
      BY <1>0, <3>3 DEF RtcInit, Disable, RTC_IRQ_index, Slave, Pics
    <3>4. CASE RtcUnmask BY <1>0, <3>1, <3>4, EnableType DEF RtcUnmask
    <3> QED BY <1>2, <3>2, <3>3, <3>4
  <2>2. /\ boot \notin {"i8259_init", "up"} /\ boot' \in Boots \ {"i8259_init"}
        /\ UNCHANGED <<iflag, handler, device, driver>>
    BY <1>2 DEF KeyboardInit, RtcInit, RtcUnmask, Boots
  <2> QED BY <1>0, <2>1, <2>2 DEF IInv, TypeOK, InService, NoSilentDevice, Quiet,
          Gated, Paid, Rounds, Pics, device, driver
<1>3. CASE BootSti
  <2>1. handler = "none" BY <1>3 DEF BootSti, IInv, Quiet
  <2>2. iflag' \in BOOLEAN BY <1>3, Zenon DEF BootSti
  <2>3. TypeOK' BY <1>0, <1>3, <2>1, <2>2 DEF BootSti, TypeOK, Boots, device, driver
  <2>4. Gated' /\ Quiet'
    <3>1. handler' = "none" /\ boot' = "up" BY <1>3, <2>1, Zenon DEF BootSti
    <3> QED BY <3>1, Zenon DEF Gated, Quiet
  <2>5. InService' /\ NoSilentDevice' /\ Paid'
    BY <1>3 DEF BootSti, IInv, InService, NoSilentDevice, Paid, Rounds, device, driver
  <2> QED BY <2>3, <2>4, <2>5 DEF IInv
<1> QED BY <1>1, <1>2, <1>3 DEF Booting

-----------------------------------------------------------------------------

(* A device raises its line only after the controllers are set up, and the *)
(* request stays until a handler is entered for it.                        *)
LEMMA DeviceInv ==
  ASSUME IInv, Tick \/ Key
  PROVE  IInv'
<1> USE DEF IInv, TypeOK, InService, NoSilentDevice, Quiet, Gated, Paid, Rounds,
        Raise, driver, Boots, Master, Slave, KEYBOARD_IRQ_NUM, RTC_IRQ_index
<1>1. CASE Tick
  <2>1. regC' \in BOOLEAN BY <1>1, Zenon DEF Tick
  <2>2. TypeOK' BY <1>1, <2>1 DEF Tick
  <2>3. NoSilentDevice' BY <1>1, <2>1 DEF Tick
  <2>4. Quiet' /\ Gated' /\ InService' BY <1>1 DEF Tick
  <2>5. Paid' BY <1>1 DEF Tick
  <2> QED BY <2>2, <2>3, <2>4, <2>5
<1>2. CASE Key
  <2>1. scancode' \in BOOLEAN BY <1>2, Zenon DEF Key
  <2> QED BY <1>2, <2>1 DEF Key
<1> QED BY <1>1, <1>2

(* Entering a handler puts its line in service, alone, and turns           *)
(* interrupts off.                                                         *)
LEMMA TakeInv ==
  ASSUME IInv, TakeKey \/ TakeRtc
  PROVE  IInv'
<1>0. handler = "none" /\ pic.isr = {} /\ boot = "up"
  BY DEF TakeKey, TakeRtc, Take, IInv, Gated, InService, Quiet, RtcSteps
<1> USE <1>0 DEF IInv, TypeOK, InService, NoSilentDevice, Quiet, Gated, Paid,
        Rounds, Take, Level, device, driver, KeyboardSteps, RtcSteps, Master,
        Slave, KEYBOARD_IRQ_NUM, RTC_IRQ_index, CASCADE
<1>1. iflag' = FALSE /\ iflag' \in BOOLEAN /\ boot' = "up"
  BY Zenon DEF TakeKey, TakeRtc
<1>2. Gated' /\ Quiet' BY <1>1, Zenon
<1>3. UNCHANGED <<boot, device, driver>> BY DEF TakeKey, TakeRtc
<1>4. Paid' BY <1>3
<1>5. CASE TakeKey
  <2>1. handler' = "key_eoi" BY <1>5 DEF TakeKey
  <2>2. pic.isr \cup {1, Level(1)} = {1} OBVIOUS
  <2>3. pic' = [pic EXCEPT !.irr = @ \ {1}, !.isr = @ \cup {1, Level(1)}]
    BY <1>5, Zenon DEF TakeKey
  <2>4. pic' = [pic EXCEPT !.irr = @ \ {1}, !.isr = {1}]
    BY <2>2, <2>3
  <2>5. pic \in Pics BY DEF Pics
  <2>6. pic' \in Pics
    <3>1. pic.irr \ {1} \in SUBSET (Master \cup Slave) BY <2>5 DEF Pics
    <3>2. {1} \in SUBSET (Master \cup Slave) OBVIOUS
    <3> QED BY <2>4, <2>5, <3>1, <3>2, PicType
  <2>7. handler' \in {"none"} \cup KeyboardSteps \cup RtcSteps BY <2>1
  <2>8. TypeOK' BY <1>1, <1>3, <2>6, <2>7 DEF Pics
  <2>9. InService'
    <3>1. pic'.isr = {1} BY <2>4
    <3> QED BY <2>1, <3>1 DEF InService
  <2>10. NoSilentDevice' BY <1>3, <2>1, <2>4
  <2> QED BY <1>2, <1>4, <2>8, <2>9, <2>10
<1>6. CASE TakeRtc
  <2>1. handler' = "rtc_c" BY <1>6 DEF TakeRtc
  <2>2. pic.isr \cup {8, Level(8)} = {2, 8} OBVIOUS
  <2>3. pic' = [pic EXCEPT !.irr = @ \ {8}, !.isr = @ \cup {8, Level(8)}]
    BY <1>6, Zenon DEF TakeRtc
  <2>4. pic' = [pic EXCEPT !.irr = @ \ {8}, !.isr = {2, 8}]
    BY <2>2, <2>3
  <2>5. pic \in Pics BY DEF Pics
  <2>6. pic' \in Pics
    <3>1. pic.irr \ {8} \in SUBSET (Master \cup Slave) BY <2>5 DEF Pics
    <3>2. {2, 8} \in SUBSET (Master \cup Slave) OBVIOUS
    <3> QED BY <2>4, <2>5, <3>1, <3>2, PicType
  <2>7. handler' \in {"none"} \cup KeyboardSteps \cup RtcSteps BY <2>1
  <2>8. TypeOK' BY <1>1, <1>3, <2>6, <2>7 DEF Pics
  <2>9. InService'
    <3>1. pic'.isr = {8, 2} BY <2>4
    <3> QED BY <2>1, <3>1, Zenon DEF InService
  <2>10. NoSilentDevice' BY <1>3, <2>1, <2>4
  <2> QED BY <1>2, <1>4, <2>8, <2>9, <2>10
<1> QED BY <1>5, <1>6

(* A handler ends exactly its own interrupt; the flag it sets is one more  *)
(* interrupt for rtc_read.                                                 *)
LEMMA HandlerInv ==
  ASSUME IInv, Handler
  PROVE  IInv'
<1>0. boot = "up" BY DEF Handler, KeyEoi, KeyRead, RtcC, RtcFlag, RtcEoi, IInv, Quiet
<1> USE <1>0 DEF IInv, TypeOK, InService, NoSilentDevice, Quiet, Gated, Paid,
        Rounds, Eoi, Iret, device, driver, KeyboardSteps, RtcSteps, Master,
        Slave, KEYBOARD_IRQ_NUM, RTC_IRQ_index, CASCADE
<1>1. CASE KeyEoi BY <1>1 DEF KeyEoi
<1>2. CASE KeyRead BY <1>2 DEF KeyRead
<1>3. CASE RtcC BY <1>3 DEF RtcC
<1>4. CASE RtcFlag BY <1>4, BaseAssumption DEF RtcFlag
<1>5. CASE RtcEoi BY <1>5 DEF RtcEoi
<1> QED BY <1>1, <1>2, <1>3, <1>4, <1>5 DEF Handler

(* Every round of rtc_read spends one interrupt.                           *)
LEMMA DriverInv ==
  ASSUME IInv,
         RtcOpen \/ RtcRead \/ Reading \/ \E freq \in 0..(BASE + 1) : RtcWrite(freq)
  PROVE  IInv'
<1>0. rtc_freq # 0 => Rounds \in 0..BASE
  BY RoundsBound DEF IInv, TypeOK
<1>1. CASE RtcOpen \/ \E freq \in 0..(BASE + 1) : RtcWrite(freq)
  <2>1. /\ rtc_freq' \in 2..BASE
        /\ read = "idle" /\ UNCHANGED <<Hardware, iflag, rtc_interrupt, read, i, ticks>>
    BY <1>1, BaseAssumption DEF RtcOpen, RtcWrite, Idle
  <2> QED BY <2>1 DEF IInv, TypeOK, InService, NoSilentDevice, Quiet, Gated, Paid,
          Hardware, device
<1>2. CASE RtcRead \/ Reading
  <2>1. rtc_freq # 0 /\ Rounds \in 0..BASE /\ Rounds' = Rounds
    BY <1>0, <1>2 DEF RtcRead, Reading, ReadTest, ReadWait, ReadCli, ReadClear,
       ReadSti, ReadDone, At, IInv, Paid, Rounds
  <2>2. /\ handler = "none" /\ UNCHANGED <<Hardware, rtc_freq>>
        /\ boot = "up"
    BY <1>2 DEF RtcRead, Reading, ReadTest, ReadWait, ReadCli, ReadClear,
       ReadSti, ReadDone, At, Idle, IInv, Quiet
  <2>3. InService' /\ NoSilentDevice'
    BY <2>2 DEF IInv, InService, NoSilentDevice, Hardware, device
  <2>4. TypeOK' /\ Quiet' /\ Gated' /\ Paid'
    <3> USE <2>1, <2>2, BaseAssumption DEF IInv, TypeOK, Quiet, Gated, Paid,
        Hardware, device, At, Idle, ReadSteps
    <3> HIDE DEF Rounds
    <3>1. CASE RtcRead BY <3>1 DEF RtcRead
    <3>2. CASE ReadTest BY <3>2 DEF ReadTest
    <3>3. CASE ReadWait BY <3>3 DEF ReadWait
    <3>4. CASE ReadCli
      <4>1. iflag' \in BOOLEAN BY <3>4, Zenon DEF ReadCli
      <4> QED BY <3>4, <4>1 DEF ReadCli
    <3>5. CASE ReadClear BY <3>5 DEF ReadClear
    <3>6. CASE ReadSti
      <4>1. iflag' \in BOOLEAN BY <3>6, Zenon DEF ReadSti
      <4>2. TypeOK' BY <3>6, <4>1 DEF ReadSti
      <4>3. Quiet' /\ Gated'
        <5>1. handler' = "none" /\ boot' = "up"
          BY <2>2 DEF Hardware
        <5> QED BY <5>1, Zenon DEF Gated, Quiet
      <4>4. Paid' BY <3>6 DEF ReadSti
      <4> QED BY <4>2, <4>3, <4>4
    <3>7. CASE ReadDone BY <3>7 DEF ReadDone
    <3> QED BY <1>2, <3>1, <3>2, <3>3, <3>4, <3>5, <3>6, <3>7 DEF Reading
  <2> QED BY <2>3, <2>4 DEF IInv
<1> QED BY <1>1, <1>2

(* IInv is inductive.                                                      *)
LEMMA StepInv == IInv /\ [Next]_vars => IInv'
<1> SUFFICES ASSUME IInv, [Next]_vars PROVE IInv' OBVIOUS
<1>1. CASE Booting BY <1>1, BootInv
<1>2. CASE Tick \/ Key BY <1>2, DeviceInv
<1>3. CASE TakeKey \/ TakeRtc BY <1>3, TakeInv
<1>4. CASE Handler BY <1>4, HandlerInv
<1>5. CASE RtcOpen \/ RtcRead \/ Reading \/ \E freq \in 0..(BASE + 1) : RtcWrite(freq)
  BY <1>5, DriverInv
<1>6. CASE UNCHANGED vars
  BY <1>6 DEF vars, device, driver, IInv, TypeOK, InService, NoSilentDevice,
     Quiet, Gated, Paid, Rounds
<1> QED BY <1>1, <1>2, <1>3, <1>4, <1>5, <1>6 DEF Next

LEMMA Inductive == Spec => []IInv
  BY InitInv, StepInv, PTL DEF Spec

(* Every variable keeps its type; the RTC's frequency is 0 only until it   *)
(* is opened.                                                              *)
THEOREM Typing == Spec => []TypeOK
<1>1. IInv => TypeOK BY DEF IInv
<1> QED BY <1>1, Inductive, PTL

(* The controllers hold in service exactly what the running handler has    *)
(* not yet ended.                                                          *)
THEOREM Served == Spec => []InService
<1>1. IInv => InService BY DEF IInv
<1> QED BY <1>1, Inductive, PTL

(* Neither device is ever left waiting for a handler that will not come.   *)
THEOREM NoneSilent == Spec => []NoSilentDevice
<1>1. IInv => NoSilentDevice BY DEF IInv
<1> QED BY <1>1, Inductive, PTL

(* rtc_read is early by at most one interrupt.                             *)
THEOREM EarlyByOne == Spec => []NotTooEarly
<1>1. IInv => NotTooEarly
  <2> SUFFICES ASSUME IInv, read = "done" PROVE ticks + 1 >= Rounds
    BY DEF NotTooEarly
  <2>1. rtc_freq # 0 /\ i = Rounds /\ (ticks = BASE \/ ticks + 1 >= i + rtc_interrupt)
    BY DEF IInv, TypeOK, Paid
  <2>2. Rounds \in 0..BASE BY <2>1, RoundsBound DEF IInv, TypeOK
  <2> QED BY <2>1, <2>2, BaseAssumption DEF IInv, TypeOK
<1> QED BY <1>1, Inductive, PTL
=============================================================================
