----------------------------- MODULE Interrupts -----------------------------
(***************************************************************************)
(* The interrupt path: the driver of the two 8259 controllers (i8259.c),   *)
(* the order in which kernel.c brings the devices up, the keyboard and RTC *)
(* handlers down to their accesses to the controller and the device, and   *)
(* the RTC driver's busy wait (rtc_read), which the handler interrupts.    *)
(*                                                                         *)
(* Both devices signal by an edge and stay silent until the handler has    *)
(* read them (data port, register C); they may signal at any step of the   *)
(* processor.  Lines 0-7 belong to the master, 8-15 to the slave, whose    *)
(* output is line 2 of the master.                                         *)
(***************************************************************************)
EXTENDS Integers

CONSTANT BASE       (* the RTC's own frequency, 1024 in the code *)

ASSUME BaseAssumption == BASE \in Nat /\ BASE >= 2

VARIABLES
  boot,             (* the initialisation kernel.c does next, or "up" *)
  pic,              (* [master_mask, slave_mask: the driver's; imr, isr, irr] *)
  iflag,            (* IF of the processor *)
  handler,          (* next step of the running handler, or "none" *)
  regC,             (* register C holds an interrupt *)
  scancode,         (* the keyboard's data port holds a scancode *)
  rtc_interrupt, rtc_freq,
  read,             (* next step of rtc_read, "idle" outside of it *)
  i,
  ticks             (* RTC interrupts handled since rtc_read began *)

vars == <<boot, pic, iflag, handler, regC, scancode, rtc_interrupt, rtc_freq,
          read, i, ticks>>
device == <<regC, scancode>>
driver == <<rtc_interrupt, rtc_freq, read, i, ticks>>

Master == 0..7
Slave == 8..15
KEYBOARD_IRQ_NUM == 1
CASCADE == 2
RTC_IRQ_index == 8

Boots == {"i8259_init", "keyboard_init", "rtc_init", "rtc_unmask", "sti", "up"}
KeyboardSteps == {"key_eoi", "key_read"}
RtcSteps == {"rtc_c", "rtc_flag", "rtc_eoi"}
ReadSteps == {"test", "wait", "cli", "clear", "sti", "done"}

(* A controller powers up masked and with no interrupt; the driver's masks *)
(* are zeroed globals.                                                     *)
Init ==
  /\ boot = "i8259_init"
  /\ pic = [master_mask |-> {}, slave_mask |-> {}, imr |-> Master \cup Slave,
            isr |-> {}, irr |-> {}]
  /\ iflag = FALSE /\ handler = "none"
  /\ regC = FALSE /\ scancode = FALSE
  /\ rtc_interrupt = 0 /\ rtc_freq = 0
  /\ read = "idle" /\ i = 0 /\ ticks = 0

-----------------------------------------------------------------------------
(* The 8259 driver. *)

(* One of the driver's masks goes to its controller as a whole.            *)
PutMaster(p, mask) ==
  [p EXCEPT !.master_mask = mask, !.imr = mask \cup (@ \cap Slave)]
PutSlave(p, mask) ==
  [p EXCEPT !.slave_mask = mask, !.imr = mask \cup (@ \cap Master)]

(* Enabling the cascade enables every line of the slave; enabling a line   *)
(* of the slave enables the cascade.                                       *)
Enable_ForgetsMask(p, n) ==
  IF n \in Master THEN PutMaster(p, Master \ {n})
  ELSE PutMaster(PutSlave(p, Slave \ {n}), Master \ {CASCADE})
Enable(p, n) ==
  IF n \in Slave
  THEN PutMaster(PutSlave(p, p.slave_mask \ {n}), p.master_mask \ {CASCADE})
  ELSE LET q == PutMaster(p, p.master_mask \ {n})
       IN IF n = CASCADE THEN PutSlave(q, {}) ELSE q

(* The slave's mask is sent to its command port, not to its mask register. *)
(* For the RTC the byte is 1, which is no command.                         *)
Disable(p, n) ==
  IF n \in Slave THEN [p EXCEPT !.slave_mask = @ \cup {n}]
  ELSE LET q == PutMaster(p, p.master_mask \cup {n})
       IN IF n = CASCADE THEN PutSlave(q, Slave) ELSE q

(* A line of the slave is in service in both controllers.                  *)
Eoi_SlaveOnly(p, n) == [p EXCEPT !.isr = @ \ {n}]
Eoi(p, n) == [p EXCEPT !.isr = @ \ (IF n \in Slave THEN {n, CASCADE} ELSE {n})]

(* The controllers are reset, get the driver's masks, which are zero, and  *)
(* then those of the two calls of enable_irq.                              *)
I8259Init ==
  /\ boot = "i8259_init" /\ boot' = "keyboard_init"
  /\ pic' = LET p == [master_mask |-> Master, slave_mask |-> Slave, imr |-> {},
                      isr |-> {}, irr |-> {}]
            IN Enable(Enable(p, CASCADE), RTC_IRQ_index)
  /\ UNCHANGED <<iflag, handler, device, driver>>

KeyboardInit ==
  /\ boot = "keyboard_init" /\ boot' = "rtc_init"
  /\ pic' = Enable(pic, KEYBOARD_IRQ_NUM)
  /\ UNCHANGED <<iflag, handler, device, driver>>

(* rtc_init masks the RTC's line, turns its periodic interrupt on, sets    *)
(* its rate and unmasks the line.                                          *)
RtcInit ==
  /\ boot = "rtc_init" /\ boot' = "rtc_unmask"
  /\ pic' = Disable(pic, RTC_IRQ_index)
  /\ UNCHANGED <<iflag, handler, device, driver>>
RtcUnmask ==
  /\ boot = "rtc_unmask" /\ boot' = "sti"
  /\ pic' = Enable(pic, RTC_IRQ_index)
  /\ UNCHANGED <<iflag, handler, device, driver>>
BootSti ==
  /\ boot = "sti" /\ boot' = "up"
  /\ iflag' = TRUE
  /\ UNCHANGED <<pic, handler, device, driver>>

Booting == I8259Init \/ KeyboardInit \/ RtcInit \/ RtcUnmask \/ BootSti

-----------------------------------------------------------------------------
(* The devices.  Each raises its line once and waits to be read.           *)

Raise(n) == pic' = [pic EXCEPT !.irr = @ \cup {n}]

Tick ==
  /\ boot \in {"rtc_unmask", "sti", "up"}
  /\ ~regC
  /\ regC' = TRUE /\ Raise(RTC_IRQ_index)
  /\ UNCHANGED <<boot, iflag, handler, scancode, driver>>
Key ==
  /\ boot # "i8259_init"
  /\ ~scancode
  /\ scancode' = TRUE /\ Raise(KEYBOARD_IRQ_NUM)
  /\ UNCHANGED <<boot, iflag, handler, regC, driver>>

-----------------------------------------------------------------------------
(* The handlers.  Both are entered through interrupt gates. *)

(* The line asks for service, is not masked, and nothing of its priority   *)
(* or a higher one is in service.                                          *)
Level(n) == IF n \in Slave THEN CASCADE ELSE n
Requested(n) ==
  /\ n \in pic.irr
  /\ n \notin pic.imr /\ Level(n) \notin pic.imr
  /\ \A m \in pic.isr : IF m \in Slave THEN n \in Master \/ n < m
                        ELSE Level(n) < m

Take(n) ==
  /\ iflag /\ Requested(n)
  /\ iflag' = FALSE
  /\ pic' = [pic EXCEPT !.irr = @ \ {n}, !.isr = @ \cup {n, Level(n)}]
  /\ UNCHANGED <<boot, device, driver>>
TakeKey == Take(KEYBOARD_IRQ_NUM) /\ handler' = "key_eoi"
TakeRtc ==
  /\ ~Requested(KEYBOARD_IRQ_NUM)
  /\ Take(RTC_IRQ_index) /\ handler' = "rtc_c"

Iret == handler' = "none" /\ iflag' = TRUE

(* The keyboard handler ends the interrupt first and reads the key after.  *)
KeyEoi ==
  /\ handler = "key_eoi" /\ handler' = "key_read"
  /\ pic' = Eoi(pic, KEYBOARD_IRQ_NUM)
  /\ UNCHANGED <<boot, iflag, device, driver>>
KeyRead ==
  /\ handler = "key_read" /\ Iret
  /\ scancode' = FALSE
  /\ UNCHANGED <<boot, pic, regC, driver>>

(* The RTC handler reads register C, sets the flag and ends the interrupt. *)
RtcC_NotRead ==
  /\ handler = "rtc_c" /\ handler' = "rtc_flag"
  /\ UNCHANGED <<boot, pic, iflag, device, driver>>
RtcC ==
  /\ handler = "rtc_c" /\ handler' = "rtc_flag"
  /\ regC' = FALSE
  /\ UNCHANGED <<boot, pic, iflag, scancode, driver>>
RtcFlag ==
  /\ handler = "rtc_flag" /\ handler' = "rtc_eoi"
  /\ rtc_interrupt' = 1
  /\ ticks' = IF ticks < BASE THEN ticks + 1 ELSE ticks
  /\ UNCHANGED <<boot, pic, iflag, device, rtc_freq, read, i>>
RtcEoi ==
  /\ handler = "rtc_eoi" /\ Iret
  /\ pic' = Eoi(pic, RTC_IRQ_index)
  /\ UNCHANGED <<boot, device, driver>>

Handler == KeyEoi \/ KeyRead \/ RtcC \/ RtcFlag \/ RtcEoi

-----------------------------------------------------------------------------
(* The RTC driver, called from a system call. *)

Idle == boot = "up" /\ handler = "none" /\ read = "idle"
At(step) == handler = "none" /\ read = step
Hardware == <<boot, pic, handler, device>>

RtcOpen ==
  /\ Idle /\ rtc_freq' = 2
  /\ UNCHANGED <<Hardware, iflag, rtc_interrupt, read, i, ticks>>
RtcWrite_Unchecked(freq) ==
  /\ Idle /\ rtc_freq # 0
  /\ rtc_freq' = freq
  /\ UNCHANGED <<Hardware, iflag, rtc_interrupt, read, i, ticks>>
RtcWrite(freq) ==
  /\ Idle /\ rtc_freq # 0
  /\ freq >= 2 /\ freq <= BASE
  /\ rtc_freq' = freq
  /\ UNCHANGED <<Hardware, iflag, rtc_interrupt, read, i, ticks>>

(* A descriptor of the RTC comes from rtc_open, so rtc_freq is not 0.      *)
RtcRead ==
  /\ Idle /\ rtc_freq # 0
  /\ read' = "test" /\ i' = 0 /\ ticks' = 0
  /\ UNCHANGED <<Hardware, iflag, rtc_interrupt, rtc_freq>>

(* The loop: busy wait for the flag, cli, reset it, sti, count.            *)
Rounds == BASE \div rtc_freq
ReadTest ==
  /\ At("test") /\ read' = IF i < Rounds THEN "wait" ELSE "done"
  /\ UNCHANGED <<Hardware, iflag, rtc_interrupt, rtc_freq, i, ticks>>
ReadWait ==
  /\ At("wait") /\ rtc_interrupt # 0 /\ read' = "cli"
  /\ UNCHANGED <<Hardware, iflag, rtc_interrupt, rtc_freq, i, ticks>>
ReadCli ==
  /\ At("cli") /\ read' = "clear" /\ iflag' = FALSE
  /\ UNCHANGED <<Hardware, rtc_interrupt, rtc_freq, i, ticks>>
ReadClear_Missing ==
  /\ At("clear") /\ read' = "sti"
  /\ UNCHANGED <<Hardware, iflag, rtc_interrupt, rtc_freq, i, ticks>>
ReadClear ==
  /\ At("clear") /\ read' = "sti" /\ rtc_interrupt' = 0
  /\ UNCHANGED <<Hardware, iflag, rtc_freq, i, ticks>>
ReadSti_Missing ==
  /\ At("sti") /\ read' = "test" /\ i' = i + 1
  /\ UNCHANGED <<Hardware, iflag, rtc_interrupt, rtc_freq, ticks>>
ReadSti ==
  /\ At("sti") /\ read' = "test" /\ i' = i + 1
  /\ iflag' = TRUE
  /\ UNCHANGED <<Hardware, rtc_interrupt, rtc_freq, ticks>>
ReadDone ==
  /\ At("done") /\ read' = "idle"
  /\ UNCHANGED <<Hardware, iflag, rtc_interrupt, rtc_freq, i, ticks>>

Reading == ReadTest \/ ReadWait \/ ReadCli \/ ReadClear \/ ReadSti \/ ReadDone

Next ==
  \/ Booting
  \/ Tick \/ Key
  \/ TakeKey \/ TakeRtc \/ Handler
  \/ RtcOpen \/ RtcRead \/ Reading
  \/ \E freq \in 0..(BASE + 1) : RtcWrite(freq)

(* The processor runs (WF on what it does with interrupts off, SF on what  *)
(* a handler suspends or cli holds back), and the RTC ticks.  Nothing is   *)
(* assumed of keys or of programs.                                         *)
Fairness ==
  /\ WF_vars(Booting) /\ WF_vars(Handler) /\ WF_vars(Tick)
  /\ SF_vars(TakeKey) /\ SF_vars(TakeRtc) /\ SF_vars(Reading)
Spec == Init /\ [][Next]_vars /\ Fairness

-----------------------------------------------------------------------------
(* Properties. *)

(* Every variable has its type; the frequency is unset or in the range     *)
(* rtc_write lets through.                                                 *)
TypeOK ==
  /\ boot \in Boots
  /\ pic \in [master_mask : SUBSET Master, slave_mask : SUBSET Slave,
              imr : SUBSET (Master \cup Slave), isr : SUBSET (Master \cup Slave),
              irr : SUBSET (Master \cup Slave)]
  /\ iflag \in BOOLEAN
  /\ handler \in {"none"} \cup KeyboardSteps \cup RtcSteps
  /\ regC \in BOOLEAN /\ scancode \in BOOLEAN
  /\ rtc_interrupt \in {0, 1} /\ rtc_freq \in {0} \cup 2..BASE
  /\ read \in {"idle"} \cup ReadSteps
  /\ i \in 0..BASE /\ ticks \in 0..BASE

(* What the controllers hold in service is what the running handler has    *)
(* not yet ended: no handler returns with its line, or the cascade, still  *)
(* blocked, and none ends an interrupt twice.                              *)
InService ==
  pic.isr = CASE handler \in RtcSteps -> {RTC_IRQ_index, CASCADE}
              [] handler = "key_eoi"  -> {KEYBOARD_IRQ_NUM}
              [] OTHER                -> {}

(* A device that waits to be read has its line pending, or is about to be  *)
(* read: an edge that nobody serves would silence it for good, whenever it *)
(* came, even before sti.                                                  *)
NoSilentDevice ==
  /\ regC => RTC_IRQ_index \in pic.irr \/ handler = "rtc_c"
  /\ scancode => KEYBOARD_IRQ_NUM \in pic.irr \/ handler \in KeyboardSteps

(* rtc_read counts no interrupt twice: it has waited for all but one of    *)
(* the interrupts it owes, the one being a flag left from before.          *)
NotTooEarly == read = "done" => ticks + 1 >= Rounds

(* What the four invariants rest on: devices are quiet before the          *)
(* controllers are set up and the rest before sti, handlers run with       *)
(* interrupts off, and the rounds of rtc_read and the flag are paid for by *)
(* interrupts, but one.                                                    *)
Quiet ==
  /\ boot = "i8259_init" => ~regC /\ ~scancode
  /\ boot # "up" => handler = "none" /\ ~iflag /\ read = "idle"
Gated == handler # "none" => ~iflag
Paid ==
  read # "idle" =>
    /\ rtc_freq # 0
    /\ read = "test" => i <= Rounds
    /\ read \in {"wait", "cli", "clear", "sti"} => i < Rounds
    /\ read = "done" => i = Rounds
    /\ read \in {"cli", "clear"} => rtc_interrupt = 1
    /\ \/ ticks = BASE
       \/ ticks + 1 >= i + rtc_interrupt + (IF read = "sti" THEN 1 ELSE 0)
IInv == TypeOK /\ InService /\ NoSilentDevice /\ Quiet /\ Gated /\ Paid

(* Every key is read, whatever the RTC driver does and whenever it came.   *)
KeyServed == scancode ~> ~scancode

(* rtc_read returns, unless keys keep the processor for good.              *)
ReadReturns ==
  []<>(handler = "none" /\ ~scancode) => (read = "test" ~> read = "done")

(* rtc_read returns when 1024/freq interrupts happened (its description).  *)
ReadWaitsAll == read = "done" => ticks >= Rounds

(* disable_irq masks the line it is given (its description).               *)
DisableMasks == boot = "rtc_unmask" => RTC_IRQ_index \in pic.imr
=============================================================================
