------------------------------ MODULE MainLoop ------------------------------
(***************************************************************************)
(* main() and what it shares with the interrupts, the motor and the pins   *)
(* of the BLE module: a button press, a rotation, the bytes of a command,  *)
(* and power_down() with its wake-up.                                      *)
(*                                                                         *)
(* What the messages mean is LockFirmware's subject: here the states of    *)
(* the firmware are grouped by what fsm_process() does in them.            *)
(***************************************************************************)
EXTENDS Bgapi, FiniteSets

CONSTANTS
  MOTOR_TIMER_THRESHOLD,  \* overflows of timer 0 after which a rotation ends
  MaxInputs    \* bound: presses of the buttons and events the module raises

ASSUME MainLoopAssumption ==
  /\ MOTOR_TIMER_THRESHOLD \in Nat \ {0}
  /\ MaxInputs \in Nat

None == "none"
NoPacket == [type |-> "none"]
Directions == {"CW", "CCW"}

\* Configure: a command of the configuration is due; Await: its response is.
\* Serving: CONNECTED and REQUEST_W; Message: TICKET and REQUEST.
Groups == {"Configure", "Await", "Advertising", "Serving", "Message"}

Pcs == {"init", "fsm", "answer", "tx", "rx", "buttons", "clear", "motor",
        "down", "asleep", "up"}

Boot == Evt(0, 0)
Value == Evt(2, 0)
Status == Evt(3, 0)
Disconnected == Evt(3, 4)
IoPortStatus == Evt(7, 0)
Unknown == Evt(9, 1)            \* a header garbled on the line
Write == Rsp(2, 0)
SetMode == Rsp(6, 1)
SetAdvParameters == Rsp(6, 8)   \* stands for the other settings, too

\* What the module may raise by itself.
Raised == {Value, Status, Disconnected, Unknown}
Packets == Raised \cup {Boot, IoPortStatus, Write, SetMode, SetAdvParameters}

VARIABLES
  pc,        \* where main() is
  back,      \* where it goes after a command or a rotation
  state,     \* the group of `state`
  request,   \* the button request
  pins,      \* buttons held down: PINC1 (1), PINC2 (2)
  pending,   \* the pin change interrupt is pending
  int0,      \* the wake-up interrupt is enabled
  rts,       \* the MCU takes bytes
  ring,      \* packets in rxbuffer
  held,      \* packets the module holds for the MCU
  packet,    \* the command being sent
  unit,      \* what comes next of it: 0 its length, 1 and 2 its two parts
  section,   \* att_write_buffer.section_sent
  frame,     \* units the module still expects of a command
  motor,     \* the motor's pins
  sense,     \* the current sense is enabled
  ovf,       \* timer_8bit_ovf
  elapsed,   \* history: overflows since the motor started
  inputs     \* presses and events so far

mcu == <<pc, back, state, request>>
buttons == <<pins, pending>>
sleep == <<int0, rts>>
uart == <<ring, held>>
tx == <<packet, unit, section, frame>>
turning == <<motor, sense, ovf, elapsed>>
vars == <<mcu, buttons, sleep, uart, tx, turning, inputs>>

\* The types; the request, the motor and the counters stay in their ranges.
TypeOK ==
  /\ pc \in Pcs /\ back \in Pcs \cup {None}
  /\ state \in Groups
  /\ request \in Directions \cup {None}
  /\ pins \subseteq {1, 2}
  /\ {pending, int0, rts, sense} \subseteq BOOLEAN
  /\ ring \in Seq(Packets) /\ held \in Seq(Packets)
  /\ packet \in {Write, SetMode, SetAdvParameters, NoPacket}
  /\ unit \in 0..2 /\ section \in 0..2 /\ frame \in 0..3
  /\ motor \in Directions \cup {"off"}
  /\ ovf \in 0..MOTOR_TIMER_THRESHOLD /\ elapsed \in 0..MOTOR_TIMER_THRESHOLD
  /\ inputs \in 0..MaxInputs

Init ==
  /\ pc = "init" /\ back = None /\ state = "Await" /\ request = None
  /\ pins = {} /\ pending = FALSE /\ inputs = 0
  /\ int0 = FALSE /\ rts = FALSE
  /\ ring = <<>> /\ held = <<Boot>>     \* the module starts with the MCU
  /\ packet = NoPacket /\ unit = 0 /\ section = 0 /\ frame = 0
  /\ motor = "off" /\ sense = FALSE  /\ ovf = 0 /\ elapsed = 0

Goto(next) == pc' = next /\ UNCHANGED <<back, state, request>>

-----------------------------------------------------------------------------
(* main(): its initializations and fsm_process().                          *)

\* The hard reset, when it works, empties the module and makes it raise
\* system_boot.  ble_hard_reset_init() sets DDRD |= (1 < PIND3): the reset pin
\* stays an input and ble_hard_reset() switches no more than its pull-up.  A
\* module that is not reset by it goes on where it was.
MainInit ==
  /\ pc = "init"
  /\ pc' = "fsm" /\ state' = "Await" /\ request' = None /\ back' = None
  /\ int0' = FALSE /\ rts' = TRUE
  /\ \/ held' = <<Boot>> /\ frame' = 0
     \/ UNCHANGED <<held, frame>>
  /\ ring' = <<>> /\ packet' = NoPacket /\ unit' = 0 /\ section' = 0
  /\ motor' = "off" /\ sense' = FALSE  /\ ovf' = 0 /\ elapsed' = 0
  /\ UNCHANGED <<buttons, inputs>>

FsmIdle ==
  /\ pc = "fsm" /\ state \in {"Await", "Serving"}
  /\ Goto("rx")
  /\ UNCHANGED <<buttons, sleep, uart, tx, turning, inputs>>

\* A command is handed to ble_send_packet(), after which main() goes on.
StartSend(c, next) ==
  /\ pc' = "tx" /\ back' = next
  /\ packet' = c /\ unit' = 0
  /\ UNCHANGED frame

FsmConfigure ==
  /\ pc = "fsm" /\ state = "Configure"
  /\ \E c \in {SetAdvParameters, SetMode} : StartSend(c, "rx")
  /\ state' = "Await"
  /\ UNCHANGED <<section, request, buttons, sleep, uart, turning, inputs>>

\* A message that fails is dropped; one that passes is answered.
FsmRefuse ==
  /\ pc = "fsm" /\ state = "Message"
  /\ pc' = "rx" /\ state' = "Serving"
  /\ UNCHANGED <<back, request, buttons, sleep, uart, tx, turning, inputs>>
Answer ==
  /\ pc = "answer" \/ (pc = "fsm" /\ state = "Message")
  /\ StartSend(Write, "rx")
  /\ state' = "Serving" /\ section' = 0
  /\ UNCHANGED <<request, buttons, sleep, uart, turning, inputs>>

-----------------------------------------------------------------------------
(* Rotations, for a request of the phone or of a button.                   *)

\* Mutant of TimerStart: the count of overflows is not cleared.
TimerStartKeepsCount == UNCHANGED ovf
\* timer_8bit_start().
TimerStart == ovf' = 0

\* dc_motor_turn_cw() or dc_motor_turn_ccw().
Turn(d, next) ==
  /\ pc' = "motor" /\ back' = next
  /\ motor' = d /\ elapsed' = 0 /\ TimerStart
  /\ UNCHANGED sense

FsmRotate ==
  /\ pc = "fsm" /\ state = "Message"
  /\ \E d \in Directions : Turn(d, "answer")
  /\ UNCHANGED <<state, request, buttons, sleep, uart, tx, inputs>>

\* After the start-up current.
EnableCurrentSense ==
  /\ pc = "motor" /\ ~sense
  /\ sense' = TRUE
  /\ UNCHANGED <<mcu, buttons, sleep, uart, tx, motor, ovf, elapsed, inputs>>

\* Mutant of Overflow: the interrupt is not enabled.
OverflowMasked == FALSE /\ UNCHANGED vars
\* ISR(TIMER0_OVF_vect); the timer runs for as long as the motor turns.
Overflow ==
  /\ motor # "off" /\ ovf < MOTOR_TIMER_THRESHOLD
  /\ ovf' = ovf + 1 /\ elapsed' = elapsed + 1
  /\ UNCHANGED <<mcu, buttons, sleep, uart, tx, motor, sense, inputs>>

\* timer_8bit_stop(), disable_current_sense(), dc_motor_halt().
Halt ==
  /\ pc = "motor" /\ sense
  /\ motor' = "off" /\ sense' = FALSE /\ elapsed' = 0
  /\ pc' = back /\ back' = None
  /\ UNCHANGED <<state, request, buttons, sleep, uart, tx, ovf, inputs>>

\* The two ways out of the loop: the current sense, or the time.
Jammed == Halt
TimedOut == ovf >= MOTOR_TIMER_THRESHOLD /\ Halt

\* The end of main()'s loop.
NoButton ==
  /\ pc = "buttons" /\ request = None
  /\ Goto("fsm")
  /\ UNCHANGED <<buttons, sleep, uart, tx, turning, inputs>>
RotateForButton ==
  /\ pc = "buttons" /\ request # None
  /\ Turn(request, "clear")
  /\ UNCHANGED <<state, request, buttons, sleep, uart, tx, inputs>>
\* Whatever has been asked for during the rotation is forgotten.
ClearRequest ==
  /\ pc = "clear"
  /\ request' = None /\ pc' = "fsm"
  /\ UNCHANGED <<back, state, buttons, sleep, uart, tx, turning, inputs>>

-----------------------------------------------------------------------------
(* Buttons.                                                                *)

Press ==
  /\ inputs < MaxInputs /\ inputs' = inputs + 1
  /\ \E b \in {1, 2} \ pins : pins' = pins \cup {b}
  /\ pending' = TRUE
  /\ UNCHANGED <<mcu, sleep, uart, tx, turning>>

\* A press lasts longer than the few instructions between the test of
\* `request` and the sleep instruction.
Release ==
  /\ ~(state = "Advertising" /\ pc \in {"fsm", "down"})
  /\ \E b \in pins : pins' = pins \ {b}
  /\ pending' = TRUE
  /\ UNCHANGED <<mcu, sleep, uart, tx, turning, inputs>>

\* Mutant of PinChange: power_down() turns this interrupt off as well.
PinChangeAwake ==
  /\ pending /\ pc # "asleep"
  /\ pending' = FALSE
  /\ request' = IF 1 \in pins THEN "CW" ELSE IF 2 \in pins THEN "CCW" ELSE request
  /\ UNCHANGED <<pc, back, state, pins, sleep, uart, tx, turning, inputs>>
\* ISR(PCINT1_vect): the pins are read when the interrupt runs.  It also
\* wakes the MCU.
PinChange ==
  /\ pending /\ pc # "init"
  /\ pending' = FALSE
  /\ request' = IF 1 \in pins THEN "CW" ELSE IF 2 \in pins THEN "CCW" ELSE request
  /\ pc' = IF pc = "asleep" THEN "up" ELSE pc
  /\ UNCHANGED <<back, state, pins, sleep, uart, tx, turning, inputs>>

-----------------------------------------------------------------------------
(* power_down().                                                           *)

\* The module pulls the wake-up pin low while it holds packets for the MCU.
PinLow == held # <<>>

\* Up to the disabling of interrupts.
FsmAdvertising ==
  /\ pc = "fsm" /\ state = "Advertising"
  /\ rts' = FALSE
  /\ Goto("down")
  /\ UNCHANGED <<buttons, int0, uart, tx, turning, inputs>>

\* Mutant of Sleep: the wake-up interrupt is not enabled.
SleepForGood ==
  /\ pc = "down"
  /\ Goto(IF PinLow THEN "up" ELSE "asleep")
  /\ UNCHANGED <<int0, buttons, rts, uart, tx, turning, inputs>>
\* The test of the pin, and the sleep that an interrupt ends at once if it is
\* already pending.
Sleep ==
  /\ pc = "down"
  /\ Goto(IF PinLow THEN "up" ELSE "asleep")
  /\ int0' = IF PinLow THEN int0 ELSE TRUE
  /\ UNCHANGED <<buttons, rts, uart, tx, turning, inputs>>

\* ISR(INT0_vect): it disables itself.
Int0 ==
  /\ int0 /\ PinLow
  /\ int0' = FALSE
  /\ Goto(IF pc = "asleep" THEN "up" ELSE pc)
  /\ UNCHANGED <<buttons, rts, uart, tx, turning, inputs>>

\* ble_wakeup(): the module may report the change of its port.
WakeUp ==
  /\ pc = "up"
  /\ rts' = TRUE /\ held' \in {held, Append(held, IoPortStatus)}
  /\ Goto("rx")
  /\ UNCHANGED <<buttons, int0, ring, tx, turning, inputs>>

-----------------------------------------------------------------------------
(* uart_tx(): a length byte, then the two parts it announces.  The module  *)
(* may hold the MCU off before any byte, for longer than the time-out when *)
(* it is asleep or busy.                                                   *)

Sent ==
  /\ IF unit = 2
     THEN unit' = 0 /\ packet' = NoPacket /\ pc' = back /\ back' = None
     ELSE unit' = unit + 1 /\ UNCHANGED <<packet, pc, back>>
  /\ UNCHANGED <<state, request, buttons, sleep, ring, turning, inputs>>

OutOfStep == 3

\* The module takes the length byte if it expects one, and answers a command
\* once it is whole.
SendUnit ==
  /\ pc = "tx"
  /\ frame' = CASE unit = 0 /\ frame = 0 -> 2
                [] unit # 0 /\ frame \in {1, 2} -> frame - 1
                [] OTHER -> OutOfStep
  /\ held' = IF frame' = 0 THEN Append(held, packet) ELSE held
  /\ Sent /\ UNCHANGED section

\* send_byte() gives the length byte up, and nobody looks at its result.
LengthTimeout ==
  /\ pc = "tx" /\ unit = 0
  /\ Sent /\ UNCHANGED <<section, frame, held>>
\* Any other time-out resets the MCU.
DataTimeout ==
  /\ pc = "tx" /\ unit # 0
  /\ Goto("init")
  /\ UNCHANGED <<buttons, sleep, uart, tx, turning, inputs>>

-----------------------------------------------------------------------------
(* ble_process_packet().                                                   *)

\* The groups a handler may leave the firmware in.
Lands(p) ==
  CASE p \in {Boot, SetAdvParameters, Disconnected} -> {"Configure"}
    [] p = SetMode -> {"Advertising"}
    [] p = Status -> {"Serving", state}
    [] p = Value /\ state = "Serving" -> {"Serving", "Message"}
    [] OTHER -> {state}

Receive ==
  /\ pc = "rx" /\ ring # <<>>
  /\ ring' = Tail(ring)

\* Mutant of Dispatch: every response to a write is followed by one more.
DispatchUnbounded ==
  /\ Receive
  /\ GetMsgHdr(Head(ring)) # {}
  /\ state' \in Lands(Head(ring))
  /\ \/ pc' = "buttons" /\ UNCHANGED <<back, tx>>
     \/ /\ Head(ring) = Write
        /\ section' = section + 1 /\ StartSend(Write, "buttons")
  /\ UNCHANGED <<request, buttons, sleep, held, turning, inputs>>
\* A response to a write may be followed by the next section.
Dispatch ==
  /\ Receive
  /\ GetMsgHdr(Head(ring)) # {}
  /\ state' \in Lands(Head(ring))
  /\ \/ pc' = "buttons" /\ UNCHANGED <<back, tx>>
     \/ /\ Head(ring) = Write /\ section < 2
        /\ section' = section + 1 /\ StartSend(Write, "buttons")
  /\ UNCHANGED <<request, buttons, sleep, held, turning, inputs>>

\* No such message: main() resets the MCU.
NotFound ==
  /\ Receive
  /\ GetMsgHdr(Head(ring)) = {}
  /\ Goto("init")
  /\ UNCHANGED <<buttons, sleep, held, tx, turning, inputs>>

\* The module hands over what it holds well within the time-out.
RxTimeout ==
  /\ pc = "rx" /\ ring = <<>> /\ held = <<>>
  /\ Goto("buttons")
  /\ UNCHANGED <<buttons, sleep, uart, tx, turning, inputs>>

-----------------------------------------------------------------------------
(* The module.                                                             *)

Deliver ==
  /\ rts /\ pc # "init" /\ held # <<>>
  /\ ring' = Append(ring, Head(held)) /\ held' = Tail(held)
  /\ UNCHANGED <<mcu, buttons, sleep, tx, turning, inputs>>

Raise ==
  /\ inputs < MaxInputs /\ inputs' = inputs + 1
  /\ \E p \in Raised : held' = Append(held, p)
  /\ UNCHANGED <<mcu, buttons, sleep, ring, tx, turning>>

-----------------------------------------------------------------------------
Main ==
  \/ MainInit \/ FsmIdle \/ FsmConfigure \/ FsmRefuse \/ Answer \/ FsmRotate
  \/ FsmAdvertising \/ Sleep \/ WakeUp
  \/ EnableCurrentSense \/ TimedOut \/ NoButton \/ RotateForButton \/ ClearRequest
  \/ SendUnit \/ LengthTimeout \/ DataTimeout
  \/ Dispatch \/ NotFound \/ RxTimeout
Interrupts == PinChange \/ Int0 \/ Overflow
Environment == Press \/ Release \/ Jammed \/ Raise

Next == Main \/ Interrupts \/ Deliver \/ Environment
Spec == Init /\ [][Next]_vars

\* main() and the interrupts run, the timer counts, the module hands over
\* what it holds, and nobody holds a button forever.
Fairness ==
  /\ WF_vars(Main) /\ WF_vars(PinChange) /\ WF_vars(Int0) /\ WF_vars(Overflow)
  /\ WF_vars(Deliver) /\ WF_vars(Release)
FairSpec == Spec /\ Fairness

-----------------------------------------------------------------------------
(* Properties.                                                             *)

\* A request of a button is carried out, unless it is overridden by the other
\* button or by a reset: also when it comes while the MCU falls asleep, waits
\* for the module, or turns the motor for the phone (main(), PCINT1_vect).
\* Only a press during a rotation for a button is forgotten.
PressServed ==
  \A d \in Directions :
    request = d /\ back # "clear" /\ pc # "clear"
      ~> motor = d \/ request \in Directions \ {d} \/ pc = "init"

\* The MCU comes back for whatever the module has for it: no packet raised
\* between the test of the wake-up pin and the sleep is left behind
\* (power_down(), INT0_vect).
ModuleServed == held # <<>> ~> rts

\* A rotation that nothing stops lasts its whole time, counted from its own
\* start: nothing is left of the one before (motor_control.c, timer.c).
FullTurn == [][TimedOut => elapsed >= MOTOR_TIMER_THRESHOLD]_vars

\* Every rotation ends, jammed or not (motor_control.c).
MotorStops == motor # "off" ~> motor = "off"

\* "Return 0 if data is received correctly, -1 if a timeout occured": when
\* main() goes on after a command, the module has taken all of it and expects
\* the length byte of the next (uart_tx(), ble_send_packet()).
CommandsInStep == [][pc = "tx" /\ pc' \notin {"tx", "init"} => frame' = 0]_vars
=============================================================================
