--------------------------- MODULE MainLoop_proofs ---------------------------
(***************************************************************************)
(* For any time-out of the motor and any number of presses and events:     *)
(* the types of MainLoop, and that a rotation nothing stops lasts its      *)
(* whole time.                                                             *)
(***************************************************************************)
EXTENDS MainLoop, TLAPS

-----------------------------------------------------------------------------
\* The motor turns exactly while main() waits for it, and its time is counted
\* from its own start.
Turning ==
  /\ pc = "motor" <=> motor # "off"
  /\ motor # "off" => elapsed = ovf

\* A command or a rotation returns to where it was called from.
Returning == pc \in {"tx", "motor"} => back \in {"rx", "answer", "clear", "buttons"}

\* While a command is sent it is one of the firmware's.
Sending == pc = "tx" => packet \in {Write, SetMode, SetAdvParameters}

Inv == TypeOK /\ Turning /\ Returning /\ Sending

-----------------------------------------------------------------------------
(* The initial state, and the reset, which main() leaves in the same way.  *)

LEMMA InvInit == Init => Inv
<1> SUFFICES ASSUME Init PROVE Inv
  OBVIOUS
<1>1. TypeOK
  <2>1. ring \in Seq(Packets) /\ held \in Seq(Packets)
    BY DEF Init, Packets
  <2>2. ovf \in 0..MOTOR_TIMER_THRESHOLD /\ elapsed \in 0..MOTOR_TIMER_THRESHOLD /\ inputs \in 0..MaxInputs
    BY MainLoopAssumption DEF Init
  <2>3. {pending, int0, rts, sense} \subseteq BOOLEAN
    BY DEF Init
  <2>4. pins \subseteq {1, 2} /\ unit \in 0..2 /\ section \in 0..2 /\ frame \in 0..3
    BY DEF Init
  <2>5. pc \in Pcs /\ back \in Pcs \cup {None} /\ state \in Groups
        /\ request \in Directions \cup {None}
        /\ packet \in {Write, SetMode, SetAdvParameters, NoPacket}
        /\ motor \in Directions \cup {"off"}
    BY DEF Init, Pcs, Groups
  <2> QED
    BY <2>1, <2>2, <2>3, <2>4, <2>5 DEF TypeOK
<1> QED
  BY <1>1 DEF Init, Inv, Turning, Returning, Sending

LEMMA InvMainInit == ASSUME Inv, MainInit PROVE Inv'
<1>1. TypeOK'
  <2>1. ring' \in Seq(Packets) /\ held' \in Seq(Packets)
    <3>1. Boot \in Packets
      BY DEF Packets
    <3>2. <<Boot>> \in Seq(Packets) /\ held \in Seq(Packets)
      BY <3>1 DEF Inv, TypeOK
    <3>3. held' = <<Boot>> \/ held' = held
      BY DEF MainInit
    <3>4. held' \in Seq(Packets)
      BY <3>2, <3>3, Zenon
    <3>5. ring' \in Seq(Packets)
      BY DEF MainInit
    <3> QED
      BY <3>4, <3>5
  <2>2. ovf' \in 0..MOTOR_TIMER_THRESHOLD /\ elapsed' \in 0..MOTOR_TIMER_THRESHOLD
    BY MainLoopAssumption DEF MainInit
  <2>3. {pending', int0', rts', sense'} \subseteq BOOLEAN
    BY DEF MainInit, buttons, Inv, TypeOK
  <2>4. pins' \subseteq {1, 2} /\ unit' \in 0..2 /\ section' \in 0..2 /\ frame' \in 0..3
        /\ inputs' \in 0..MaxInputs
    BY DEF MainInit, buttons, Inv, TypeOK
  <2>5. pc' \in Pcs /\ back' \in Pcs \cup {None} /\ state' \in Groups
        /\ request' \in Directions \cup {None}
        /\ packet' \in {Write, SetMode, SetAdvParameters, NoPacket}
        /\ motor' \in Directions \cup {"off"}
    BY DEF MainInit, Pcs, Groups
  <2> QED
    BY <2>1, <2>2, <2>3, <2>4, <2>5 DEF TypeOK
<1> QED
  BY <1>1 DEF MainInit, Inv, Turning, Returning, Sending

-----------------------------------------------------------------------------
(* Steps of main() and the interrupts between commands and rotations.      *)

\* A step of main() outside commands and rotations that leaves both alone.
LEMMA InvElsewhere ==
  ASSUME Inv, UNCHANGED <<tx, turning>>, UNCHANGED back,
         pc' = pc \/ (pc \notin {"tx", "motor", "init"} /\ pc' \in Pcs \ {"tx", "motor"}),
         state' \in Groups, request' \in Directions \cup {None}, pins' \subseteq {1, 2},
         pending' \in BOOLEAN, int0' \in BOOLEAN, rts' \in BOOLEAN,
         ring' \in Seq(Packets), held' \in Seq(Packets), inputs' \in 0..MaxInputs
  PROVE  Inv'
<1>1. UNCHANGED <<packet, unit, section, frame, motor, sense, ovf, elapsed>>
  BY DEF tx, turning
<1>2. pc' \in Pcs
  BY DEF Inv, TypeOK
<1>3. TypeOK'
  BY <1>1, <1>2 DEF Inv, TypeOK
<1>4. Turning'
  BY <1>1 DEF Inv, Turning
<1>5. Returning' /\ Sending'
  BY <1>1 DEF Inv, Returning, Sending
<1> QED
  BY <1>3, <1>4, <1>5 DEF Inv

LEMMA InvMain ==
  ASSUME Inv, FsmIdle \/ FsmRefuse \/ NoButton \/ ClearRequest \/ RxTimeout
  PROVE  Inv'
BY InvElsewhere DEF Inv, TypeOK, FsmIdle, FsmRefuse, NoButton, ClearRequest, RxTimeout,
   Goto, Pcs, Groups, None, buttons, sleep, uart

LEMMA InvSleep ==
  ASSUME Inv, FsmAdvertising \/ Sleep \/ WakeUp \/ Int0
  PROVE  Inv'
<1>1. held' \in Seq(Packets)
  <2>1. IoPortStatus \in Packets
    BY DEF Packets
  <2>2. held \in Seq(Packets) /\ Append(held, IoPortStatus) \in Seq(Packets)
    BY <2>1 DEF Inv, TypeOK
  <2> QED
    BY <2>2 DEF FsmAdvertising, Sleep, WakeUp, Int0, uart
<1> QED
  BY <1>1, InvElsewhere DEF Inv, TypeOK, FsmAdvertising, Sleep, WakeUp, Int0,
     Goto, Pcs, buttons, uart

LEMMA InvButtons ==
  ASSUME Inv, Press \/ Release \/ PinChange
  PROVE  Inv'
<1>1. CASE Press \/ Release
  <2>1. pins' \subseteq {1, 2}
    BY <1>1 DEF Press, Release, Inv, TypeOK
  <2>2. inputs' \in 0..MaxInputs
    BY <1>1, MainLoopAssumption DEF Press, Release, Inv, TypeOK
  <2> QED
    BY <1>1, <2>1, <2>2, InvElsewhere DEF Inv, TypeOK, Press, Release, mcu, sleep, uart
<1>2. CASE PinChange
  BY <1>2, InvElsewhere DEF Inv, TypeOK, PinChange, Pcs, Directions, sleep, uart
<1> QED
  BY <1>1, <1>2

LEMMA InvModule ==
  ASSUME Inv, Deliver \/ Raise
  PROVE  Inv'
<1>1. CASE Deliver
  <2>1. ring' \in Seq(Packets) /\ held' \in Seq(Packets)
    <3>1. held \in Seq(Packets) /\ held # <<>> /\ ring \in Seq(Packets)
      BY <1>1 DEF Inv, TypeOK, Deliver
    <3>2. Head(held) \in Packets /\ Tail(held) \in Seq(Packets)
      BY <3>1
    <3> QED
      BY <1>1, <3>1, <3>2 DEF Deliver
  <2> QED
    BY <1>1, <2>1, InvElsewhere DEF Inv, TypeOK, Deliver, mcu, buttons, sleep
<1>2. CASE Raise
  <2>1. held' \in Seq(Packets) /\ inputs' \in 0..MaxInputs
    BY <1>2, MainLoopAssumption DEF Inv, TypeOK, Raise, Packets
  <2> QED
    BY <1>2, <2>1, InvElsewhere DEF Inv, TypeOK, Raise, mcu, buttons, sleep
<1> QED
  BY <1>1, <1>2

-----------------------------------------------------------------------------
(* Rotations.                                                              *)

LEMMA InvTurn ==
  ASSUME Inv, FsmRotate \/ RotateForButton
  PROVE  Inv'
<1>1. PICK d \in Directions, next \in {"answer", "clear"} : Turn(d, next)
  BY DEF FsmRotate, RotateForButton, Inv, TypeOK
<1>2. /\ pc' = "motor" /\ back' \in {"answer", "clear"} /\ motor' = d /\ d # "off"
      /\ elapsed' = 0 /\ ovf' = 0 /\ sense' = sense
  BY <1>1 DEF Turn, TimerStart, Directions
<1>3. UNCHANGED <<state, request, pins, pending, int0, rts, ring, held, packet, unit,
                  section, frame, inputs>>
  BY DEF FsmRotate, RotateForButton, buttons, sleep, uart, tx
<1>4. 0 \in 0..MOTOR_TIMER_THRESHOLD
  BY MainLoopAssumption
<1>5. TypeOK'
  BY <1>2, <1>3, <1>4 DEF Inv, TypeOK, Pcs
<1> QED
  BY <1>2, <1>3, <1>5 DEF Inv, Turning, Returning, Sending

LEMMA InvTurns ==
  ASSUME Inv, EnableCurrentSense \/ Overflow
  PROVE  Inv'
<1>1. UNCHANGED <<pc, back, state, request, pins, pending, int0, rts, ring, held,
                  packet, unit, section, frame, inputs, motor>>
  BY DEF EnableCurrentSense, Overflow, mcu, buttons, sleep, uart, tx
<1>2. sense' \in BOOLEAN
  BY DEF EnableCurrentSense, Overflow, Inv, TypeOK
<1>3. /\ ovf' \in 0..MOTOR_TIMER_THRESHOLD /\ elapsed' \in 0..MOTOR_TIMER_THRESHOLD
      /\ motor # "off" => elapsed' = ovf'
  BY MainLoopAssumption DEF EnableCurrentSense, Overflow, Inv, TypeOK, Turning
<1>4. TypeOK'
  BY <1>1, <1>2, <1>3 DEF Inv, TypeOK
<1> QED
  BY <1>1, <1>3, <1>4 DEF Inv, Turning, Returning, Sending

LEMMA InvHalt ==
  ASSUME Inv, Jammed \/ TimedOut
  PROVE  Inv'
<1>1. Halt
  BY DEF Jammed, TimedOut
<1>2. /\ pc = "motor" /\ pc' \in {"rx", "answer", "clear", "buttons"}
      /\ back' = None /\ motor' = "off" /\ sense' = FALSE /\ elapsed' = 0
  BY <1>1 DEF Halt, Inv, Returning
<1>3. UNCHANGED <<state, request, pins, pending, int0, rts, ring, held, packet, unit,
                  section, frame, ovf, inputs>>
  BY <1>1 DEF Halt, buttons, sleep, uart, tx
<1>4. 0 \in 0..MOTOR_TIMER_THRESHOLD
  BY MainLoopAssumption
<1>5. TypeOK'
  BY <1>2, <1>3, <1>4 DEF Inv, TypeOK, Pcs
<1> QED
  BY <1>2, <1>3, <1>5 DEF Inv, Turning, Returning, Sending

-----------------------------------------------------------------------------
(* Commands and packets.                                                   *)

\* A command starts where the module expects one.
LEMMA InvStartSend ==
  ASSUME Inv, NEW c \in {Write, SetMode, SetAdvParameters}, NEW next \in {"rx", "buttons"},
         StartSend(c, next), pc \notin {"tx", "motor", "init"},
         state' \in Groups, section' \in 0..2, ring' \in Seq(Packets),
         UNCHANGED <<request, buttons, sleep, held, turning, inputs>>
  PROVE  Inv'
<1>1. /\ pc' = "tx" /\ back' = next /\ packet' = c /\ unit' = 0
      /\ frame' = frame
  BY DEF StartSend
<1>2. UNCHANGED <<pins, pending, int0, rts, motor, sense, ovf, elapsed>>
  BY DEF buttons, sleep, turning
<1>3. TypeOK'
  BY <1>1, <1>2 DEF Inv, TypeOK, Pcs
<1>4. Turning'
  BY <1>1, <1>2 DEF Inv, Turning
<1>5. Sending'
  BY <1>1 DEF Inv, Sending
<1> QED
  BY <1>1, <1>3, <1>4, <1>5 DEF Inv, Returning

LEMMA InvFsmSends ==
  ASSUME Inv, FsmConfigure \/ Answer
  PROVE  Inv'
<1>1. CASE FsmConfigure
  <2>1. PICK c \in {SetAdvParameters, SetMode} : StartSend(c, "rx")
    BY <1>1 DEF FsmConfigure
  <2>2. section' \in 0..2 /\ ring' \in Seq(Packets)
    BY <1>1 DEF FsmConfigure, uart, Inv, TypeOK
  <2> QED
    BY <1>1, <2>1, <2>2, InvStartSend DEF FsmConfigure, uart, Groups
<1>2. CASE Answer
  <2>1. section' \in 0..2 /\ ring' \in Seq(Packets)
    BY <1>2 DEF Answer, uart, Inv, TypeOK
  <2> QED
    BY <1>2, <2>1, InvStartSend DEF Answer, uart, Groups
<1> QED
  BY <1>1, <1>2

\* One more part of a command is out: the module expects the next one.
LEMMA SentStep ==
  ASSUME Inv, pc = "tx", Sent
  PROVE  /\ UNCHANGED <<state, request, pins, pending, int0, rts, ring, inputs>>
         /\ UNCHANGED <<motor, sense, ovf, elapsed>>
         /\ unit' \in 0..2 /\ motor' = "off"
         /\ \/ /\ unit = 2 /\ pc' \in {"rx", "answer", "clear", "buttons"}
               /\ back' = None /\ packet' = NoPacket
            \/ /\ unit < 2 /\ unit' = unit + 1 /\ pc' = "tx"
               /\ UNCHANGED <<packet, back>>
<1>1. unit \in 0..2
  BY DEF Inv, TypeOK
<1>2. motor = "off"
  BY DEF Inv, Turning
<1> QED
  BY <1>1, <1>2 DEF Sent, buttons, sleep, turning, Inv, Returning

LEMMA InvSent ==
  ASSUME Inv, pc = "tx", Sent, frame' \in 0..3, section' = section, held' \in Seq(Packets)
  PROVE  Inv'
<1>1. unit \in 0..2
  BY DEF Inv, TypeOK
<1>2. TypeOK'
  BY SentStep DEF Inv, TypeOK, Pcs
<1>3. Turning'
  BY SentStep DEF Inv, Turning
<1>4. Returning'
  BY SentStep DEF Inv, Returning
<1>5. Sending'
  BY <1>1, SentStep DEF Inv, Sending
<1> QED
  BY <1>2, <1>3, <1>4, <1>5 DEF Inv

LEMMA InvTransmit ==
  ASSUME Inv, SendUnit \/ LengthTimeout \/ DataTimeout
  PROVE  Inv'
<1>1. CASE SendUnit
  <2>1. /\ unit \in 0..2 /\ frame \in 0..3 /\ held \in Seq(Packets)
        /\ packet \in Packets
    BY <1>1 DEF Inv, TypeOK, SendUnit, Sending, Packets
  <2>2. frame' \in 0..3 /\ held' \in Seq(Packets)
    BY <1>1, <2>1 DEF SendUnit, OutOfStep
  <2> QED
    BY <1>1, <2>1, <2>2, InvSent DEF SendUnit
<1>2. CASE LengthTimeout
  <2>1. frame' \in 0..3 /\ held' \in Seq(Packets)
    BY <1>2 DEF LengthTimeout, Inv, TypeOK
  <2> QED
    BY <1>2, <2>1, InvSent DEF LengthTimeout
<1>3. CASE DataTimeout
  <2>1. /\ pc = "tx" /\ pc' = "init"
        /\ UNCHANGED <<back, state, request, pins, pending, int0, rts, ring, held,
                       packet, unit, section, frame, motor, sense, ovf, elapsed, inputs>>
    BY <1>3 DEF DataTimeout, Goto, buttons, sleep, uart, tx, turning
  <2>2. TypeOK'
    BY <2>1 DEF Inv, TypeOK, Pcs
  <2> QED
    BY <2>1, <2>2 DEF Inv, Turning, Returning, Sending
<1> QED
  BY <1>1, <1>2, <1>3

LEMMA LandsInGroups ==
  ASSUME Inv, NEW p
  PROVE  Lands(p) \subseteq Groups
BY DEF Lands, Groups, Inv, TypeOK

LEMMA InvReceive ==
  ASSUME Inv, Dispatch \/ NotFound
  PROVE  Inv'
<1>1. pc = "rx" /\ ring' \in Seq(Packets)
  <2>1. ring \in Seq(Packets) /\ Receive
    BY DEF Dispatch, NotFound, Inv, TypeOK
  <2>2. Tail(ring) \in Seq(Packets)
    BY <2>1 DEF Receive
  <2> QED
    BY <2>1, <2>2 DEF Receive
<1>2. CASE NotFound
  <2>1. /\ pc' = "init"
        /\ UNCHANGED <<back, state, request, pins, pending, int0, rts, held,
                       packet, unit, section, frame, motor, sense, ovf, elapsed, inputs>>
    BY <1>2 DEF NotFound, Goto, buttons, sleep, tx, turning
  <2> QED
    BY <1>1, <2>1, InvElsewhere DEF Inv, TypeOK, Pcs, tx, turning
<1>3. CASE Dispatch
  <2>1. state' \in Groups
    BY <1>3, LandsInGroups DEF Dispatch
  <2>2. CASE pc' = "buttons" /\ UNCHANGED <<back, tx>>
    BY <1>1, <1>3, <2>1, <2>2, InvElsewhere DEF Dispatch, Inv, TypeOK, Pcs, buttons, sleep
  <2>3. CASE section < 2 /\ section' = section + 1 /\ StartSend(Write, "buttons")
    <3>1. section' \in 0..2
      BY <2>3 DEF Inv, TypeOK
    <3> QED
      BY <1>1, <1>3, <2>1, <2>3, <3>1, InvStartSend DEF Dispatch
  <2> QED
    BY <1>3, <2>2, <2>3 DEF Dispatch
<1> QED
  BY <1>2, <1>3

-----------------------------------------------------------------------------
LEMMA InvStep == Inv /\ [Next]_vars => Inv'
<1> SUFFICES ASSUME Inv, [Next]_vars PROVE Inv'
  OBVIOUS
<1>1. CASE UNCHANGED vars
  BY <1>1, InvElsewhere DEF vars, mcu, buttons, sleep, uart, Inv, TypeOK
<1>2. CASE Main
  BY <1>2, InvMainInit, InvMain, InvSleep, InvTurn, InvTurns, InvHalt, InvFsmSends,
     InvTransmit, InvReceive DEF Main
<1>3. CASE Interrupts \/ Deliver \/ Environment
  BY <1>3, InvButtons, InvSleep, InvTurns, InvHalt, InvModule DEF Interrupts, Environment
<1> QED
  BY <1>1, <1>2, <1>3 DEF Next

LEMMA Invariance == Spec => []Inv
BY InvInit, InvStep, PTL DEF Spec

-----------------------------------------------------------------------------
(* What main() promises.                                                   *)

\* Every variable keeps its type: the counters stay in their ranges, a request
\* and the motor are one of two directions or none.
THEOREM LoopTypes == Spec => []TypeOK
<1>1. Inv => TypeOK
  BY DEF Inv
<1> QED
  BY <1>1, Invariance, PTL

\* A rotation that ends by its time-out has lasted all of it, counted from its
\* own start (motor_control.c, timer.c).
THEOREM RotationsLast == Spec => FullTurn
<1>1. Inv /\ [Next]_vars => [TimedOut => elapsed >= MOTOR_TIMER_THRESHOLD]_vars
  <2> SUFFICES ASSUME Inv, TimedOut PROVE elapsed >= MOTOR_TIMER_THRESHOLD
    OBVIOUS
  <2>1. pc = "motor" /\ ovf >= MOTOR_TIMER_THRESHOLD
    BY DEF TimedOut, Halt
  <2> QED
    BY <2>1 DEF Inv, Turning
<1> QED
  BY <1>1, Invariance, PTL DEF Spec, FullTurn
=============================================================================
