------------------------ MODULE LockFirmware_proofs ------------------------
(***************************************************************************)
(* Proofs about LockFirmware, for every set of tickets, requests, faults   *)
(* and every bound.                                                        *)
(***************************************************************************)
EXTENDS LockFirmware, SequenceTheorems, TLAPS

-----------------------------------------------------------------------------
(* The data the lock handles.                                              *)

\* A part of a write has a length, and a whole write is a sequence of parts.
LEMMA PartLength ==
  ASSUME NEW p \in Parts
  PROVE  PartLens(p.m)[p.i] \in Nat
<1>1. p.m \in Messages /\ p.i \in 1..4 /\ p.i <= Len(PartLens(p.m))
  BY DEF Parts
<1>2. CASE p.m.kind = "ticket"
  BY <1>1, <1>2 DEF PartLens
<1>3. CASE p.m.kind # "ticket"
  BY <1>1, <1>3 DEF PartLens
<1> QED
  BY <1>2, <1>3

LEMMA PartsOfMessage ==
  ASSUME NEW m \in Messages
  PROVE  PartsOf(m) \in Seq(Parts)
<1>1. Len(PartLens(m)) \in 1..4
  BY DEF PartLens
<1>2. \A i \in 1..Len(PartLens(m)) : [m |-> m, i |-> i] \in Parts
  <2>1. SUFFICES ASSUME NEW i \in 1..Len(PartLens(m))
                 PROVE  [m |-> m, i |-> i] \in Parts
    OBVIOUS
  <2> DEFINE p == [m |-> m, i |-> i]
  <2>2. i \in 1..4
    <3>1. \A n \in 1..4 : 1..n \subseteq 1..4
      OBVIOUS
    <3> QED
      BY <1>1, <3>1
  <2>3. p.m = m /\ p.i = i /\ p \in [m : Messages, i : 1..4]
    BY <2>2
  <2>4. p.i <= Len(PartLens(p.m))
    BY <1>1, <2>3
  <2> QED
    BY <2>3, <2>4 DEF Parts
<1> QED
  BY <1>1, <1>2, IsASeq DEF PartsOf

\* What the lock takes for the nonce of its buffer is a number.
LEMMA ReadingNonce ==
  ASSUME NEW parts \in Seq(Parts), NEW m \in Readings(parts)
  PROVE  m.nonce \in Nat
<1> USE NoncesAssumption
<1>1. CASE Whole(parts)
  <2>1. parts[1] \in Parts
    BY <1>1, ElementOfSeq DEF Whole
  <2>2. m \in Messages
    BY <1>1, <2>1 DEF Readings, Parts
  <2> QED
    BY <2>2 DEF Messages, Tickets, Requests
<1>2. CASE ~Whole(parts)
  BY <1>2 DEF Readings
<1> QED
  BY <1>1, <1>2

LEMMA BufferedMessage ==
  ASSUME TypeOK, Whole(msgBuf.data)
  PROVE  Buffered \in Messages /\ Readings(msgBuf.data) = {Buffered}
<1>1. msgBuf.data \in Seq(Parts)
  BY DEF TypeOK, McuTypeOK
<1>2. msgBuf.data[1] \in Parts
  BY <1>1, ElementOfSeq DEF Whole
<1> QED
  BY <1>2 DEF Buffered, Readings, Parts

\* A ticket that opens carries its own nonce as the name of its key.
LEMMA OpenedTicket ==
  ASSUME TypeOK, TicketOpens
  PROVE  /\ Buffered.key \in TicketNonces /\ Buffered.key = Buffered.nonce
         /\ Whole(msgBuf.data)
<1>1. Whole(msgBuf.data) /\ Buffered.kind = "ticket" /\ Buffered.key = Buffered.nonce
  BY DEF TicketOpens, Opens
<1>2. Buffered \in Messages
  BY <1>1, BufferedMessage
<1> QED
  BY <1>1, <1>2 DEF Messages, Tickets, Requests

LEMMA OpenedRequest ==
  ASSUME TypeOK, RequestOpens
  PROVE  sessionKey \in TicketNonces /\ Buffered.nonce \in Nat /\ Whole(msgBuf.data)
<1>1. Whole(msgBuf.data) /\ Buffered.kind = "request" /\ Buffered.key = sessionKey
  BY DEF RequestOpens, Opens
<1>2. Buffered \in Messages
  BY <1>1, BufferedMessage
<1> QED
  BY <1>1, <1>2, NoncesAssumption DEF Messages, Tickets, Requests

LEMMA EmptyBufType == EmptyBuf \in [len : Nat, data : Seq(Parts)]
BY EmptySeq DEF EmptyBuf

\* The packets and commands the actions build are packets and commands.
LEMMA PacketTypes ==
  /\ \A t \in {"boot", "address", "params", "data", "mode", "disconnected"} :
       Plain(t) \in Packets
  /\ \A f \in SUBSET (0..3) : Status(f) \in Packets
  /\ \A p \in Parts : Value(p) \in Packets
  /\ \A ok \in BOOLEAN : Written(ok) \in Packets
BY DEF Packets, Plain, Status, Value, Written

LEMMA CommandTypes ==
  /\ \A c \in {"address", "params", "data", "scan", "mode"} : Command(c) \in Commands
  /\ \A n \in 1..3, r \in Responses \cup {NoResponse} : WriteSection(n, r) \in Commands
BY DEF Commands, Command, WriteSection

LEMMA ValuePacket ==
  ASSUME NEW p \in Packets, p.t = "value"
  PROVE  p.part \in Parts
BY DEF Packets

LEMMA Received ==
  ASSUME TypeOK, NEW t, Receive(t)
  PROVE  Head(toMcu) \in Packets /\ toMcu' \in Seq(Packets)
BY HeadTailProperties DEF TypeOK, UartTypeOK, Receive

-----------------------------------------------------------------------------
(* The inductive invariant.                                                *)

\* The nonce in EEPROM is at least that of every ticket that opened a session.
MasterCovers == \A n \in opened : n <= masterNonce

\* Between the EEPROM write and the decryption it is strictly newer, and it is
\* the nonce of the message in the buffer.
Storing ==
  turn = "open" =>
    /\ \A n \in opened : n < masterNonce
    /\ Whole(msgBuf.data) => Buffered.nonce = masterNonce

\* Every nonce used under the key of the session is behind the session nonce,
\* and every key that was ever used belongs to a ticket that opened a session.
NoncesCovered ==
  \A u \in rotated \cup sealed :
    u[1] \in opened /\ (u[1] = sessionKey => u[2] <= sessionNonce)

\* A response is only awaited within a session.
Responding == turn = "respond" => sessionKey \in opened /\ state = "REQUEST_W"

Inv == TypeOK /\ MasterCovers /\ Storing /\ NoncesCovered /\ Responding /\ NewestSession

-----------------------------------------------------------------------------
(* Type correctness.                                                       *)

LEMMA TypeFsm ==
  ASSUME TypeOK, Fsm, Responding
  PROVE  TypeOK'
<1> USE DEF session, module, history
<1>1. ASSUME NEW from, NEW c \in {"address", "params", "data", "scan", "mode"},
             NEW to \in States, Sends(from, c, to), UNCHANGED msgBuf \/ msgBuf' = EmptyBuf
      PROVE  TypeOK'
  <2>1. UartTypeOK'
    BY <1>1, CommandTypes, AppendProperties DEF Sends, TypeOK, UartTypeOK
  <2>2. McuTypeOK'
    <3>1. msgBuf' \in [len : Nat, data : Seq(Parts)]
      BY <1>1, EmptyBufType DEF TypeOK, McuTypeOK
    <3>2. state' \in States /\ turn' \in Turns
      BY <1>1 DEF Sends, Turns
    <3>3. UNCHANGED <<sessionKey, sessionNonce, attWrite, masterNonce>>
      BY <1>1 DEF Sends
    <3> QED
      BY <3>1, <3>2, <3>3 DEF TypeOK, McuTypeOK
  <2>3. ModuleTypeOK' /\ HistoryTypeOK'
    BY <1>1 DEF Sends, TypeOK, ModuleTypeOK, HistoryTypeOK
  <2> QED
    BY <2>1, <2>2, <2>3 DEF TypeOK
<1>2. CASE FsmBleBoot \/ FsmSystemAddressGet \/ FsmAdvParamSet \/ FsmAdvDataSet
           \/ FsmAdvSrDataSet \/ FsmDisconnected
  <2>1. CASE FsmBleBoot
    BY <1>1, <2>1 DEF FsmBleBoot, States
  <2>2. CASE FsmSystemAddressGet
    BY <1>1, <2>2 DEF FsmSystemAddressGet, States
  <2>3. CASE FsmAdvParamSet
    BY <1>1, <2>3 DEF FsmAdvParamSet, States
  <2>4. CASE FsmAdvDataSet
    BY <1>1, <2>4 DEF FsmAdvDataSet, States
  <2>5. CASE FsmAdvSrDataSet
    BY <1>1, <2>5 DEF FsmAdvSrDataSet, States
  <2>6. CASE FsmDisconnected
    BY <1>1, <2>6 DEF FsmDisconnected, States
  <2> QED
    BY <1>2, <2>1, <2>2, <2>3, <2>4, <2>5, <2>6
<1>3. CASE FsmIdle \/ FsmAdvertising \/ WakeUp
  <2>1. delivered' \in Nat
    BY <1>3 DEF FsmIdle, FsmAdvertising, WakeUp, TypeOK, ModuleTypeOK
  <2>2. turn' \in Turns
    BY <1>3 DEF FsmIdle, FsmAdvertising, WakeUp, Turns
  <2>3. UNCHANGED <<state, msgBuf, session, attWrite, masterNonce, toBle, toMcu, link,
                    advertising, advSetup, air, faults, history>>
    BY <1>3 DEF FsmIdle, FsmAdvertising, WakeUp
  <2> QED
    BY <2>1, <2>2, <2>3 DEF TypeOK, McuTypeOK, UartTypeOK, ModuleTypeOK, HistoryTypeOK
<1>4. CASE RefuseTicket \/ ForgedTicket
  BY <1>4, EmptyBufType DEF RefuseTicket, ForgedTicket, FailTicket, TypeOK, McuTypeOK,
     UartTypeOK, ModuleTypeOK, HistoryTypeOK, Turns, States
<1>5. CASE StoreTicketNonce
  <2>1. masterNonce' \in Nat
    BY <1>5, ReadingNonce DEF StoreTicketNonce, TypeOK, McuTypeOK
  <2> QED
    BY <1>5, <2>1 DEF StoreTicketNonce, TypeOK, McuTypeOK, UartTypeOK, ModuleTypeOK,
       HistoryTypeOK, Turns
<1>6. ASSUME NEW key \in TicketNonces, NEW nonce \in Nat, NEW code \in Codes,
             Respond(key, nonce, code), UNCHANGED <<toMcu, module, faults, rotated>>,
             state' \in States, sessionKey' \in TicketNonces, sessionNonce' \in Nat,
             masterNonce' = masterNonce, opened' \subseteq TicketNonces
      PROVE  TypeOK'
  <2> DEFINE rsp == [key |-> key, nonce |-> nonce, code |-> code]
  <2>1. rsp \in Responses
    BY DEF Responses
  <2>2. UartTypeOK'
    BY <1>6, <2>1, CommandTypes, AppendProperties DEF Respond, TypeOK, UartTypeOK
  <2>3. McuTypeOK'
    BY <1>6, <2>1, EmptyBufType DEF Respond, TypeOK, McuTypeOK, Turns
  <2>4. ModuleTypeOK' /\ HistoryTypeOK'
    BY <1>6 DEF Respond, TypeOK, ModuleTypeOK, HistoryTypeOK
  <2> QED
    BY <2>2, <2>3, <2>4 DEF TypeOK
<1>7. CASE OpenSession
  BY <1>6, <1>7, OpenedTicket DEF OpenSession, TypeOK, HistoryTypeOK, States, Codes
<1>8. CASE RefuseRequest
  BY <1>8, EmptyBufType DEF RefuseRequest, FailRequest, TypeOK, McuTypeOK, UartTypeOK,
     ModuleTypeOK, HistoryTypeOK, Turns, States
<1>9. CASE ForgedRequest
  <2>1. sessionNonce' \in Nat
    BY <1>9, ReadingNonce DEF ForgedRequest, TypeOK, McuTypeOK
  <2> QED
    BY <1>9, <2>1, EmptyBufType DEF ForgedRequest, FailRequest, TypeOK, McuTypeOK,
       UartTypeOK, ModuleTypeOK, HistoryTypeOK, Turns, States
<1>10. CASE StartRequest
  <2>1. sessionKey \in TicketNonces /\ Buffered.nonce \in Nat
    BY <1>10, OpenedRequest DEF StartRequest
  <2> QED
    BY <1>10, <2>1 DEF StartRequest, TypeOK, McuTypeOK, UartTypeOK, ModuleTypeOK,
       HistoryTypeOK, Turns, States
<1>11. CASE RespondRequest
  <2>1. sessionKey \in TicketNonces
    BY <1>11 DEF RespondRequest, Responding, TypeOK, HistoryTypeOK
  <2>2. sessionNonce + 1 \in Nat /\ ResponseCode(Buffered.op) \in Codes
    BY DEF TypeOK, McuTypeOK, ResponseCode, Codes
  <2> QED
    BY <1>6, <1>11, <2>1, <2>2 DEF RespondRequest, IncrementArray, TypeOK, McuTypeOK,
       HistoryTypeOK
<1> QED
  BY <1>2, <1>3, <1>4, <1>5, <1>7, <1>8, <1>9, <1>10, <1>11 DEF Fsm

LEMMA TypePacket ==
  ASSUME TypeOK, Packet
  PROVE  TypeOK'
<1> USE DEF session, module, history
<1>1. ASSUME NEW t, Receive(t), state' \in States, turn' \in Turns,
             msgBuf' \in [len : Nat, data : Seq(Parts)],
             attWrite' \in [section : 0..2, rsp : Responses \cup {NoResponse}],
             toBle' \in Seq(Commands)
      PROVE  TypeOK'
  <2>1. toMcu' \in Seq(Packets)
    BY <1>1, Received
  <2> QED
    BY <1>1, <2>1 DEF Receive, TypeOK, McuTypeOK, UartTypeOK, ModuleTypeOK, HistoryTypeOK
<1>2. ASSUME NEW t, NEW to \in States, Lands(t, to)
      PROVE  TypeOK'
  BY <1>1, <1>2 DEF Lands, TypeOK, McuTypeOK, UartTypeOK, Turns
<1>3. CASE EvtSystemBoot
  BY <1>2, <1>3 DEF EvtSystemBoot, States
<1>4. CASE RspSystemAddressGet
  BY <1>2, <1>4 DEF RspSystemAddressGet, States
<1>5. CASE RspSetAdvParameters
  BY <1>2, <1>5 DEF RspSetAdvParameters, States
<1>6. CASE RspSetAdvData
  <2> DEFINE to == CASE state = "ADV_DATA_SET_W" -> "ADV_DATA_SET"
                     [] state = "ADV_SR_DATA_SET_W" -> "ADV_SR_DATA_SET"
                     [] OTHER -> state
  <2>1. to \in States
    BY DEF TypeOK, McuTypeOK, States
  <2>2. Lands("data", to)
    BY <1>6 DEF RspSetAdvData
  <2> HIDE DEF to
  <2> QED
    BY <1>2, <2>1, <2>2
<1>7. CASE RspSetMode
  BY <1>2, <1>7 DEF RspSetMode, States
<1>8. CASE EvtDisconnected
  BY <1>2, <1>8 DEF EvtDisconnected, States
<1>9. CASE EvtConnectionStatus
  <2>1. state' \in States
    BY <1>9 DEF EvtConnectionStatus, TypeOK, McuTypeOK, States
  <2> QED
    BY <1>1, <1>9, <2>1 DEF EvtConnectionStatus, TypeOK, McuTypeOK, UartTypeOK, Turns
<1>10. CASE EvtAttributesValue
  <2>1. Receive("value") /\ UNCHANGED <<attWrite, toBle>>
    BY <1>10 DEF EvtAttributesValue
  <2> DEFINE part == Head(toMcu).part
             len == msgBuf.len + PartLens(part.m)[part.i]
  <2>2. part \in Parts
    BY <2>1, Received, ValuePacket DEF Receive
  <2>3. len \in Nat
    BY <2>2, PartLength DEF TypeOK, McuTypeOK
  <2>4. Append(msgBuf.data, part) \in Seq(Parts)
    BY <2>2, AppendProperties DEF TypeOK, McuTypeOK
  <2>5. msgBuf' = [len |-> len, data |-> Append(msgBuf.data, part)]
    BY <1>10 DEF EvtAttributesValue
  <2>6. turn' \in Turns
    BY <1>10 DEF EvtAttributesValue, Turns
  <2>7. state' \in {"TICKET", "REQUEST", state}
    BY <1>10 DEF EvtAttributesValue
  <2> HIDE DEF part, len
  <2>8. msgBuf' \in [len : Nat, data : Seq(Parts)]
    BY <2>3, <2>4, <2>5
  <2>9. state' \in States
    BY <2>7 DEF TypeOK, McuTypeOK, States
  <2> QED
    BY <1>1, <2>1, <2>6, <2>8, <2>9 DEF TypeOK, McuTypeOK, UartTypeOK
<1>11. CASE RspAttributesWrite
  <2>1. Receive("write") /\ turn' = "fsm" /\ UNCHANGED <<state, msgBuf>>
    BY <1>11 DEF RspAttributesWrite
  <2>2. CASE UNCHANGED <<toBle, attWrite>>
    BY <1>1, <2>1, <2>2 DEF TypeOK, McuTypeOK, UartTypeOK, Turns
  <2>3. CASE /\ attWrite.section < 2
             /\ toBle' = Append(toBle, WriteSection(attWrite.section + 2, attWrite.rsp))
             /\ attWrite' = [attWrite EXCEPT !.section = @ + 1]
    <3>1. attWrite.section \in 0..1 /\ attWrite.rsp \in Responses \cup {NoResponse}
      BY <2>3 DEF TypeOK, McuTypeOK
    <3>2. toBle' \in Seq(Commands)
      BY <2>3, <3>1, CommandTypes, AppendProperties DEF TypeOK, UartTypeOK
    <3>3. attWrite' \in [section : 0..2, rsp : Responses \cup {NoResponse}]
      BY <2>3, <3>1 DEF TypeOK, McuTypeOK
    <3> QED
      BY <1>1, <2>1, <3>2, <3>3 DEF TypeOK, McuTypeOK, Turns
  <2> QED
    BY <1>11, <2>2, <2>3 DEF RspAttributesWrite
<1>12. CASE RxTimeout
  BY <1>12 DEF RxTimeout, TypeOK, McuTypeOK, UartTypeOK, ModuleTypeOK, HistoryTypeOK, Turns
<1> QED
  BY <1>3, <1>4, <1>5, <1>6, <1>7, <1>8, <1>9, <1>10, <1>11, <1>12 DEF Packet

\* Only main() itself and the start of a restart touch what the MCU holds.
LEMMA TypeModule ==
  ASSUME TypeOK, ModuleRuns \/ WriteFails
  PROVE  TypeOK'
<1> USE DEF sram, session, history
<1>1. ASSUME NEW c, Executes(c), NEW p \in Packets, Answers(p),
             advSetup' \subseteq {"params", "data", "scan"}, advertising' \in BOOLEAN,
             faults' \in Nat
      PROVE  TypeOK'
  <2>1. toMcu' \in Seq(Packets)
    BY <1>1, AppendProperties DEF Answers, TypeOK, UartTypeOK
  <2>2. toBle' \in Seq(Commands)
    BY <1>1, HeadTailProperties DEF Executes, TypeOK, UartTypeOK
  <2> QED
    BY <1>1, <2>1, <2>2 DEF Executes, TypeOK, McuTypeOK, UartTypeOK, ModuleTypeOK, HistoryTypeOK
<1>2. CASE ModuleAddressGet
  BY <1>1, <1>2, PacketTypes DEF ModuleAddressGet, TypeOK, ModuleTypeOK
<1>3. CASE ModuleSetAdvParameters
  BY <1>1, <1>3, PacketTypes DEF ModuleSetAdvParameters, TypeOK, ModuleTypeOK
<1>4. CASE ModuleSetAdvData
  BY <1>1, <1>4, PacketTypes DEF ModuleSetAdvData, TypeOK, ModuleTypeOK
<1>5. CASE ModuleSetMode
  BY <1>1, <1>5, PacketTypes DEF ModuleSetMode, TypeOK, ModuleTypeOK
<1>6. CASE ModuleWrite
  BY <1>1, <1>6, PacketTypes DEF ModuleWrite, TypeOK, ModuleTypeOK
<1>7. CASE WriteFails
  <2>1. faults' \in Nat
    BY <1>7 DEF WriteFails, Fault, TypeOK, ModuleTypeOK
  <2>2. Written(FALSE) \in Packets
    BY PacketTypes
  <2>3. /\ Executes("write") /\ Answers(Written(FALSE))
        /\ UNCHANGED <<advertising, advSetup>>
    BY <1>7 DEF WriteFails
  <2> QED
    BY <1>1, <2>1, <2>2, <2>3 DEF TypeOK, ModuleTypeOK
<1> QED
  BY <1>2, <1>3, <1>4, <1>5, <1>6, <1>7 DEF ModuleRuns

LEMMA TypeAir ==
  ASSUME TypeOK, Air \/ ParametersChange
  PROVE  TypeOK'
<1> USE DEF sram, session, history
<1>1. ASSUME NEW p \in Packets, Events(p), link' \in BOOLEAN, advertising' \in BOOLEAN,
             air' \in Seq(Parts), faults' \in Nat
      PROVE  TypeOK'
  <2>1. toMcu' \in Seq(Packets)
    BY <1>1, AppendProperties DEF Events, TypeOK, UartTypeOK
  <2> QED
    BY <1>1, <2>1 DEF Events, TypeOK, McuTypeOK, UartTypeOK, ModuleTypeOK, HistoryTypeOK
<1>2. CASE Connect
  <2>1. Status({0, 2}) \in Packets
    BY PacketTypes
  <2> QED
    BY <1>1, <1>2, <2>1 DEF Connect, TypeOK, ModuleTypeOK
<1>3. CASE Disconnect
  <2>1. Plain("disconnected") \in Packets /\ <<>> \in Seq(Parts)
    BY PacketTypes, EmptySeq
  <2> QED
    BY <1>1, <1>3, <2>1 DEF Disconnect, TypeOK, ModuleTypeOK
<1>4. CASE PartArrives
  <2>1. air \in Seq(Parts) /\ air # <<>>
    BY <1>4 DEF PartArrives, TypeOK, ModuleTypeOK
  <2>2. Head(air) \in Parts /\ Tail(air) \in Seq(Parts)
    BY <2>1, HeadTailProperties
  <2>3. Value(Head(air)) \in Packets
    BY <2>2, PacketTypes
  <2> QED
    BY <1>1, <1>4, <2>2, <2>3 DEF PartArrives, TypeOK, ModuleTypeOK
<1>5. ASSUME NEW m \in Messages, PhoneWrites(m)
      PROVE  TypeOK'
  <2>1. air' \in Seq(Parts)
    BY <1>5, PartsOfMessage DEF PhoneWrites
  <2> QED
    BY <1>5, <2>1 DEF PhoneWrites, TypeOK, McuTypeOK, UartTypeOK, ModuleTypeOK, HistoryTypeOK
<1>6. CASE ParametersChange
  <2>1. faults' \in Nat
    BY <1>6 DEF ParametersChange, Fault, TypeOK, ModuleTypeOK
  <2>2. Status({0, 3}) \in Packets
    BY PacketTypes
  <2>3. Events(Status({0, 3})) /\ UNCHANGED <<link, advertising, air>>
    BY <1>6 DEF ParametersChange
  <2> QED
    BY <1>1, <2>1, <2>2, <2>3 DEF TypeOK, ModuleTypeOK
<1> QED
  BY <1>2, <1>3, <1>4, <1>5, <1>6 DEF Air

\* A restart, of the module alone or of everything.
LEMMA TypeRestart ==
  ASSUME TypeOK, ModuleReboot \/ PowerLoss \/ SoftReset
  PROVE  TypeOK'
<1>1. faults' \in Nat
  BY DEF ModuleReboot, PowerLoss, SoftReset, Fault, TypeOK, ModuleTypeOK
<1>2. <<>> \in Seq(Commands) /\ <<>> \in Seq(Parts)
  BY EmptySeq
<1>3. Plain("boot") \in Packets
  BY PacketTypes
<1>4. ASSUME Main, UNCHANGED <<masterNonce, history>>
      PROVE  TypeOK'
  <2>1. <<Plain("boot")>> \in Seq(Packets)
    BY <1>3
  <2>2. UartTypeOK' /\ ModuleTypeOK'
    BY <1>1, <1>2, <1>4, <2>1 DEF Main, ModuleLosesAll, UartTypeOK, ModuleTypeOK
  <2>3. McuTypeOK'
    BY <1>4, EmptyBufType DEF Main, TypeOK, McuTypeOK, States, Turns
  <2>4. HistoryTypeOK'
    BY <1>4 DEF history, TypeOK, HistoryTypeOK
  <2> QED
    BY <2>2, <2>3, <2>4 DEF TypeOK
<1>5. CASE ModuleReboot
  <2>1. toMcu' \in Seq(Packets)
    BY <1>3, <1>5, AppendProperties DEF ModuleReboot, TypeOK, UartTypeOK
  <2>2. UartTypeOK' /\ ModuleTypeOK'
    BY <1>1, <1>2, <1>5, <2>1 DEF ModuleReboot, ModuleLosesAll, TypeOK, UartTypeOK, ModuleTypeOK
  <2>3. McuTypeOK' /\ HistoryTypeOK'
    BY <1>5 DEF ModuleReboot, sram, history, TypeOK, McuTypeOK, HistoryTypeOK
  <2> QED
    BY <2>2, <2>3 DEF TypeOK
<1> QED
  BY <1>4, <1>5 DEF PowerLoss, SoftReset

LEMMA TypeInit == Init => TypeOK
<1> SUFFICES ASSUME Init PROVE TypeOK
  OBVIOUS
<1>1. McuTypeOK
  BY EmptyBufType DEF Init, McuTypeOK, States, Turns
<1>2. <<>> \in Seq(Commands) /\ <<>> \in Seq(Parts) /\ <<Plain("boot")>> \in Seq(Packets)
  BY EmptySeq, PacketTypes
<1>3. UartTypeOK /\ ModuleTypeOK /\ HistoryTypeOK
  BY <1>2 DEF Init, UartTypeOK, ModuleTypeOK, HistoryTypeOK
<1> QED
  BY <1>1, <1>3 DEF TypeOK

LEMMA TypeStep ==
  ASSUME TypeOK, Responding, [Next]_vars
  PROVE  TypeOK'
<1>1. CASE Next
  BY <1>1, TypeFsm, TypePacket, TypeModule, TypeAir, TypeRestart DEF Next, Mcu, Disturbance
<1>2. CASE UNCHANGED vars
  BY <1>2 DEF vars, sram, module, history, TypeOK, McuTypeOK, UartTypeOK, ModuleTypeOK,
     HistoryTypeOK
<1> QED
  BY <1>1, <1>2

-----------------------------------------------------------------------------
(* The invariant is inductive.                                             *)

\* Every step outside of the ticket and request handling either leaves the
\* session alone, or leaves the states of a session.
LEMMA InvQuiet ==
  ASSUME Inv, TypeOK',
         UNCHANGED <<masterNonce, opened, rotated, sealed>>,
         \/ /\ UNCHANGED <<sessionKey, sessionNonce>>
            /\ state' \in {"REQUEST_W", "REQUEST"} => state \in {"REQUEST_W", "REQUEST"}
            /\ turn' = "open" => turn = "open" /\ msgBuf' = msgBuf
            /\ turn' = "respond" => turn = "respond" /\ state' = state
         \/ /\ sessionKey' = NoKey /\ turn' \notin {"open", "respond"}
            /\ state' \notin {"REQUEST_W", "REQUEST"}
  PROVE  Inv'
<1>1. NoKey \notin opened
  BY NoncesAssumption DEF Inv, TypeOK, HistoryTypeOK, NoKey
<1>2. MasterCovers'
  BY DEF Inv, MasterCovers
<1>3. Storing'
  BY DEF Inv, Storing, Buffered
<1>4. NoncesCovered'
  BY <1>1 DEF Inv, NoncesCovered
<1>5. Responding' /\ NewestSession'
  BY DEF Inv, Responding, NewestSession
<1> QED
  BY <1>2, <1>3, <1>4, <1>5 DEF Inv

\* A ticket or a request that fails empties the buffer and opens nothing.
LEMMA InvTicket ==
  ASSUME Inv, TypeOK', RefuseTicket \/ StoreTicketNonce \/ ForgedTicket
  PROVE  Inv'
<1> USE DEF session, history
<1>1. CASE RefuseTicket \/ ForgedTicket
  BY <1>1, InvQuiet DEF RefuseTicket, ForgedTicket, FailTicket
<1>2. CASE StoreTicketNonce
  <2>1. PICK m \in Readings(msgBuf.data) : m.nonce > masterNonce /\ masterNonce' = m.nonce
    BY <1>2 DEF StoreTicketNonce, IsValidTicketNonce
  <2>2. m.nonce \in Nat /\ masterNonce \in Nat /\ opened \subseteq Nat
    BY ReadingNonce, NoncesAssumption DEF Inv, TypeOK, McuTypeOK, HistoryTypeOK
  <2>3. \A n \in opened : n < masterNonce'
    BY <2>1, <2>2 DEF Inv, MasterCovers
  <2>4. Whole(msgBuf.data) => Buffered.nonce = masterNonce'
    BY <2>1, BufferedMessage DEF Inv
  <2>5. UNCHANGED <<state, msgBuf, sessionKey, sessionNonce, opened, rotated, sealed>>
        /\ turn' = "open"
    BY <1>2 DEF StoreTicketNonce
  <2>6. MasterCovers'
    BY <2>1, <2>2, <2>3, <2>5 DEF MasterCovers
  <2>7. Storing'
    BY <2>3, <2>4, <2>5 DEF Storing, Buffered
  <2>8. NoncesCovered' /\ Responding' /\ NewestSession'
    BY <2>5 DEF Inv, NoncesCovered, Responding, NewestSession
  <2> QED
    BY <2>6, <2>7, <2>8 DEF Inv
<1> QED
  BY <1>1, <1>2

LEMMA InvOpenSession ==
  ASSUME Inv, TypeOK', OpenSession
  PROVE  Inv'
<1> DEFINE n == Buffered.nonce
<1>1. n \in TicketNonces /\ Buffered.key = n /\ Whole(msgBuf.data) /\ turn = "open"
  BY OpenedTicket DEF Inv, OpenSession
<1>2. n = masterNonce /\ \A o \in opened : o < n
  BY <1>1 DEF Inv, Storing
<1>3. /\ opened' = opened \cup {n} /\ sealed' = sealed \cup {<<n, 1>>}
      /\ sessionKey' = n /\ sessionNonce' = 1 /\ state' = "REQUEST_W" /\ turn' = "pkt"
      /\ UNCHANGED <<masterNonce, rotated>>
  BY <1>1 DEF OpenSession, Respond
<1> HIDE DEF n
<1>4. n \in Nat /\ opened \subseteq Nat /\ n \notin opened
  <2>1. n \in Nat
    BY <1>1, NoncesAssumption
  <2>2. opened \subseteq Nat
    BY NoncesAssumption DEF Inv, TypeOK, HistoryTypeOK
  <2>3. ASSUME n \in opened PROVE FALSE
    <3>1. n < n
      BY <1>2, <2>3
    <3> QED
      BY <3>1, <2>1
  <2> QED
    BY <2>1, <2>2, <2>3
<1>5. MasterCovers' /\ NewestSession'
  BY <1>2, <1>3, <1>4 DEF MasterCovers, NewestSession
<1>6. Storing' /\ Responding'
  BY <1>3 DEF Storing, Responding
<1>7. NoncesCovered'
  <2>1. \A u \in rotated \cup sealed : u[1] \in opened'  /\ u[1] # n
    BY <1>3, <1>4 DEF Inv, NoncesCovered
  <2> QED
    BY <1>3, <2>1 DEF NoncesCovered
<1> QED
  BY <1>5, <1>6, <1>7 DEF Inv

LEMMA InvRequest ==
  ASSUME Inv, TypeOK', RefuseRequest \/ ForgedRequest \/ StartRequest \/ RespondRequest
  PROVE  Inv'
<1> USE DEF session, history
<1>1. CASE RefuseRequest
  BY <1>1, InvQuiet DEF RefuseRequest, FailRequest
<1>2. ASSUME sessionNonce' > sessionNonce,
             UNCHANGED <<sessionKey, masterNonce, opened>>,
             rotated' \cup sealed' \subseteq
               rotated \cup sealed \cup {<<sessionKey, sessionNonce'>>},
             turn' # "open", state' = "REQUEST_W",
             state = "REQUEST_W" \/ state = "REQUEST"
      PROVE  Inv'
  <2>1. sessionNonce \in Nat /\ sessionNonce' \in Nat
    BY DEF Inv, TypeOK, McuTypeOK
  <2>2. sessionKey \in opened
    BY <1>2 DEF Inv, NewestSession
  <2>3. \A u \in rotated \cup sealed : u[1] = sessionKey => u[2] <= sessionNonce'
    <3>1. \A u \in rotated \cup sealed : u[2] \in Nat
      BY DEF Inv, TypeOK, HistoryTypeOK
    <3> QED
      BY <1>2, <2>1, <3>1 DEF Inv, NoncesCovered
  <2>4. NoncesCovered'
    BY <1>2, <2>1, <2>2, <2>3 DEF Inv, NoncesCovered
  <2>5. MasterCovers' /\ Storing'
    BY <1>2 DEF Inv, MasterCovers, Storing
  <2>6. Responding' /\ NewestSession'
    BY <1>2, <2>2 DEF Inv, Responding, NewestSession
  <2> QED
    BY <2>4, <2>5, <2>6 DEF Inv
<1>3. CASE ForgedRequest
  <2>1. PICK m \in Readings(msgBuf.data) : m.nonce > sessionNonce /\ sessionNonce' = m.nonce
    BY <1>3 DEF ForgedRequest, IsValidSessionNonce
  <2> QED
    BY <1>2, <1>3, <2>1 DEF ForgedRequest, FailRequest
<1>4. CASE StartRequest
  <2>1. rotated' \cup sealed' \subseteq rotated \cup sealed \cup {<<sessionKey, sessionNonce'>>}
    BY <1>4 DEF StartRequest
  <2> QED
    BY <1>2, <1>4, <2>1 DEF StartRequest, IsValidSessionNonce
<1>5. CASE RespondRequest
  <2>1. sessionNonce' > sessionNonce /\ state = "REQUEST_W"
    BY <1>5 DEF RespondRequest, IncrementArray, Inv, TypeOK, McuTypeOK, Responding
  <2> QED
    BY <1>2, <1>5, <2>1 DEF RespondRequest, Respond
<1> QED
  BY <1>1, <1>3, <1>4, <1>5

LEMMA InvFsm ==
  ASSUME Inv, TypeOK', Fsm
  PROVE  Inv'
<1> USE DEF session, history
<1>1. ASSUME NEW from, NEW c, NEW to, Sends(from, c, to), to \notin {"REQUEST_W", "REQUEST"}
      PROVE  Inv'
  BY <1>1, InvQuiet DEF Sends
<1>2. CASE FsmBleBoot \/ FsmSystemAddressGet \/ FsmAdvParamSet \/ FsmAdvDataSet
           \/ FsmAdvSrDataSet \/ FsmDisconnected
  BY <1>1, <1>2 DEF FsmBleBoot, FsmSystemAddressGet, FsmAdvParamSet, FsmAdvDataSet,
     FsmAdvSrDataSet, FsmDisconnected
<1>3. CASE FsmIdle \/ FsmAdvertising \/ WakeUp
  BY <1>3, InvQuiet DEF FsmIdle, FsmAdvertising, WakeUp
<1> QED
  BY <1>2, <1>3, InvTicket, InvOpenSession, InvRequest DEF Fsm

LEMMA InvPacket ==
  ASSUME Inv, TypeOK', Packet
  PROVE  Inv'
<1> USE DEF session, history
<1>1. ASSUME NEW t, Receive(t), turn' \in {"fsm", "overrun"},
             state' \in {"REQUEST_W", "REQUEST"} => state \in {"REQUEST_W", "REQUEST"}
      PROVE  Inv'
  BY <1>1, InvQuiet DEF Receive
<1>2. CASE EvtSystemBoot \/ RspSystemAddressGet \/ RspSetAdvParameters \/ RspSetMode
           \/ EvtDisconnected
  BY <1>1, <1>2 DEF EvtSystemBoot, RspSystemAddressGet, RspSetAdvParameters, RspSetMode,
     EvtDisconnected, Lands
<1>3. CASE RspSetAdvData
  BY <1>1, <1>3 DEF RspSetAdvData, Lands
<1>4. CASE EvtConnectionStatus
  BY <1>1, <1>4 DEF EvtConnectionStatus
<1>5. CASE EvtAttributesValue
  <2>1. Receive("value") /\ turn' \in {"fsm", "overrun"}
    BY <1>5 DEF EvtAttributesValue
  <2>2. state' = "TICKET" \/ state' = state \/ (state = "REQUEST_W" /\ state' = "REQUEST")
    BY <1>5 DEF EvtAttributesValue
  <2> QED
    BY <1>1, <2>1, <2>2
<1>6. CASE RspAttributesWrite
  BY <1>1, <1>6 DEF RspAttributesWrite
<1>7. CASE RxTimeout
  BY <1>7, InvQuiet DEF RxTimeout
<1> QED
  BY <1>2, <1>3, <1>4, <1>5, <1>6, <1>7 DEF Packet

\* Nothing outside of the MCU touches what the invariant is about, but a
\* restart, which forgets the session.
LEMMA InvOutside ==
  ASSUME Inv, TypeOK', ModuleRuns \/ Air \/ Disturbance
  PROVE  Inv'
<1> USE DEF sram, session, history
<1>1. CASE ModuleRuns \/ WriteFails
  <2>1. \E c : Executes(c)
    BY <1>1 DEF ModuleRuns, ModuleAddressGet, ModuleSetAdvParameters, ModuleSetAdvData,
       ModuleSetMode, ModuleWrite, WriteFails
  <2> QED
    BY <2>1, InvQuiet DEF Executes
<1>2. CASE Connect \/ Disconnect \/ PartArrives \/ ParametersChange
  <2>1. \E p : Events(p)
    BY <1>2 DEF Connect, Disconnect, PartArrives, ParametersChange
  <2> QED
    BY <2>1, InvQuiet DEF Events
<1>3. CASE \E m \in Messages : PhoneWrites(m)
  BY <1>3, InvQuiet DEF PhoneWrites
<1>4. CASE ModuleReboot
  BY <1>4, InvQuiet DEF ModuleReboot
<1>5. CASE PowerLoss \/ SoftReset
  BY <1>5, InvQuiet DEF PowerLoss, SoftReset, Main
<1> QED
  BY <1>1, <1>2, <1>3, <1>4, <1>5 DEF Air, Disturbance

LEMMA InvInit == Init => Inv
BY TypeInit DEF Init, Inv, MasterCovers, Storing, NoncesCovered, Responding, NewestSession

LEMMA InvStep == Inv /\ [Next]_vars => Inv'
<1> SUFFICES ASSUME Inv, [Next]_vars PROVE Inv'
  OBVIOUS
<1>1. TypeOK'
  BY TypeStep DEF Inv
<1>2. CASE Next
  BY <1>1, <1>2, InvFsm, InvPacket, InvOutside DEF Next, Mcu
<1>3. CASE UNCHANGED vars
  BY <1>1, <1>3, InvQuiet DEF vars, sram, history
<1> QED
  BY <1>2, <1>3

LEMMA Invariance == Spec => []Inv
BY InvInit, InvStep, PTL DEF Spec

-----------------------------------------------------------------------------
(* What the lock promises.                                                 *)

\* Every variable of the firmware and the module keeps its type.
THEOREM TypeCorrect == Spec => []TypeOK
<1>1. Inv => TypeOK
  BY DEF Inv
<1> QED
  BY <1>1, Invariance, PTL

\* The session in which the motor can turn was opened by a ticket, the newest
\* one that ever opened a session.
THEOREM SessionIsNewest == Spec => []NewestSession
<1>1. Inv => NewestSession
  BY DEF Inv
<1> QED
  BY <1>1, Invariance, PTL

\* A ticket opens a session at most once, and never after a newer one, across
\* any number of restarts and of disconnections.
THEOREM TicketsOpenInOrder == Spec => TicketsInOrder
<1>1. Inv /\ [Next]_vars => [OpenSession => \A n \in opened : n < Buffered.nonce]_vars
  <2> SUFFICES ASSUME Inv, OpenSession PROVE \A n \in opened : n < Buffered.nonce
    OBVIOUS
  <2>1. Whole(msgBuf.data) /\ turn = "open"
    BY OpenedTicket DEF Inv, OpenSession
  <2> QED
    BY <2>1 DEF Inv, Storing
<1> QED
  BY <1>1, Invariance, PTL DEF Spec, TicketsInOrder

\* The motor turns at most once for a request.
THEOREM RequestsRotateOnce == Spec => RotateOnce
<1>1. Inv /\ [Next]_vars
        => [StartRequest /\ Buffered.op \in RotateOps
              => <<sessionKey, Buffered.nonce>> \notin rotated]_vars
  <2> SUFFICES ASSUME Inv, StartRequest PROVE <<sessionKey, Buffered.nonce>> \notin rotated
    OBVIOUS
  <2>1. Buffered.nonce > sessionNonce /\ Buffered.nonce \in Nat /\ sessionNonce \in Nat
    BY OpenedRequest DEF StartRequest, IsValidSessionNonce, Inv, TypeOK, McuTypeOK
  <2> QED
    BY <2>1 DEF Inv, NoncesCovered
<1> QED
  BY <1>1, Invariance, PTL DEF Spec, RotateOnce

\* No key and nonce are used for two messages: two responses, or a response
\* and a request.
THEOREM NoncesUsedOnce == Spec => NonceUsedOnce
<1>1. Inv /\ [Next]_vars
        => [/\ OpenSession => <<Buffered.key, 1>> \notin sealed \cup rotated
            /\ RespondRequest => <<sessionKey, sessionNonce'>> \notin sealed \cup rotated
            /\ StartRequest => <<sessionKey, sessionNonce'>> \notin sealed]_vars
  <2> SUFFICES ASSUME Inv
               PROVE  /\ OpenSession => <<Buffered.key, 1>> \notin sealed \cup rotated
                      /\ RespondRequest => <<sessionKey, sessionNonce'>> \notin sealed \cup rotated
                      /\ StartRequest => <<sessionKey, sessionNonce'>> \notin sealed
    OBVIOUS
  <2>1. ASSUME OpenSession PROVE <<Buffered.key, 1>> \notin sealed \cup rotated
    <3>1. Buffered.key = Buffered.nonce /\ Whole(msgBuf.data) /\ turn = "open"
      BY <2>1, OpenedTicket DEF Inv, OpenSession
    <3>2. Buffered.key = masterNonce /\ masterNonce \in Nat /\ opened \subseteq Nat
      BY <3>1, NoncesAssumption DEF Inv, Storing, TypeOK, McuTypeOK, HistoryTypeOK
    <3>3. Buffered.key \notin opened
      BY <3>1, <3>2 DEF Inv, Storing
    <3> QED
      BY <3>3 DEF Inv, NoncesCovered
  <2>2. ASSUME RespondRequest \/ StartRequest
        PROVE  <<sessionKey, sessionNonce'>> \notin sealed \cup rotated
    <3>1. sessionNonce' > sessionNonce /\ sessionNonce \in Nat /\ sessionNonce' \in Nat
      BY <2>2, OpenedRequest DEF RespondRequest, StartRequest, IncrementArray,
         IsValidSessionNonce, Inv, TypeOK, McuTypeOK
    <3> QED
      BY <3>1 DEF Inv, NoncesCovered
  <2> QED
    BY <2>1, <2>2
<1> QED
  BY <1>1, Invariance, PTL DEF Spec, NonceUsedOnce

-----------------------------------------------------------------------------
(* The firmware implements Lock.                                           *)

LEMMA ReadingNonces ==
  ASSUME NEW parts \in Seq(Parts), NEW m \in Readings(parts)
  PROVE  m.nonce \in TicketNonces \cup RequestNonces
<1>1. CASE Whole(parts)
  <2>1. parts[1] \in Parts
    BY <1>1, ElementOfSeq DEF Whole
  <2>2. m \in Messages
    BY <1>1, <2>1 DEF Readings, Parts
  <2> QED
    BY <2>2 DEF Messages, Tickets, Requests
<1>2. CASE ~Whole(parts)
  BY <1>2 DEF Readings
<1> QED
  BY <1>1, <1>2

\* Most steps are invisible to the promise.
Invisible == UNCHANGED <<masterNonce, sessionKey, sessionNonce, opened, rotated, sealed>>
LEMMA InvisibleStutters == Invisible => UNCHANGED Promise!vars
BY DEF Invisible, Promise!vars

LEMMA PromiseTicket ==
  ASSUME Inv, StoreTicketNonce \/ OpenSession
  PROVE  Promise!Next
<1> USE DEF session, history
<1>1. CASE StoreTicketNonce
  <2>1. msgBuf.data \in Seq(Parts)
    BY DEF Inv, TypeOK, McuTypeOK
  <2>2. PICK m \in Readings(msgBuf.data) : m.nonce > masterNonce /\ masterNonce' = m.nonce
    BY <1>1 DEF StoreTicketNonce, IsValidTicketNonce
  <2>3. m.nonce \in TicketNonces \cup RequestNonces
    BY <2>1, ReadingNonces
  <2>4. Promise!Store(m.nonce)
    BY <1>1, <2>2 DEF StoreTicketNonce, Promise!Store
  <2> QED
    BY <2>3, <2>4 DEF Promise!Next
<1>2. CASE OpenSession
  <2>1. /\ Buffered.key \in TicketNonces /\ Buffered.key = Buffered.nonce
        /\ Whole(msgBuf.data) /\ turn = "open"
    BY <1>2, OpenedTicket DEF Inv, OpenSession
  <2>2. Buffered.key = masterNonce /\ \A n \in opened : n < masterNonce
    BY <2>1 DEF Inv, Storing
  <2>3. masterNonce # 0
    BY <2>1, <2>2, NoncesAssumption
  <2>4. Promise!Open
    BY <1>2, <2>1, <2>2, <2>3 DEF OpenSession, Respond, Promise!Open
  <2> QED
    BY <2>4 DEF Promise!Next
<1> QED
  BY <1>1, <1>2

LEMMA PromiseRequest ==
  ASSUME Inv, ForgedRequest \/ StartRequest \/ RespondRequest
  PROVE  Promise!Next
<1> USE DEF session, history
<1>1. CASE ForgedRequest
  <2>1. msgBuf.data \in Seq(Parts) /\ sessionKey \in opened
    BY <1>1 DEF Inv, TypeOK, McuTypeOK, NewestSession, ForgedRequest
  <2>2. PICK m \in Readings(msgBuf.data) : m.nonce > sessionNonce /\ sessionNonce' = m.nonce
    BY <1>1 DEF ForgedRequest, IsValidSessionNonce
  <2>3. m.nonce \in TicketNonces \cup RequestNonces
    BY <2>1, ReadingNonces
  <2>4. Promise!Take(m.nonce)
    BY <1>1, <2>1, <2>2 DEF ForgedRequest, FailRequest, Promise!Take
  <2> QED
    BY <2>3, <2>4 DEF Promise!Next
<1>2. CASE StartRequest
  <2> DEFINE n == Buffered.nonce
  <2>1. sessionKey \in opened
    BY <1>2 DEF Inv, NewestSession, StartRequest
  <2>2. Buffered \in Messages
    BY <1>2, BufferedMessage DEF Inv, StartRequest, RequestOpens, Opens
  <2>3. n \in TicketNonces \cup RequestNonces
    BY <2>2 DEF Messages, Tickets, Requests
  <2>4. Promise!Take(n) \/ Promise!Rotate(n)
    BY <1>2, <2>1 DEF StartRequest, IsValidSessionNonce, Promise!Take, Promise!Rotate
  <2> QED
    BY <2>3, <2>4 DEF Promise!Next
<1>3. CASE RespondRequest
  <2>1. sessionKey \in opened
    BY <1>3 DEF Inv, Responding, RespondRequest
  <2>2. Promise!Respond
    BY <1>3, <2>1 DEF RespondRequest, Respond, IncrementArray, Promise!Respond
  <2> QED
    BY <2>2 DEF Promise!Next
<1> QED
  BY <1>1, <1>2, <1>3

\* The other steps of the MCU, the module and the phone leave it alone; a
\* restart forgets the session.
LEMMA PromiseOther ==
  ASSUME Next
  PROVE  \/ StoreTicketNonce \/ OpenSession
         \/ ForgedRequest \/ StartRequest \/ RespondRequest
         \/ Invisible \/ Promise!Next
<1> USE DEF session, history, Invisible
<1>1. ASSUME Fsm
      PROVE  \/ StoreTicketNonce \/ OpenSession
             \/ ForgedRequest \/ StartRequest \/ RespondRequest \/ Invisible
  <2>1. ASSUME NEW from, NEW c, NEW to, Sends(from, c, to) PROVE Invisible
    BY <2>1 DEF Sends
  <2>2. CASE FsmBleBoot \/ FsmSystemAddressGet \/ FsmAdvParamSet \/ FsmAdvDataSet
             \/ FsmAdvSrDataSet \/ FsmDisconnected
    BY <2>1, <2>2 DEF FsmBleBoot, FsmSystemAddressGet, FsmAdvParamSet, FsmAdvDataSet,
       FsmAdvSrDataSet, FsmDisconnected
  <2>3. CASE FsmIdle \/ FsmAdvertising \/ WakeUp
    BY <2>3 DEF FsmIdle, FsmAdvertising, WakeUp
  <2>4. CASE RefuseTicket \/ ForgedTicket \/ RefuseRequest
    BY <2>4 DEF RefuseTicket, ForgedTicket, FailTicket, RefuseRequest, FailRequest
  <2> QED
    BY <1>1, <2>2, <2>3, <2>4 DEF Fsm
<1>2. ASSUME Packet PROVE Invisible
  <2>1. ASSUME NEW t, Receive(t) PROVE Invisible
    BY <2>1 DEF Receive
  <2>2. CASE RxTimeout
    BY <2>2 DEF RxTimeout
  <2> QED
    BY <1>2, <2>1, <2>2 DEF Packet, EvtSystemBoot, RspSystemAddressGet,
       RspSetAdvParameters, RspSetAdvData, RspSetMode, EvtDisconnected,
       EvtConnectionStatus, EvtAttributesValue, RspAttributesWrite, Lands
<1>3. ASSUME ModuleRuns \/ WriteFails PROVE Invisible
  <2>1. \E c : Executes(c)
    BY <1>3 DEF ModuleRuns, ModuleAddressGet, ModuleSetAdvParameters, ModuleSetAdvData,
       ModuleSetMode, ModuleWrite, WriteFails
  <2> QED
    BY <2>1 DEF Executes, sram
<1>4. ASSUME Connect \/ Disconnect \/ PartArrives \/ ParametersChange PROVE Invisible
  <2>1. \E p : Events(p)
    BY <1>4 DEF Connect, Disconnect, PartArrives, ParametersChange
  <2> QED
    BY <2>1 DEF Events, sram
<1>5. ASSUME (\E m \in Messages : PhoneWrites(m)) \/ ModuleReboot PROVE Invisible
  BY <1>5 DEF PhoneWrites, ModuleReboot, sram
<1>6. ASSUME PowerLoss \/ SoftReset PROVE Promise!Next
  <2>1. Promise!Forget
    BY <1>6 DEF PowerLoss, SoftReset, Main, Promise!Forget, NoKey, Promise!NoKey
  <2> QED
    BY <2>1 DEF Promise!Next
<1> QED
  BY <1>1, <1>2, <1>3, <1>4, <1>5, <1>6 DEF Next, Mcu, Air, Disturbance

\* The firmware implements the abstract lock: every step opens, turns, seals or
\* forgets as Lock allows, or changes nothing of it.
THEOREM FirmwareKeepsPromise == Spec => KeepsPromise
<1>1. Init => Promise!Init
  BY DEF Init, Promise!Init, NoKey, Promise!NoKey
<1>2. Inv /\ [Next]_vars => [Promise!Next]_(Promise!vars)
  <2> SUFFICES ASSUME Inv, [Next]_vars
               PROVE  Promise!Next \/ UNCHANGED Promise!vars
    OBVIOUS
  <2>1. CASE UNCHANGED vars
    BY <2>1 DEF vars, sram, history, Promise!vars
  <2>2. CASE Next
    BY <2>2, PromiseOther, PromiseTicket, PromiseRequest, InvisibleStutters
  <2> QED
    BY <2>1, <2>2
<1> QED
  BY <1>1, <1>2, Invariance, PTL DEF Spec, KeepsPromise, Promise!Spec
=============================================================================
