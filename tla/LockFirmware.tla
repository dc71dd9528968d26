---------------------------- MODULE LockFirmware ----------------------------
(***************************************************************************)
(* The lock: the AVR firmware (main.c) and the BLE module it drives over   *)
(* the UART, facing a phone that may write any message of `Messages`.      *)
(*                                                                         *)
(* main() alternates fsm_process() and ble_process_packet(); `turn` says   *)
(* which comes next, and splits the calls that take long enough to be cut  *)
(* by a loss of power: "open" lies between the EEPROM write and the        *)
(* decryption of a ticket, "respond" between the start of a request's      *)
(* rotation and its response, "sleep" is power_down(), and "overrun" is    *)
(* reached when a part has been copied past the end of msg_buf.            *)
(*                                                                         *)
(* Every ticket carries a fresh session key, so a key is named by the      *)
(* nonce of the ticket that carries it.  A message authenticates when its  *)
(* `key` is the one the lock opens it with.                                *)
(***************************************************************************)
EXTENDS Integers, Sequences, FiniteSets

CONSTANTS
  TicketNonces,   \* nonces of the tickets a phone may hold
  RequestNonces,  \* session nonces a request may carry
  Ops,            \* request codes a phone may send
  Faults,         \* the faults of this instance, a subset of FaultKinds
  MaxFaults,      \* bound: how many of them may happen
  MaxQueue        \* bound: events that may wait in the UART ring

FaultKinds == {"power", "soft", "module", "params", "write"}

ASSUME NoncesAssumption ==
  /\ TicketNonces \subseteq Nat \ {0}
  /\ RequestNonces \subseteq Nat \ {0}

ASSUME FaultsAssumption ==
  /\ Faults \subseteq FaultKinds
  /\ MaxFaults \in Nat
  /\ MaxQueue \in Nat

-----------------------------------------------------------------------------
(* Messages: a long attribute write reaches the lock in parts.             *)

TICKET_LEN == 72
REQUEST_LEN == 41
MAX_MESSAGE_LEN == TICKET_LEN

NoKey == 0          \* sealed under no key this lock knows
RotateOps == {"ROTATE_CW", "ROTATE_CCW"}

Tickets ==
  {t \in [kind : {"ticket"}, key : TicketNonces \cup {NoKey}, nonce : TicketNonces, op : {"none"}] :
     t.key \in {t.nonce, NoKey}}
Requests ==
  [kind : {"request"}, key : TicketNonces, nonce : RequestNonces, op : Ops]
Messages == Tickets \cup Requests

\* Bytes of each part: a prepared write carries 18 bytes of its value.
PartLens(m) == IF m.kind = "ticket" THEN <<18, 18, 18, 18>> ELSE <<18, 18, 5>>
PartsOf(m) == [i \in 1..Len(PartLens(m)) |-> [m |-> m, i |-> i]]
Parts == {p \in [m : Messages, i : 1..4] : p.i <= Len(PartLens(p.m))}

\* The reading the lock makes of its buffer: one whole message, or a mixture
\* of several, whose first 24 bytes may be any nonce and which never opens.
Whole(parts) == parts # <<>> /\ parts = PartsOf(parts[1].m)
Readings(parts) ==
  IF Whole(parts) THEN {parts[1].m}
  ELSE [kind : {"mixture"}, key : {NoKey}, nonce : TicketNonces \cup RequestNonces, op : {"none"}]

-----------------------------------------------------------------------------
States ==
  {"BLE_BOOT_W", "BLE_BOOT", "SYSTEM_ADDRESS_GET_W", "SYSTEM_ADDRESS_GET",
   "ADV_PARAM_SET_W", "ADV_PARAM_SET", "ADV_DATA_SET_W", "ADV_DATA_SET",
   "ADV_SR_DATA_SET_W", "ADV_SR_DATA_SET", "ADVERTISING_W", "ADVERTISING",
   "CONNECTED", "TICKET", "REQUEST_W", "REQUEST", "DISCONNECTED"}

\* The states fsm_process() leaves alone.
Idle == {"BLE_BOOT_W", "SYSTEM_ADDRESS_GET_W", "ADV_PARAM_SET_W", "ADV_DATA_SET_W",
         "ADV_SR_DATA_SET_W", "ADVERTISING_W", "CONNECTED", "REQUEST_W"}

Codes == {"TICKET_RCV_SUCCESS", "LOCKED", "UNLOCKED", "INVALID_REQUEST"}
Responses == [key : TicketNonces, nonce : Nat, code : Codes]
NoResponse == [key |-> NoKey, nonce |-> 0, code |-> "INVALID_REQUEST"]

(* Packets of the module and commands to it.                               *)
Plain(t) == [t |-> t]
Status(flags) == [t |-> "status", flags |-> flags]
Value(part) == [t |-> "value", part |-> part]
Written(ok) == [t |-> "write", ok |-> ok]
Packets ==
  [t : {"boot", "address", "params", "data", "mode", "disconnected"}]
    \cup [t : {"status"}, flags : SUBSET (0..3)]
    \cup [t : {"value"}, part : Parts]
    \cup [t : {"write"}, ok : BOOLEAN]

Command(c) == [c |-> c]
WriteSection(n, rsp) == [c |-> "write", n |-> n, rsp |-> rsp]
Commands ==
  [c : {"address", "params", "data", "scan", "mode"}]
    \cup [c : {"write"}, n : 1..3, rsp : Responses \cup {NoResponse}]

Turns == {"fsm", "pkt", "open", "respond", "sleep", "overrun"}

VARIABLES
  state,          \* enum states
  turn,           \* where main() is
  msgBuf,         \* msg_buf: its length in bytes and the parts it holds
  sessionKey,     \* session_key
  sessionNonce,   \* session_nonce
  attWrite,       \* att_write_buffer
  masterNonce,    \* master_nonce_eeprom: survives every restart
  toBle,          \* commands on their way to the module
  toMcu,          \* packets on their way to the MCU: in the ring, then in the module
  link,           \* a phone is connected to the module
  advertising,    \* the module advertises
  advSetup,       \* advertising settings the module has been given
  air,            \* parts of the phone's write the module has yet to report
  delivered,      \* packets of toMcu in the ring when the MCU fell asleep
  faults,         \* faults so far
  opened,         \* history: nonces of the tickets that opened a session
  rotated,        \* history: <<key, nonce>> of the requests that turned the motor
  sealed          \* history: <<key, nonce>> under which the lock encrypted

sram == <<state, turn, msgBuf, sessionKey, sessionNonce, attWrite>>
session == <<sessionKey, sessionNonce>>
module == <<link, advertising, advSetup, air, delivered>>
history == <<opened, rotated, sealed>>
vars == <<sram, masterNonce, toBle, toMcu, module, faults, history>>

EmptyBuf == [len |-> 0, data |-> <<>>]

McuTypeOK ==
  /\ state \in States
  /\ turn \in Turns
  /\ msgBuf \in [len : Nat, data : Seq(Parts)]
  /\ sessionKey \in TicketNonces \cup {NoKey}
  /\ sessionNonce \in Nat
  /\ attWrite \in [section : 0..2, rsp : Responses \cup {NoResponse}]
  /\ masterNonce \in Nat

UartTypeOK == toBle \in Seq(Commands) /\ toMcu \in Seq(Packets)

ModuleTypeOK ==
  /\ link \in BOOLEAN /\ advertising \in BOOLEAN
  /\ advSetup \subseteq {"params", "data", "scan"}
  /\ air \in Seq(Parts)
  /\ delivered \in Nat /\ faults \in Nat

HistoryTypeOK ==
  /\ opened \subseteq TicketNonces
  /\ rotated \subseteq TicketNonces \X Nat
  /\ sealed \subseteq TicketNonces \X Nat

\* The types; in particular the sections of a response stay in its buffer
\* (ble_rsp_attributes_write()).
TypeOK == McuTypeOK /\ UartTypeOK /\ ModuleTypeOK /\ HistoryTypeOK

Init ==
  /\ state = "BLE_BOOT_W" /\ turn = "fsm"
  /\ msgBuf = EmptyBuf
  /\ sessionKey = NoKey /\ sessionNonce = 0
  /\ attWrite = [section |-> 0, rsp |-> NoResponse]
  /\ masterNonce = 0
  /\ toBle = <<>> /\ toMcu = <<Plain("boot")>>
  /\ link = FALSE /\ advertising = FALSE /\ advSetup = {} /\ air = <<>>
  /\ delivered = 0 /\ faults = 0
  /\ opened = {} /\ rotated = {} /\ sealed = {}

-----------------------------------------------------------------------------
(* fsm_process(): one action per case of its switch.                       *)

\* A case that sends one command and waits for its response.
Sends(from, c, to) ==
  /\ turn = "fsm" /\ state = from
  /\ toBle' = Append(toBle, Command(c))
  /\ state' = to /\ turn' = "pkt"
  /\ UNCHANGED <<attWrite, session, masterNonce, toMcu, module, faults, history>>

FsmBleBoot ==
  /\ Sends("BLE_BOOT", "address", "SYSTEM_ADDRESS_GET_W") /\ UNCHANGED msgBuf
FsmSystemAddressGet ==
  /\ Sends("SYSTEM_ADDRESS_GET", "params", "ADV_PARAM_SET_W") /\ UNCHANGED msgBuf
FsmAdvParamSet ==
  /\ Sends("ADV_PARAM_SET", "data", "ADV_DATA_SET_W") /\ UNCHANGED msgBuf
FsmAdvDataSet ==
  /\ Sends("ADV_DATA_SET", "scan", "ADV_SR_DATA_SET_W") /\ UNCHANGED msgBuf
FsmAdvSrDataSet ==
  /\ Sends("ADV_SR_DATA_SET", "mode", "ADVERTISING_W") /\ UNCHANGED msgBuf

\* Mutant of FsmDisconnected: the buffer is not reset.
FsmDisconnectedKeepsBuffer ==
  /\ Sends("DISCONNECTED", "params", "ADV_PARAM_SET_W") /\ UNCHANGED msgBuf
\* Mutant of FsmDisconnected: nothing restarts the advertising.
FsmDisconnectedSilent ==
  /\ turn = "fsm" /\ state = "DISCONNECTED"
  /\ state' = "ADV_PARAM_SET_W" /\ turn' = "pkt" /\ msgBuf' = EmptyBuf
  /\ UNCHANGED <<toBle, attWrite, session, masterNonce, toMcu, module, faults, history>>
FsmDisconnected ==
  /\ Sends("DISCONNECTED", "params", "ADV_PARAM_SET_W") /\ msgBuf' = EmptyBuf

FsmIdle ==
  /\ turn = "fsm" /\ state \in Idle
  /\ turn' = "pkt"
  /\ UNCHANGED <<state, msgBuf, session, attWrite, masterNonce, toBle, toMcu, module,
                 faults, history>>

\* power_down(): the MCU no longer takes packets and sleeps until the module
\* pulls the wake-up pin low, which it does while it holds packets for the MCU.
\* Those already in the ring wake nobody.
FsmAdvertising ==
  /\ turn = "fsm" /\ state = "ADVERTISING"
  /\ turn' = "sleep"
  /\ \E k \in 0..Len(toMcu) : delivered' = k
  /\ UNCHANGED <<state, msgBuf, session, attWrite, masterNonce, toBle, toMcu, link,
                 advertising, advSetup, air, faults, history>>

WakeUp ==
  /\ turn = "sleep" /\ Len(toMcu) > delivered
  /\ turn' = "pkt" /\ delivered' = 0
  /\ UNCHANGED <<state, msgBuf, session, attWrite, masterNonce, toBle, toMcu, link,
                 advertising, advSetup, air, faults, history>>

-----------------------------------------------------------------------------
(* process_ticket_msg(), and the reset its caller does when it fails.      *)

IsValidTicketNonce(nonce) == nonce > masterNonce

FailTicket ==
  /\ state' = "CONNECTED" /\ turn' = "pkt" /\ msgBuf' = EmptyBuf
  /\ UNCHANGED <<session, attWrite, masterNonce, toBle, toMcu, module, faults,
                 history>>

RefuseTicket ==
  /\ turn = "fsm" /\ state = "TICKET"
  /\ \E m \in Readings(msgBuf.data) : ~IsValidTicketNonce(m.nonce)
  /\ FailTicket

\* Mutant of StoreTicketNonce: the nonce is checked but never written.
StoreTicketNonceForgets ==
  /\ turn = "fsm" /\ state = "TICKET"
  /\ \E m \in Readings(msgBuf.data) : IsValidTicketNonce(m.nonce)
  /\ turn' = "open"
  /\ UNCHANGED <<state, msgBuf, session, attWrite, masterNonce, toBle, toMcu, module,
                 faults, history>>
\* The nonce is stored before the ticket is authenticated.
StoreTicketNonce ==
  /\ turn = "fsm" /\ state = "TICKET"
  /\ \E m \in Readings(msgBuf.data) :
       IsValidTicketNonce(m.nonce) /\ masterNonce' = m.nonce
  /\ turn' = "open"
  /\ UNCHANGED <<state, msgBuf, session, attWrite, toBle, toMcu, module, faults,
                 history>>

Buffered == msgBuf.data[1].m

\* The buffer holds one whole message of this kind, sealed under this key.
Opens(kind, key) ==
  Whole(msgBuf.data) /\ Buffered.kind = kind /\ Buffered.key = key

TicketOpens == Opens("ticket", Buffered.nonce)

ForgedTicket ==
  /\ turn = "open" /\ ~TicketOpens
  /\ FailTicket

\* reset_msg_buffer(), then the first 20 bytes of the sealed response; the
\* rest waits for ble_rsp_attributes_write().
Respond(key, nonce, code) ==
  LET rsp == [key |-> key, nonce |-> nonce, code |-> code] IN
  /\ sealed' = sealed \cup {<<key, nonce>>}
  /\ msgBuf' = EmptyBuf
  /\ attWrite' = [section |-> 0, rsp |-> rsp]
  /\ toBle' = Append(toBle, WriteSection(1, rsp))
  /\ turn' = "pkt"

OpenSession ==
  /\ turn = "open" /\ TicketOpens
  /\ sessionKey' = Buffered.key /\ sessionNonce' = 1
  /\ opened' = opened \cup {Buffered.nonce}
  /\ state' = "REQUEST_W"
  /\ Respond(Buffered.key, 1, "TICKET_RCV_SUCCESS")
  /\ UNCHANGED <<masterNonce, toMcu, module, faults, rotated>>

-----------------------------------------------------------------------------
(* process_request_msg(), and the reset its caller does when it fails.     *)

\* Mutant of IsValidSessionNonce: greater or equal.
IsValidSessionNonceOrEqual(nonce) == nonce >= sessionNonce
IsValidSessionNonce(nonce) == nonce > sessionNonce

RequestOpens == Opens("request", sessionKey)

\* Mutant of FailRequest: a failed request ends the session.
FailRequestEndsSession ==
  /\ state' = "CONNECTED" /\ turn' = "pkt" /\ msgBuf' = EmptyBuf
  /\ UNCHANGED <<sessionKey, attWrite, masterNonce, toBle, toMcu, module, faults, history>>
FailRequest ==
  /\ state' = "REQUEST_W" /\ turn' = "pkt" /\ msgBuf' = EmptyBuf
  /\ UNCHANGED <<sessionKey, attWrite, masterNonce, toBle, toMcu, module, faults,
                 history>>

RefuseRequest ==
  /\ turn = "fsm" /\ state = "REQUEST"
  /\ \E m \in Readings(msgBuf.data) : ~IsValidSessionNonce(m.nonce)
  /\ FailRequest /\ UNCHANGED sessionNonce

\* The nonce is taken before the request is authenticated.
ForgedRequest ==
  /\ turn = "fsm" /\ state = "REQUEST" /\ ~RequestOpens
  /\ \E m \in Readings(msgBuf.data) :
       IsValidSessionNonce(m.nonce) /\ sessionNonce' = m.nonce
  /\ FailRequest

\* The rotation starts; any other code goes straight to its response.
StartRequest ==
  /\ turn = "fsm" /\ state = "REQUEST" /\ RequestOpens
  /\ IsValidSessionNonce(Buffered.nonce)
  /\ sessionNonce' = Buffered.nonce
  /\ rotated' = IF Buffered.op \in RotateOps
                THEN rotated \cup {<<sessionKey, Buffered.nonce>>} ELSE rotated
  /\ state' = "REQUEST_W" /\ turn' = "respond"
  /\ UNCHANGED <<msgBuf, sessionKey, attWrite, masterNonce, toBle, toMcu, module, faults, opened, sealed>>

ResponseCode(op) ==
  CASE op = "ROTATE_CW" -> "LOCKED"
    [] op = "ROTATE_CCW" -> "UNLOCKED"
    [] OTHER -> "INVALID_REQUEST"

\* Mutant of IncrementArray: the response reuses the nonce of the request.
IncrementArrayStays(nonce) == nonce
IncrementArray(nonce) == nonce + 1

\* The motor has stopped: the lock answers under the next nonce.
RespondRequest ==
  /\ turn = "respond"
  /\ sessionNonce' = IncrementArray(sessionNonce)
  /\ Respond(sessionKey, IncrementArray(sessionNonce), ResponseCode(Buffered.op))
  /\ UNCHANGED <<state, sessionKey, masterNonce, toMcu, module, faults, opened,
                 rotated>>

Fsm ==
  \/ FsmBleBoot \/ FsmSystemAddressGet \/ FsmAdvParamSet \/ FsmAdvDataSet
  \/ FsmAdvSrDataSet \/ FsmDisconnected \/ FsmIdle \/ FsmAdvertising \/ WakeUp
  \/ RefuseTicket \/ StoreTicketNonce \/ ForgedTicket \/ OpenSession
  \/ RefuseRequest \/ ForgedRequest \/ StartRequest \/ RespondRequest

-----------------------------------------------------------------------------
(* ble_process_packet(): one action per handler.                           *)

Receive(t) ==
  /\ turn = "pkt" /\ toMcu # <<>> /\ Head(toMcu).t = t
  /\ toMcu' = Tail(toMcu)
  /\ UNCHANGED <<session, masterNonce, module, faults, history>>

\* Handlers that only set the state.
Lands(t, next) ==
  /\ Receive(t) /\ state' = next /\ turn' = "fsm"
  /\ UNCHANGED <<msgBuf, attWrite, toBle>>

EvtSystemBoot == Lands("boot", "BLE_BOOT")
RspSystemAddressGet == Lands("address", "SYSTEM_ADDRESS_GET")
RspSetAdvParameters == Lands("params", "ADV_PARAM_SET")
RspSetMode == Lands("mode", "ADVERTISING")
EvtDisconnected == Lands("disconnected", "DISCONNECTED")

\* Mutant of RspSetAdvData: the scan response is taken for already set.
RspSetAdvDataSkips == Lands("data", "ADV_SR_DATA_SET")
RspSetAdvData ==
  Lands("data", CASE state = "ADV_DATA_SET_W" -> "ADV_DATA_SET"
                  [] state = "ADV_SR_DATA_SET_W" -> "ADV_SR_DATA_SET"
                  [] OTHER -> state)

\* Mutant of EvtConnectionStatus: the wrong bit of the flags.
EvtConnectionStatusEncrypted ==
  /\ Receive("status") /\ turn' = "fsm"
  /\ state' = IF 1 \in Head(toMcu).flags THEN "CONNECTED" ELSE state
  /\ UNCHANGED <<msgBuf, attWrite, toBle>>
\* flags & 5: bit 0 is "connected", bit 2 "completed".
EvtConnectionStatus ==
  /\ Receive("status") /\ turn' = "fsm"
  /\ state' = IF Head(toMcu).flags \cap {0, 2} # {} THEN "CONNECTED" ELSE state
  /\ UNCHANGED <<msgBuf, attWrite, toBle>>

\* memcpy to msg_buf, and a length that must match exactly.
EvtAttributesValue ==
  /\ Receive("value")
  /\ LET part == Head(toMcu).part
         len == msgBuf.len + PartLens(part.m)[part.i]
     IN /\ msgBuf' = [len |-> len, data |-> Append(msgBuf.data, part)]
        /\ turn' = IF len > MAX_MESSAGE_LEN THEN "overrun" ELSE "fsm"
        /\ state' = CASE state = "CONNECTED" /\ len = TICKET_LEN -> "TICKET"
                      [] state = "REQUEST_W" /\ len = REQUEST_LEN -> "REQUEST"
                      [] OTHER -> state
  /\ UNCHANGED <<attWrite, toBle>>

\* Mutant of RspAttributesWrite: it never stops sending sections.
RspAttributesWriteUnbounded ==
  /\ Receive("write") /\ turn' = "fsm"
  /\ toBle' = Append(toBle, WriteSection(attWrite.section + 2, attWrite.rsp))
  /\ attWrite' = [attWrite EXCEPT !.section = @ + 1]
  /\ UNCHANGED <<state, msgBuf>>
\* The second and the third section of a response.
RspAttributesWrite ==
  /\ Receive("write") /\ turn' = "fsm"
  /\ IF Head(toMcu).ok /\ attWrite.section < 2
     THEN /\ toBle' = Append(toBle, WriteSection(attWrite.section + 2, attWrite.rsp))
          /\ attWrite' = [attWrite EXCEPT !.section = @ + 1]
     ELSE UNCHANGED <<toBle, attWrite>>
  /\ UNCHANGED <<state, msgBuf>>

\* uart_rx() times out on an empty ring.
RxTimeout ==
  /\ turn = "pkt" /\ toMcu = <<>>
  /\ turn' = "fsm"
  /\ UNCHANGED <<state, msgBuf, session, attWrite, masterNonce, toBle, toMcu, module,
                 faults, history>>

Packet ==
  \/ EvtSystemBoot \/ RspSystemAddressGet \/ RspSetAdvParameters \/ RspSetAdvData
  \/ RspSetMode \/ EvtDisconnected \/ EvtConnectionStatus \/ EvtAttributesValue
  \/ RspAttributesWrite \/ RxTimeout

-----------------------------------------------------------------------------
(* The BLE module: it runs one command at a time and answers each.         *)

\* Once a part has been copied past the end of msg_buf, the memory of the MCU
\* is anyone's guess: the model goes no further until the power goes.
Running == turn # "overrun"

Executes(c) ==
  /\ Running /\ toBle # <<>> /\ Head(toBle).c = c
  /\ toBle' = Tail(toBle)
  /\ UNCHANGED <<sram, masterNonce, link, air, delivered, history>>

Answers(packet) == toMcu' = Append(toMcu, packet)

ModuleAddressGet ==
  /\ Executes("address") /\ Answers(Plain("address"))
  /\ UNCHANGED <<advertising, advSetup, faults>>
ModuleSetAdvParameters ==
  /\ Executes("params") /\ Answers(Plain("params"))
  /\ advSetup' = advSetup \cup {"params"}
  /\ UNCHANGED <<advertising, faults>>
ModuleSetAdvData ==
  \E c \in {"data", "scan"} :
    /\ Executes(c) /\ Answers(Plain("data"))
    /\ advSetup' = advSetup \cup {c}
    /\ UNCHANGED <<advertising, faults>>
ModuleSetMode ==
  /\ Executes("mode") /\ Answers(Plain("mode"))
  /\ advertising' = ~link
  /\ UNCHANGED <<advSetup, faults>>
\* The attribute is written and, when a phone is connected, notified to it.
ModuleWrite ==
  /\ Executes("write") /\ Answers(Written(TRUE))
  /\ UNCHANGED <<advertising, advSetup, faults>>

ModuleRuns ==
  ModuleAddressGet \/ ModuleSetAdvParameters \/ ModuleSetAdvData \/ ModuleSetMode
  \/ ModuleWrite

\* What reaches the module over the air.
Events(packet) ==
  /\ Running /\ Len(toMcu) < MaxQueue
  /\ toMcu' = Append(toMcu, packet)
  /\ UNCHANGED <<sram, masterNonce, toBle, advSetup, delivered, history>>

Connect ==
  /\ advertising
  /\ Events(Status({0, 2}))
  /\ link' = TRUE /\ advertising' = FALSE
  /\ UNCHANGED <<air, faults>>

\* What was still in the air is lost.
Disconnect ==
  /\ link
  /\ Events(Plain("disconnected"))
  /\ link' = FALSE /\ air' = <<>>
  /\ UNCHANGED <<advertising, faults>>

\* The phone starts a long write once the module has the previous one.
PhoneWrites(m) ==
  /\ Running /\ link /\ air = <<>>
  /\ air' = PartsOf(m)
  /\ UNCHANGED <<sram, masterNonce, toBle, toMcu, link, advertising, advSetup, delivered,
                 faults, history>>

PartArrives ==
  /\ air # <<>>
  /\ Events(Value(Head(air)))
  /\ air' = Tail(air)
  /\ UNCHANGED <<link, advertising, faults>>

-----------------------------------------------------------------------------
(* Disturbances, each counted against MaxFaults.                           *)

Fault(kind) ==
  /\ kind \in Faults /\ faults < MaxFaults
  /\ faults' = faults + 1

\* Connection parameters change on a live connection: "connected" (bit 0) is
\* reported together with "parameters_change" (bit 3).
ParametersChange ==
  /\ Fault("params") /\ link
  /\ Events(Status({0, 3}))
  /\ UNCHANGED <<link, advertising, air>>

\* The module refuses an attribute write.
WriteFails ==
  /\ Fault("write")
  /\ Executes("write") /\ Answers(Written(FALSE))
  /\ UNCHANGED <<advertising, advSetup>>

ModuleLosesAll ==
  /\ link' = FALSE /\ advertising' = FALSE /\ advSetup' = {} /\ air' = <<>>
  /\ toBle' = <<>>

\* The module alone browns out: the connection goes without an event.
ModuleReboot ==
  /\ Fault("module") /\ Running
  /\ ModuleLosesAll
  /\ toMcu' = Append(toMcu, Plain("boot"))
  /\ UNCHANGED <<sram, masterNonce, delivered, history>>

\* main() from the top: SRAM is cleared, the hard reset, taken to work here,
\* reboots the module.
Main ==
  /\ state' = "BLE_BOOT_W" /\ turn' = "fsm"
  /\ msgBuf' = EmptyBuf
  /\ sessionKey' = NoKey /\ sessionNonce' = 0
  /\ attWrite' = [section |-> 0, rsp |-> NoResponse]
  /\ ModuleLosesAll
  /\ toMcu' = <<Plain("boot")>> /\ delivered' = 0

\* Mutant of PowerLoss: the master nonce lives in SRAM.
PowerLossForgets ==
  /\ Fault("power") /\ Main /\ masterNonce' = 0
  /\ UNCHANGED history
PowerLoss ==
  /\ Fault("power") /\ Main
  /\ UNCHANGED <<masterNonce, history>>

\* ble_process_packet() or ble_send_packet() fails: the watchdog resets the MCU.
SoftReset ==
  /\ Fault("soft") /\ turn \in {"fsm", "pkt", "respond"} /\ Main
  /\ UNCHANGED <<masterNonce, history>>

-----------------------------------------------------------------------------
Mcu == Fsm \/ Packet
Air == Connect \/ Disconnect \/ PartArrives \/ \E m \in Messages : PhoneWrites(m)
Disturbance == ParametersChange \/ WriteFails \/ ModuleReboot \/ PowerLoss \/ SoftReset

Next == Mcu \/ ModuleRuns \/ Air \/ Disturbance

Spec == Init /\ [][Next]_vars

\* main() never stops looping and the module answers every command.
Fairness == WF_vars(Mcu) /\ WF_vars(ModuleRuns)
FairSpec == Spec /\ Fairness

-----------------------------------------------------------------------------
(* Properties.                                                             *)

\* What the lock promises (Lock.tla), in the variables of the firmware.
Promise ==
  INSTANCE Lock WITH
    Nonces <- TicketNonces \cup RequestNonces, master <- masterNonce,
    key <- sessionKey, nonce <- sessionNonce

\* The firmware keeps the promise of the lock: a session is opened, the motor
\* turned and a response sealed only as one of its counters grows, and the
\* master nonce is stored before the ticket opens anything (process_ticket_msg(),
\* process_request_msg(), main()).
KeepsPromise == Promise!Spec

\* A ticket opens a session at most once and only after every older one:
\* whatever restarts, disconnections and retries come between, the ticket
\* that opens a session is newer than all that did before it
\* (process_ticket_msg() and the nonce it keeps in EEPROM).
TicketsInOrder == [][OpenSession => \A n \in opened : n < Buffered.nonce]_vars

\* The motor turns at most once for a request: no request is carried out
\* twice under the same key and nonce, across sessions and restarts
\* (process_request_msg()).
RotateOnce ==
  [][StartRequest /\ Buffered.op \in RotateOps
       => <<sessionKey, Buffered.nonce>> \notin rotated]_vars

\* The lock never seals two responses under the same key and nonce, nor a
\* response under a nonce on which it has carried out a request: a stream
\* cipher gives both plaintexts away if it does.
NonceUsedOnce ==
  [][/\ OpenSession => <<Buffered.key, 1>> \notin sealed \cup rotated
     /\ RespondRequest => <<sessionKey, sessionNonce'>> \notin sealed \cup rotated
     /\ StartRequest => <<sessionKey, sessionNonce'>> \notin sealed]_vars

\* The motor only turns for a session that a ticket opened, and with the
\* newest key (fsm_process() and process_ticket_msg()).
NewestSession ==
  state \in {"REQUEST_W", "REQUEST"} =>
    sessionKey \in opened /\ \A n \in opened : n <= sessionKey

\* A connection never starts with parts of an older message in msg_buf
\* (fsm_process(), case DISCONNECTED).
FreshConnection ==
  [][EvtConnectionStatus /\ ~(3 \in Head(toMcu).flags) => msgBuf = EmptyBuf]_vars

\* The module only advertises once it has all its settings, in particular
\* the scan response with the address the app looks for.
AdvertisesComplete == advertising => advSetup = {"params", "data", "scan"}

\* When every command and event has been dealt with and a phone is connected,
\* the firmware is in a state that takes the phone's messages: no late
\* response of the module has moved it elsewhere.
ServesLink ==
  link /\ turn \in {"pkt", "sleep"} /\ toMcu = <<>> /\ toBle = <<>>
    => state \in {"CONNECTED", "REQUEST_W"}

\* "When a new connection to the bluetooth module is made the MCU does
\* nothing": the events of a connection leave an open session alone, which
\* only a disconnection or a reboot of the module ends.
SessionKept ==
  [][Mcu /\ state \in {"REQUEST_W", "REQUEST"}
       => state' \in {"REQUEST_W", "REQUEST", "DISCONNECTED", "BLE_BOOT"}]_vars

\* "This function should be called after the ticket has completely been
\* received": process_ticket_msg() finds one whole ticket in msg_buf.
TicketComplete == state = "TICKET" => Whole(msgBuf.data) /\ Buffered.kind = "ticket"

\* The MCU sleeps with packets in the ring that it has not read.
Deaf == turn = "sleep" /\ toMcu # <<>>

\* A phone is connected, and the firmware is in a state that takes its messages.
PhoneServed == link /\ state \in {"CONNECTED", "TICKET", "REQUEST_W", "REQUEST"}

\* The module has rebooted, and not because main() restarted.
Rebooted == state # "BLE_BOOT_W" /\ \E i \in 1..Len(toMcu) : toMcu[i].t = "boot"

\* Whatever the order of restarts, connections, refused writes and changes of
\* parameters, the lock is available again and again: it advertises, or it is
\* connected and in a state that takes the phone's messages; a link to a lock
\* that waits for something else does not count (the waiting states of
\* fsm_process() and the handlers that leave them).  Three exceptions: msg_buf
\* has been overrun, after which the model stops; the MCU sleeps over packets
\* it has not read; or the module has rebooted on its own, a stale response
\* has put the FSM in a state of the configuration, and a phone holds on to
\* that link for ever.
Reachable ==
  \/ []<>(advertising \/ PhoneServed \/ turn = "overrun" \/ Deaf)
  \/ <>Rebooted /\ <>[]link

\* "It continously listens for incoming packets.  When a packet is received
\* it will trigger the appropriate handler": the MCU does not stay asleep
\* over a packet it has received (power_down() only tests the wake-up pin).
PacketsHandled == Deaf ~> ~Deaf
=============================================================================
