------------------------------- MODULE Bgapi -------------------------------
(***************************************************************************)
(* BGAPI, the binary protocol between the MCU and the BLE module, as the    *)
(* vendor's bindings have it (cmd_def.c, cmd_def.h, stubs.c).  A message is *)
(* a header (type, length of the payload, class, number within the class)  *)
(* and a payload of fixed parameters, of which the last may be an array.   *)
(*                                                                         *)
(* The tables keep what the code computes with: for each message the       *)
(* payload length its header starts from and the kinds of its parameters.  *)
(***************************************************************************)
EXTENDS Integers, Sequences

-----------------------------------------------------------------------------
(* Kinds of parameters.                                                    *)

U8 == "uint8"
I8 == "int8"
U16 == "uint16"
I16 == "int16"
U32 == "uint32"
Arr == "uint8array"
Addr == "hwaddr"

\* Bytes ble_send_message() puts in the packet for a parameter: for an array
\* only its length, the data follow the packet.
ParameterSize ==
  [uint8 |-> 1, int8 |-> 1, uint16 |-> 2, int16 |-> 2, uint32 |-> 4, uint8array |-> 1,
   hwaddr |-> 6]

-----------------------------------------------------------------------------
(* apis: the rows of each class, <<lolen, parameters>>, by message number. *)

SystemCommands == << <<1, U8>>, <<0>>, <<0>>, <<3, U16, U8>>, <<2, U16>>, <<0>>, <<0>>,
  <<5, U32, U8>>, <<0>>, <<2, U8, Arr>>, <<7, Addr, U8>>, <<7, Addr, U8>>, <<0>>,
  <<2, U8, U8>>, <<3, U8, U8, U8>>, <<1, Arr>>, <<1, Arr>>, <<1, Arr>> >>
FlashCommands == << <<0>>, <<0>>, <<0>>, <<3, U16, Arr>>, <<2, U16>>, <<2, U16>>,
  <<1, U8>>, <<5, U32, Arr>>, <<5, U32, U8>> >>
AttributesCommands == << <<4, U16, U8, Arr>>, <<4, U16, U16>>, <<2, U16>>,
  <<3, U8, U8, Arr>>, <<2, U8, U8>>, <<4, U8, U16, Arr>> >>
ConnectionCommands == << <<1, U8>>, <<1, U8>>, <<9, U8, U16, U16, U16, U16>>, <<1, U8>>,
  <<1, U8>>, <<2, U8, Arr>>, <<1, U8>>, <<1, U8>>, <<2, U8, Arr>> >>
AttclientCommands == << <<8, U8, U16, U16, U16, Arr>>, <<6, U8, U16, U16, Arr>>,
  <<6, U8, U16, U16, Arr>>, <<5, U8, U16, U16>>, <<3, U8, U16>>, <<4, U8, U16, Arr>>,
  <<4, U8, U16, Arr>>, <<1, U8>>, <<3, U8, U16>>, <<6, U8, U16, U16, Arr>>,
  <<2, U8, U8>>, <<2, U8, Arr>> >>
SmCommands == << <<2, U8, U8>>, <<1, U8>>, <<1, U8>>, <<3, U8, U8, U8>>, <<5, U8, U32>>,
  <<0>>, <<1, Arr>>, <<0>> >>
GapCommands == << <<2, U8, U8>>, <<2, U8, U8>>, <<1, U8>>,
  <<15, Addr, U8, U16, U16, U16, U16>>, <<0>>, <<8, U16, U16, U16, U16>>,
  <<3, U8, U8, U8>>, <<5, U16, U16, U8>>, <<5, U16, U16, U8>>, <<2, U8, Arr>>,
  <<7, Addr, U8>> >>
HardwareCommands == << <<3, U8, U8, U8>>, <<6, U32, U8, U8>>, <<3, U8, U8, U8>>,
  <<2, U8, U8>>, <<2, U8, U8>>, <<3, U8, U8, U8>>, <<3, U8, U8, U8>>, <<2, U8, U8>>,
  <<6, U8, U8, U8, U8, U8, U8>>, <<2, U8, Arr>>, <<3, U8, U8, U8>>, <<3, U8, U8, Arr>>,
  <<1, U8>>, <<5, U8, U8, U8, U16>>, <<2, U8, U8>>, <<2, U8, U8>>, <<1, U8>>, <<0>>,
  <<1, U8>>, <<1, U8>>, <<1, U8>> >>
TestCommands == << <<3, U8, U8, U8>>, <<1, U8>>, <<0>>, <<0>>, <<0>>, <<1, Arr>>,
  <<1, U8>> >>
DfuCommands == << <<1, U8>>, <<4, U32>>, <<1, Arr>>, <<0>> >>

SystemResponses == << <<0>>, <<0>>, <<6, Addr>>, <<2, U16>>, <<3, U16, U8>>,
  <<5, U8, U8, U8, U8, U8>>, <<1, U8>>, <<5, U32, Arr>>,
  <<12, U16, U16, U16, U16, U16, U8, U8>>, <<2, U16>>, <<2, U16>>, <<2, U16>>, <<0>>,
  <<3, U16, Arr>>, <<2, U16>>, <<0>>, <<1, Arr>>, <<1, Arr>> >>
FlashResponses == << <<0>>, <<0>>, <<0>>, <<2, U16>>, <<3, U16, Arr>>, <<0>>,
  <<2, U16>>, <<2, U16>>, <<1, Arr>> >>
AttributesResponses == << <<2, U16>>, <<7, U16, U16, U16, Arr>>, <<5, U16, U16, Arr>>,
  <<0>>, <<0>>, <<2, U16>> >>
ConnectionResponses == << <<3, U8, U16>>, <<2, U8, I8>>, <<3, U8, U16>>, <<3, U8, U16>>,
  <<2, U8, Arr>>, <<3, U8, U16>>, <<3, U8, U16>>, <<1, U8>>, <<1, U8>> >>
AttclientResponses == << <<3, U8, U16>>, <<3, U8, U16>>, <<3, U8, U16>>, <<3, U8, U16>>,
  <<3, U8, U16>>, <<3, U8, U16>>, <<3, U8, U16>>, <<2, U16>>, <<3, U8, U16>>,
  <<3, U8, U16>>, <<3, U8, U16>>, <<3, U8, U16>> >>
SmResponses == << <<3, U8, U16>>, <<0>>, <<2, U16>>, <<0>>, <<2, U16>>, <<1, U8>>,
  <<0>>, <<3, U16, U8>> >>
\* Mutant of GapResponses: the response of set_mode carries no result.
GapResponsesNoResult == << <<0>>, <<0>>, <<2, U16>>, <<3, U16, U8>>, <<2, U16>>,
  <<3, U16, U8>>, <<2, U16>>, <<2, U16>>, <<2, U16>>, <<2, U16>>, <<2, U16>> >>
GapResponses == << <<0>>, <<2, U16>>, <<2, U16>>, <<3, U16, U8>>, <<2, U16>>,
  <<3, U16, U8>>, <<2, U16>>, <<2, U16>>, <<2, U16>>, <<2, U16>>, <<2, U16>> >>
HardwareResponses == << <<2, U16>>, <<2, U16>>, <<2, U16>>, <<2, U16>>, <<2, U16>>,
  <<2, U16>>, <<2, U16>>, <<4, U16, U8, U8>>, <<2, U16>>, <<4, U16, U8, Arr>>,
  <<3, U16, Arr>>, <<1, U8>>, <<0>>, <<2, U16>>, <<2, U16>>, <<2, U16>>, <<0>>,
  <<3, U16, U8>>, <<2, U16>>, <<0>>, <<2, U16>> >>
TestResponses == << <<0>>, <<0>>, <<2, U16>>, <<0>>, <<1, Arr>>, <<1, Arr>>, <<0>> >>
DfuResponses == << <<0>>, <<2, U16>>, <<2, U16>>, <<2, U16>> >>

SystemEvents == << <<12, U16, U16, U16, U16, U16, U8, U8>>, <<1, Arr>>, <<2, U8, U8>>,
  <<2, U8, U8>>, <<4, U16, U16>>, <<0>>, <<2, U16>> >>
FlashEvents == << <<3, U16, Arr>> >>
AttributesEvents == << <<7, U8, U8, U16, U16, Arr>>, <<6, U8, U16, U16, U8>>,
  <<3, U16, U8>> >>
ConnectionEvents == << <<16, U8, U8, Addr, U8, U16, U16, U16, U8>>,
  <<6, U8, U8, U16, U16>>, <<2, U8, Arr>>, <<2, U8, Arr>>, <<3, U8, U16>> >>
AttclientEvents == << <<3, U8, U16>>, <<5, U8, U16, U16>>, <<6, U8, U16, U16, Arr>>,
  <<7, U8, U16, U16, U8, Arr>>, <<4, U8, U16, Arr>>, <<5, U8, U16, U8, Arr>>,
  <<2, U8, Arr>> >>
SmEvents == << <<3, U8, U8, Arr>>, <<3, U8, U16>>, <<5, U8, U32>>, <<1, U8>>,
  <<4, U8, U8, U8, U8>> >>
GapEvents == << <<11, I8, U8, Addr, U8, U8, Arr>>, <<2, U8, U8>> >>
HardwareEvents == << <<7, U32, U8, U8, U8>>, <<1, U8>>, <<3, U8, I16>>, <<5, U32, U8>>
  >>
DfuEvents == << <<4, U32>> >>
Commands ==
  <<SystemCommands, FlashCommands, AttributesCommands, ConnectionCommands, AttclientCommands,
    SmCommands, GapCommands, HardwareCommands, TestCommands, DfuCommands>>
Responses ==
  <<SystemResponses, FlashResponses, AttributesResponses, ConnectionResponses,
    AttclientResponses, SmResponses, GapResponses, HardwareResponses, TestResponses,
    DfuResponses>>
Events ==
  <<SystemEvents, FlashEvents, AttributesEvents, ConnectionEvents, AttclientEvents, SmEvents,
    GapEvents, HardwareEvents, <<>>, DfuEvents>>

\* The rows of one class, and of the ten classes one after the other.
ClassRows(type, c, rows) ==
  [i \in 1..Len(rows) |->
     [type |-> type, cls |-> c, command |-> i - 1,
      lolen |-> Head(rows[i]), params |-> Tail(rows[i])]]
Rows(type, tables) ==
  LET class(c) == ClassRows(type, c, tables[c + 1])
  IN class(0) \o class(1) \o class(2) \o class(3) \o class(4)
     \o class(5) \o class(6) \o class(7) \o class(8) \o class(9)

apis == Rows("cmd", Commands) \o Rows("rsp", Responses) \o Rows("evt", Events)

\* The tables of handlers: per class the index in apis of the first row and
\* the number of handlers.
RspHandlers ==
  << <<105, 18>>, <<123, 9>>, <<132, 6>>, <<138, 9>>, <<147, 12>>, <<159, 8>>, <<167, 11>>,
     <<178, 21>>, <<199, 7>>, <<206, 4>> >>
\* Mutant of EvtHandlers: the count of attribute client events is one short.
EvtHandlersShort ==
  << <<210, 7>>, <<217, 1>>, <<218, 3>>, <<221, 5>>, <<226, 6>>, <<233, 5>>, <<238, 2>>,
     <<240, 4>>, <<244, 0>>, <<244, 1>> >>
EvtHandlers ==
  << <<210, 7>>, <<217, 1>>, <<218, 3>>, <<221, 5>>, <<226, 7>>, <<233, 5>>, <<238, 2>>,
     <<240, 4>>, <<244, 0>>, <<244, 1>> >>

\* ble_get_msg_hdr(): the row of a received header, or none.
GetMsgHdr(p) ==
  LET handlers == IF p.type = "evt" THEN EvtHandlers ELSE RspHandlers
  IN IF p.cls < Len(handlers) /\ p.command < handlers[p.cls + 1][2]
     THEN {apis[handlers[p.cls + 1][1] + p.command + 1]} ELSE {}

\* Numbers of the empty handlers, per class; the others are in main.c.
RspStubsSystemToAttributes == <<0..17 \ {2}, 0..8, 1..5>>
RspStubsConnectionToSm == <<0..8, 0..11, 0..7>>
RspStubsGapToDfu == <<0..10 \ {1, 8, 9}, 0..20, 0..6, 0..3>>
RspStubs == RspStubsSystemToAttributes \o RspStubsConnectionToSm \o RspStubsGapToDfu
EvtStubs == <<1..6, {0}, {1, 2}, {1, 2, 3}, 0..6, 0..4, {0, 1}, {1, 2, 3}, {}, {0}>>

Rsp(cls, command) == [type |-> "rsp", cls |-> cls, command |-> command]
Evt(cls, command) == [type |-> "evt", cls |-> cls, command |-> command]
\* The messages main.c handles.
Handled(p) ==
  \/ p.type = "rsp" /\ <<p.cls, p.command>> \in {<<0, 2>>, <<2, 0>>, <<6, 1>>, <<6, 8>>, <<6, 9>>}
  \/ p.type = "evt" /\ <<p.cls, p.command>> \in {<<0, 0>>, <<2, 0>>, <<3, 0>>, <<3, 4>>, <<7, 0>>}
Stub(p) == p.command \in (IF p.type = "evt" THEN EvtStubs ELSE RspStubs)[p.cls + 1]

-----------------------------------------------------------------------------
(* What the macros and the handlers make of the messages.                  *)

\* Arguments of the macros in cmd_def.h; an array takes two.
MacroArgsSystemToSm ==
  << <<1, 0, 0, 2, 1, 0, 0, 2, 0, 3, 2, 2, 0, 2, 3, 2, 2, 2>>, <<0, 0, 0, 3, 1, 1, 1, 3, 2>>,
     <<4, 2, 1, 4, 2, 4>>, <<1, 1, 5, 1, 1, 3, 1, 1, 3>>,
     <<6, 5, 5, 3, 2, 4, 4, 1, 2, 5, 2, 3>>, <<2, 1, 1, 3, 2, 0, 2, 0>> >>
MacroArgsGapToDfu ==
  << <<2, 2, 1, 6, 0, 4, 3, 3, 3, 3, 2>>,
     <<3, 3, 3, 2, 2, 3, 3, 2, 6, 3, 3, 4, 1, 4, 2, 2, 1, 0, 1, 1, 1>>,
     <<3, 1, 0, 0, 0, 2, 1>>, <<1, 1, 2, 0>> >>
\* Mutant of MacroArgs: set_adv_data() is called without its length.
MacroArgsNoLength == [MacroArgsSystemToSm \o MacroArgsGapToDfu EXCEPT ![7][10] = 2]
MacroArgs == MacroArgsSystemToSm \o MacroArgsGapToDfu

\* Bytes of the packed structures of each class, by message number.
SystemStructs == [
  cmd |-> <<1, 0, 0, 3, 2, 0, 0, 5, 0, 2, 7, 7, 0, 2, 3, 1, 1, 1>>,
  rsp |-> <<0, 0, 6, 2, 3, 5, 1, 5, 12, 2, 2, 2, 0, 3, 2, 0, 1, 1>>,
  evt |-> <<12, 1, 2, 2, 4, 0, 2>>]
FlashStructs == [
  cmd |-> <<0, 0, 0, 3, 2, 2, 1, 5, 5>>,
  rsp |-> <<0, 0, 0, 2, 3, 0, 2, 2, 1>>,
  evt |-> <<3>>]
AttributesStructs == [
  cmd |-> <<4, 4, 2, 3, 2, 4>>,
  rsp |-> <<2, 7, 5, 0, 0, 2>>,
  evt |-> <<7, 6, 3>>]
ConnectionStructs == [
  cmd |-> <<1, 1, 9, 1, 1, 2, 1, 1, 2>>,
  rsp |-> <<3, 2, 3, 3, 2, 3, 3, 1, 1>>,
  evt |-> <<16, 6, 2, 2, 3>>]
AttclientStructs == [
  cmd |-> <<8, 6, 6, 5, 3, 4, 4, 1, 3, 6, 2, 2>>,
  rsp |-> <<3, 3, 3, 3, 3, 3, 3, 2, 3, 3, 3, 3>>,
  evt |-> <<3, 5, 6, 7, 4, 5, 2>>]
SmStructs == [
  cmd |-> <<2, 1, 1, 3, 5, 0, 1, 0>>,
  rsp |-> <<3, 0, 2, 0, 2, 1, 0, 3>>,
  evt |-> <<3, 3, 5, 1, 4>>]
GapStructs == [
  cmd |-> <<2, 2, 1, 15, 0, 8, 3, 5, 5, 2, 7>>,
  rsp |-> <<0, 2, 2, 3, 2, 3, 2, 2, 2, 2, 2>>,
  evt |-> <<11, 2>>]
HardwareStructs == [
  cmd |-> <<3, 6, 3, 2, 2, 3, 3, 2, 6, 2, 3, 3, 1, 5, 2, 2, 1, 0, 1, 1, 1>>,
  rsp |-> <<2, 2, 2, 2, 2, 2, 2, 4, 2, 4, 3, 1, 0, 2, 2, 2, 0, 3, 2, 0, 2>>,
  evt |-> <<7, 1, 3, 5>>]
TestStructs == [
  cmd |-> <<3, 1, 0, 0, 0, 1, 1>>,
  rsp |-> <<0, 0, 2, 0, 1, 1, 0>>,
  evt |-> <<>>]
DfuStructs == [cmd |-> <<1, 4, 1, 0>>, rsp |-> <<0, 2, 2, 2>>, evt |-> <<4>>]
Structs ==
  <<SystemStructs, FlashStructs, AttributesStructs, ConnectionStructs, AttclientStructs,
    SmStructs, GapStructs, HardwareStructs, TestStructs, DfuStructs>>

HEADER_LEN == 4     \* sizeof(struct ble_header)
=============================================================================
