---------------------------- MODULE BgapiPackets ----------------------------
(***************************************************************************)
(* The path of one message through the bindings: ble_send_message() fills  *)
(* a packet parameter by parameter and hands it to uart_tx();              *)
(* ble_process_packet() reads a header and a payload and looks for the     *)
(* handler.  It compares what three independent tables (apis, the macros,  *)
(* the structures) say of each message.                                    *)
(***************************************************************************)
EXTENDS Bgapi

CONSTANTS
  DataLens,      \* bound: bytes of data a message may carry
  Classes,       \* bound: classes a header may have on the line
  Numbers,       \* bound: numbers within a class it may have
  MAX_PAYLOAD    \* bytes of the buffer of ble_process_packet(): 60

\* The longest fixed payload has 16 bytes; a header, the 15 bytes of the longest
\* command and its data are counted in 8 bits.
ASSUME PacketsAssumption ==
  /\ DataLens \subseteq 0..MAX_PAYLOAD
  /\ Classes \subseteq 0..255 /\ Numbers \subseteq 0..255
  /\ MAX_PAYLOAD \in 16..236

Headers == [type : {"rsp", "evt"}, cls : Classes, command : Numbers]
NoMessage == [type |-> "none"]

VARIABLES
  step,      \* where the code is
  message,   \* the row of apis that is sent, or the header that was received
  left,      \* parameters still to be put in the packet
  args,      \* arguments still to be taken
  filled,    \* bytes of the payload filled so far
  lolen,     \* the length in the header
  dataLen    \* bytes of data behind the fixed parameters
vars == <<step, message, left, args, filled, lolen, dataLen>>

\* The types; in particular ble_send_message() never takes an argument its
\* macro did not pass, nor fills more than the payload of a packet.
TypeOK ==
  /\ step \in {"idle", "fill", "sent", "payload", "find", "handler", "unknown"}
  /\ message \in {apis[i] : i \in DOMAIN apis} \cup Headers \cup {NoMessage}
  /\ left \in Seq(DOMAIN ParameterSize)
  /\ args \in Nat /\ filled \in 0..MAX_PAYLOAD
  /\ lolen \in 0..255 /\ dataLen \in DataLens \cup {0}

Rest ==
  /\ step' = "idle" /\ message' = NoMessage /\ left' = <<>>
  /\ args' = 0 /\ filled' = 0 /\ lolen' = 0 /\ dataLen' = 0

Init ==
  /\ step = "idle" /\ message = NoMessage /\ left = <<>>
  /\ args = 0 /\ filled = 0 /\ lolen = 0 /\ dataLen = 0

-----------------------------------------------------------------------------
(* ble_send_message().                                                     *)

\* A macro is called: its arguments, and the header of its row.
Call ==
  /\ step = "idle"
  /\ \E i \in DOMAIN apis :
       /\ apis[i].type = "cmd"
       /\ message' = apis[i] /\ left' = apis[i].params /\ lolen' = apis[i].lolen
       /\ args' = MacroArgs[apis[i].cls + 1][apis[i].command + 1]
  /\ step' = "fill" /\ filled' = 0 /\ dataLen' = 0

\* The next parameter is fixed; an address is one argument of six bytes.
FillFixed ==
  /\ step = "fill" /\ left # <<>> /\ Head(left) # Arr
  /\ left' = Tail(left) /\ args' = args - 1
  /\ filled' = filled + ParameterSize[Head(left)]
  /\ UNCHANGED <<step, message, lolen, dataLen>>

\* Mutant of FillArray: the length in the header stays that of the row.
FillArrayShort ==
  /\ step = "fill" /\ left # <<>> /\ Head(left) = Arr
  /\ left' = Tail(left) /\ args' = args - 2
  /\ filled' = filled + ParameterSize[Arr]
  /\ dataLen' \in DataLens
  /\ UNCHANGED <<step, message, lolen>>
\* An array takes a length and a pointer: the data itself follows the packet.
FillArray ==
  /\ step = "fill" /\ left # <<>> /\ Head(left) = Arr
  /\ left' = Tail(left) /\ args' = args - 2
  /\ filled' = filled + ParameterSize[Arr]
  /\ \E n \in DataLens : dataLen' = n /\ lolen' = (lolen + n) % 256
  /\ UNCHANGED <<step, message>>

\* bglib_output(): what uart_tx() announces and sends.
Output ==
  /\ step = "fill" /\ left = <<>>
  /\ step' = "sent"
  /\ UNCHANGED <<message, left, args, filled, lolen, dataLen>>
Announced == (HEADER_LEN + message.lolen + dataLen) % 256

Sent == step = "sent" /\ Rest

-----------------------------------------------------------------------------
(* ble_process_packet().                                                   *)

\* Specification, not code: the messages of the module that a header names.  The
\* two properties and the sender measure the lookup against it.  (The search of
\* the code, ble_find_msg_hdr(), is no such measure: commands and responses have
\* the same type 0x00, so it returns the row of the command for the header of
\* a response.  ble_get_msg_hdr() falls back on it only for a type that is
\* neither 0x00 nor 0x80 under the mask 0x80, which no header has.)
Matching(p) ==
  {m \in {apis[i] : i \in DOMAIN apis} :
     m.type = p.type /\ m.cls = p.cls /\ m.command = p.command}

\* The payload the module sends with a message.
PayloadLens(p) ==
  UNION {{n + m.lolen : n \in IF Arr \in {m.params[k] : k \in DOMAIN m.params}
                              THEN DataLens ELSE {0}} : m \in Matching(p)}

\* A message of the module, or a header that is none of its messages.
ReadHeader ==
  /\ step = "idle"
  /\ \E p \in Headers :
       /\ message' = p
       /\ IF Matching(p) = {} THEN lolen' \in 0..MAX_PAYLOAD
          ELSE lolen' \in {n \in PayloadLens(p) : n <= MAX_PAYLOAD}
       /\ step' = IF lolen' = 0 THEN "find" ELSE "payload"
  /\ UNCHANGED <<left, args, filled, dataLen>>

\* The payload, unless a byte of it is lost: the MCU is then reset.
ReadPayload ==
  /\ step = "payload"
  /\ step' = "find" /\ filled' = lolen
  /\ UNCHANGED <<message, left, args, lolen, dataLen>>
PayloadTimeout == step = "payload" /\ Rest

Find ==
  /\ step = "find" /\ GetMsgHdr(message) # {}
  /\ \E m \in GetMsgHdr(message) : message' = m
  /\ step' = "handler"
  /\ UNCHANGED <<left, args, filled, lolen, dataLen>>
NotFound ==
  /\ step = "find" /\ GetMsgHdr(message) = {}
  /\ step' = "unknown"
  /\ UNCHANGED <<message, left, args, filled, lolen, dataLen>>

Return == step \in {"handler", "unknown"} /\ Rest

-----------------------------------------------------------------------------
Next ==
  \/ Call \/ FillFixed \/ FillArray \/ Output \/ Sent
  \/ ReadHeader \/ ReadPayload \/ PayloadTimeout \/ Find \/ NotFound \/ Return
Spec == Init /\ [][Next]_vars

StructBytes(m) == Structs[m.cls + 1][m.type][m.command + 1]

\* Every command goes out as its macro, its row and its structure agree: no
\* argument is left over or missing, every byte that uart_tx() announces has
\* been filled, and the header counts the same bytes (ble_send_message()).
CommandWhole ==
  step = "sent" =>
    /\ args = 0
    /\ filled = StructBytes(message)
    /\ Announced = HEADER_LEN + filled + dataLen
    /\ lolen = filled + dataLen

\* A handler gets its own message, it is defined once, and the structure it
\* casts the payload to lies within the bytes that were received
\* (ble_get_msg_hdr(), main.c, stubs.c).
HandlerFits ==
  step = "handler" =>
    /\ {message} = Matching(message)
    /\ Handled(message) <=> ~Stub(message)
    /\ StructBytes(message) <= filled

\* The MCU only takes for unknown, and is reset by, a header that no message
\* of the module has (ble_get_msg_hdr(), main()).
OnlyUnknownResets == step = "unknown" => Matching(message) = {}
=============================================================================
