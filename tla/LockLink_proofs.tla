--------------------------- MODULE LockLink_proofs ---------------------------
(***************************************************************************)
(* The lock and its BLE module, for any phones, requests, restarts and     *)
(* losses of power, as long as the module does not restart on its own:     *)
(* commands and responses, the events of a connection and the parts of its *)
(* messages never get out of step.                                         *)
(***************************************************************************)
EXTENDS LockFirmware_proofs

\* The states of the FSM, by what the MCU knows of the connection.
Awaits ==
  {"BLE_BOOT_W", "SYSTEM_ADDRESS_GET_W", "ADV_PARAM_SET_W", "ADV_DATA_SET_W",
   "ADV_SR_DATA_SET_W", "ADVERTISING_W"}
Sending == {"BLE_BOOT", "SYSTEM_ADDRESS_GET", "ADV_PARAM_SET", "ADV_DATA_SET", "ADV_SR_DATA_SET"}
Open == {"ADVERTISING_W", "ADVERTISING"}
Serving == {"CONNECTED", "TICKET", "REQUEST_W", "REQUEST"}
Early == (Awaits \ {"ADVERTISING_W"}) \cup Sending \cup {"DISCONNECTED"}

\* What the module is asked for in a state that waits, and what it answers.
Request(s) ==
  CASE s = "SYSTEM_ADDRESS_GET_W" -> "address"
    [] s = "ADV_PARAM_SET_W" -> "params"
    [] s = "ADV_DATA_SET_W" -> "data"
    [] s = "ADV_SR_DATA_SET_W" -> "scan"
    [] s = "ADVERTISING_W" -> "mode"
    [] OTHER -> "none"
Answer(s) ==
  CASE s = "BLE_BOOT_W" -> "boot"
    [] s = "ADV_SR_DATA_SET_W" -> "data"
    [] OTHER -> Request(s)

Event(p) == p.t \in {"status", "value", "disconnected"}
Connecting(p) == p.t = "status" /\ 3 \notin p.flags

-----------------------------------------------------------------------------
\* fsm_process() and ble_process_packet() leave each other these states.
Turned ==
  /\ turn = "pkt" => state \in (Awaits \cup {"ADVERTISING", "CONNECTED", "REQUEST_W"})
  /\ turn = "sleep" => state = "ADVERTISING"
  /\ turn = "open" => state = "TICKET"
  /\ turn \in {"respond", "overrun"} => state \in {"CONNECTED", "REQUEST_W"}

\* One command at a time, besides the writes of a response: either the module
\* has still to run it, and nothing but writes is on the way to the MCU, or
\* its answer is, and nothing but writes before it.
Asked ==
  \E i \in 1..Len(toBle) :
    /\ toBle[i].c = Request(state)
    /\ \A j \in 1..Len(toBle) : j # i => toBle[j].c = "write"
    /\ \A j \in 1..Len(toMcu) : toMcu[j].t = "write"
Answered ==
  \E i \in 1..Len(toMcu) :
    /\ toMcu[i].t = Answer(state)
    /\ \A j \in 1..(i - 1) : toMcu[j].t = "write"
    /\ \A j \in (i + 1)..Len(toMcu) : toMcu[j].t = "write" \/ Event(toMcu[j])
    /\ \A j \in 1..Len(toBle) : toBle[j].c = "write"
Settled ==
  /\ \A j \in 1..Len(toMcu) : toMcu[j].t = "write" \/ Event(toMcu[j])
  /\ \A j \in 1..Len(toBle) : toBle[j].c = "write"
Dialogue == IF state \in Awaits THEN Asked \/ Answered ELSE Settled

\* The settings the module must have been given by now.
Settings ==
  /\ state \notin {"BLE_BOOT_W", "BLE_BOOT", "SYSTEM_ADDRESS_GET_W", "SYSTEM_ADDRESS_GET",
                   "ADV_PARAM_SET_W"}
     \/ (state = "ADV_PARAM_SET_W" /\ Answered) => "params" \in advSetup
  /\ state \in {"ADV_DATA_SET", "ADV_SR_DATA_SET_W", "ADV_SR_DATA_SET", "DISCONNECTED"} \cup Open \cup Serving
     \/ (state = "ADV_DATA_SET_W" /\ Answered) => "data" \in advSetup
  /\ state \in {"ADV_SR_DATA_SET", "DISCONNECTED"} \cup Open \cup Serving
     \/ (state = "ADV_SR_DATA_SET_W" /\ Answered) => "scan" \in advSetup

\* The events of a connection: nothing before the module advertises, the
\* connection first and the disconnection last.
Silent == \A j \in 1..Len(toMcu) : ~Event(toMcu[j])
Linked ==
  /\ state \in Early \/ (state = "ADVERTISING_W" /\ Asked) => ~link /\ ~advertising /\ Silent
  /\ advertising => state \in Open /\ ~link /\ Silent
  /\ air # <<>> => link
  /\ \A i \in 1..Len(toMcu) : toMcu[i].t = "disconnected" =>
       ~link /\ ~advertising /\ \A j \in (i + 1)..Len(toMcu) : ~Event(toMcu[j])
  /\ state \in Open /\ (link \/ ~Silent) => \E i \in 1..Len(toMcu) : Connecting(toMcu[i])
  /\ \A i \in 1..Len(toMcu) : Connecting(toMcu[i]) =>
       state \in Open /\ \A j \in 1..(i - 1) : ~Event(toMcu[j])
  /\ \A i \in 1..Len(toMcu) : toMcu[i].t = "status" =>
       \/ toMcu[i].flags = {0, 2}
       \/ toMcu[i].flags = {0, 3} /\ "params" \in Faults

\* The buffer is only used within a connection.
Fresh == state \in (Awaits \cup Sending \cup Open) => msgBuf = EmptyBuf

-----------------------------------------------------------------------------
(* The parts of the phone's messages, in the buffer, in the queue and in   *)
(* the air.                                                                *)

LastPart(p) == p.i = Len(PartLens(p.m))
Continues(p, r) == IF LastPart(p) THEN r.i = 1 ELSE r = [m |-> p.m, i |-> p.i + 1]

IsValue(queue, j) == queue[j].t = "value"
NoValue(queue, i, j) == \A k \in i..j : ~IsValue(queue, k)

\* A part that may come next to the buffer, and a buffer after which a message
\* may begin.
Last(data) == data[Len(data)]
Begins(data, r) == IF data = <<>> THEN r.i = 1 ELSE Continues(Last(data), r)
Ended(data) == data = <<>> \/ LastPart(Last(data))

\* Each part continues the one before it; the last one in the air ends its
\* message.
Stream ==
  /\ \A i, j \in 1..Len(toMcu) :
       i < j /\ IsValue(toMcu, i) /\ IsValue(toMcu, j) /\ NoValue(toMcu, i + 1, j - 1)
         => Continues(toMcu[i].part, toMcu[j].part)
  /\ \A j \in 1..Len(toMcu) :
       IsValue(toMcu, j) /\ NoValue(toMcu, 1, j - 1) => Begins(msgBuf.data, toMcu[j].part)
  /\ \A i \in 1..Len(toMcu) : IsValue(toMcu, i) /\ NoValue(toMcu, i + 1, Len(toMcu)) =>
       /\ air # <<>> => Continues(toMcu[i].part, air[1])
       /\ air = <<>> /\ link => LastPart(toMcu[i].part)
  /\ NoValue(toMcu, 1, Len(toMcu)) =>
       /\ air # <<>> => Begins(msgBuf.data, air[1])
       /\ air = <<>> /\ link => Ended(msgBuf.data)
  /\ air # <<>> => /\ LastPart(Last(air))
                   /\ \A k \in 1..(Len(air) - 1) : Continues(air[k], air[k + 1])

\* A buffer holds the beginning of a message; or a whole request, which came
\* when a ticket was awaited, and one part more.
Starts(data) == \A j \in 1..Len(data) : data[j] = [m |-> data[1].m, i |-> j]
Shaped(buf) ==
  \/ buf.data = <<>> /\ buf.len = 0
  \/ /\ buf.data # <<>> /\ buf.data[1].m.kind = "ticket" /\ Starts(buf.data)
     /\ Len(buf.data) <= 4 /\ buf.len = 18 * Len(buf.data)
  \/ /\ buf.data # <<>> /\ buf.data[1].m.kind # "ticket" /\ Starts(buf.data)
     /\ Len(buf.data) <= 3 /\ buf.len = IF Len(buf.data) = 3 THEN 41 ELSE 18 * Len(buf.data)
  \/ /\ buf.data[1].m.kind # "ticket"
     /\ Len(buf.data) = 4 /\ buf.len = 59 /\ buf.data[4].i = 1

Buffer ==
  /\ Shaped(msgBuf)
  /\ state \in {"TICKET", "REQUEST"} \/ turn = "respond" => Whole(msgBuf.data)
  /\ state = "TICKET" => Buffered.kind = "ticket"
Messaging == turn # "overrun" => Stream /\ Buffer
LinkInv == TypeOK /\ Turned /\ Dialogue /\ Settings /\ Linked /\ Fresh

-----------------------------------------------------------------------------
(* Sequences, and the types of what is in them.                            *)

LEMMA Appended ==
  ASSUME NEW S, NEW s \in Seq(S), NEW e
  PROVE  /\ Append(s, e) # <<>>
         /\ Len(s) \in Nat /\ Len(Append(s, e)) = Len(s) + 1
         /\ \A j \in 1..Len(s) : Append(s, e)[j] = s[j]
         /\ Append(s, e)[Len(s) + 1] = e
<1>1. s \in Seq(S \cup {e}) /\ e \in S \cup {e}
  BY SeqMonotonic
<1> QED
  BY <1>1, AppendProperties

LEMMA Removed ==
  ASSUME NEW S, NEW s \in Seq(S), s # <<>>
  PROVE  /\ Len(s) \in Nat \ {0} /\ Head(s) = s[1] /\ Head(s) \in S
         /\ Tail(s) \in Seq(S) /\ Len(Tail(s)) = Len(s) - 1
         /\ \A j \in 1..(Len(s) - 1) : Tail(s)[j] = s[j + 1]
OBVIOUS

LEMMA Queues ==
  ASSUME TypeOK
  PROVE  /\ toMcu \in Seq(Packets) /\ Len(toMcu) \in Nat
         /\ toBle \in Seq(Commands) /\ Len(toBle) \in Nat
BY DEF TypeOK, UartTypeOK

\* The answers of the module are neither events nor the answers to writes.
AnswerTypes == {"boot", "address", "params", "data", "mode"}
LEMMA AnswerKinds ==
  ASSUME NEW s \in Awaits
  PROVE  Answer(s) \in AnswerTypes
BY DEF Awaits, Answer, Request, AnswerTypes

\* A packet is taken from the queue.
Takes ==
  /\ toMcu # <<>> /\ Len(toMcu) \in Nat \ {0}
  /\ Len(toMcu') = Len(toMcu) - 1
  /\ \A j \in 1..(Len(toMcu) - 1) : toMcu'[j] = toMcu[j + 1]
LEMMA ReceiveTakes ==
  ASSUME TypeOK, NEW t, Receive(t)
  PROVE  Takes /\ toMcu[1].t = t /\ Head(toMcu) = toMcu[1] /\ Head(toMcu) \in Packets
<1>1. toMcu \in Seq(Packets) /\ toMcu # <<>> /\ Head(toMcu).t = t /\ toMcu' = Tail(toMcu)
  BY Queues DEF Receive
<1> QED
  BY <1>1, Removed DEF Takes

-----------------------------------------------------------------------------
(* Dialogue: what the head of the queue says of the state, and what the    *)
(* steps that change the queues do.                                        *)

LEMMA HeadAnswers ==
  ASSUME Dialogue, Takes, toMcu[1].t \in AnswerTypes
  PROVE  /\ state \in Awaits /\ Answered /\ toMcu[1].t = Answer(state)
         /\ \A j \in 2..Len(toMcu) : toMcu[j].t = "write" \/ Event(toMcu[j])
         /\ \A j \in 1..Len(toBle) : toBle[j].c = "write"
<1>1. Len(toMcu) \in Nat /\ 1 \in 1..Len(toMcu)
  BY DEF Takes
<1>2. toMcu[1].t # "write" /\ ~Event(toMcu[1])
  BY DEF AnswerTypes, Event
<1>3. state \in Awaits /\ Answered
  BY <1>1, <1>2 DEF Dialogue, Asked, Settled
<1>4. PICK i \in 1..Len(toMcu) :
        /\ toMcu[i].t = Answer(state)
        /\ \A j \in 1..(i - 1) : toMcu[j].t = "write"
        /\ \A j \in (i + 1)..Len(toMcu) : toMcu[j].t = "write" \/ Event(toMcu[j])
        /\ \A j \in 1..Len(toBle) : toBle[j].c = "write"
  BY <1>3 DEF Answered
<1>5. i = 1
  BY <1>1, <1>2, <1>4
<1> QED
  BY <1>3, <1>4, <1>5

LEMMA HeadEvent ==
  ASSUME Dialogue, Takes, Event(toMcu[1])
  PROVE  state \notin Awaits /\ Settled
<1>1. Len(toMcu) \in Nat /\ 1 \in 1..Len(toMcu)
  BY DEF Takes
<1>2. toMcu[1].t # "write" /\ toMcu[1].t \notin AnswerTypes
  BY DEF AnswerTypes, Event
<1>3. ASSUME state \in Awaits PROVE FALSE
  <2>1. Answered
    BY <1>1, <1>2, <1>3 DEF Dialogue, Asked
  <2>2. PICK i \in 1..Len(toMcu) :
          toMcu[i].t = Answer(state) /\ \A j \in 1..(i - 1) : toMcu[j].t = "write"
    BY <2>1 DEF Answered
  <2>3. i = 1
    BY <1>1, <1>2, <2>2
  <2> QED
    BY <1>2, <1>3, <2>2, <2>3, AnswerKinds
<1> QED
  BY <1>3 DEF Dialogue

\* The step of a handler that leaves a settled queue and awaits nothing.
LEMMA DialogueSettles ==
  ASSUME Takes,
         \A j \in 2..Len(toMcu) : toMcu[j].t = "write" \/ Event(toMcu[j]),
         \A j \in 1..Len(toBle) : toBle[j].c = "write",
         toBle' = toBle, state' \notin Awaits
  PROVE  Dialogue'
<1>1. \A j \in 1..Len(toMcu') : j + 1 \in 2..Len(toMcu) /\ toMcu'[j] = toMcu[j + 1]
  BY DEF Takes
<1>2. Settled'
  BY <1>1 DEF Settled, Event
<1> QED
  BY <1>2 DEF Dialogue

\* A response to a write is taken from the queue.
LEMMA DialogueWrite ==
  ASSUME TypeOK, Dialogue, Takes, toMcu[1].t = "write", state' = state,
         \/ toBle' = toBle
         \/ \E e : e.c = "write" /\ toBle' = Append(toBle, e)
  PROVE  Dialogue'
<1>0. /\ Len(toMcu) \in Nat \ {0}
      /\ \A j \in 1..Len(toMcu') : j + 1 \in 2..Len(toMcu) /\ toMcu'[j] = toMcu[j + 1]
  BY DEF Takes
<1>1. /\ Len(toBle) \in Nat /\ Len(toBle') \in Nat /\ Len(toBle) <= Len(toBle')
      /\ \A j \in 1..Len(toBle) : toBle'[j] = toBle[j]
      /\ \A j \in 1..Len(toBle') : j > Len(toBle) => toBle'[j].c = "write"
  <2>1. CASE toBle' = toBle
    BY <2>1, Queues
  <2>2. CASE \E e : e.c = "write" /\ toBle' = Append(toBle, e)
    <3>1. PICK e : e.c = "write" /\ toBle' = Append(toBle, e)
      BY <2>2
    <3> QED
      BY <3>1, Queues, Appended
  <2> QED
    BY <2>1, <2>2
<1>2. CASE state \in Awaits /\ Asked
  <2>1. PICK i \in 1..Len(toBle) :
          /\ toBle[i].c = Request(state)
          /\ \A j \in 1..Len(toBle) : j # i => toBle[j].c = "write"
          /\ \A j \in 1..Len(toMcu) : toMcu[j].t = "write"
    BY <1>2 DEF Asked
  <2>2. /\ i \in 1..Len(toBle') /\ toBle'[i].c = Request(state')
        /\ \A j \in 1..Len(toBle') : j # i => toBle'[j].c = "write"
    BY <1>1, <2>1
  <2>3. \A j \in 1..Len(toMcu') : toMcu'[j].t = "write"
    BY <1>0, <2>1
  <2> QED
    BY <1>2, <2>2, <2>3 DEF Dialogue, Asked
<1>3. CASE state \in Awaits /\ Answered
  <2>1. PICK i \in 1..Len(toMcu) :
          /\ toMcu[i].t = Answer(state)
          /\ \A j \in 1..(i - 1) : toMcu[j].t = "write"
          /\ \A j \in (i + 1)..Len(toMcu) : toMcu[j].t = "write" \/ Event(toMcu[j])
          /\ \A j \in 1..Len(toBle) : toBle[j].c = "write"
    BY <1>3 DEF Answered
  <2>2. i # 1
    BY <1>3, <2>1, AnswerKinds DEF AnswerTypes
  <2>3. i - 1 \in 1..Len(toMcu') /\ toMcu'[i - 1].t = Answer(state')
    BY <2>1, <2>2 DEF Takes
  <2>4. \A j \in 1..(i - 2) : toMcu'[j].t = "write"
    BY <2>1, <2>2 DEF Takes
  <2>5. \A j \in i..Len(toMcu') : toMcu'[j].t = "write" \/ Event(toMcu'[j])
    <3> SUFFICES ASSUME NEW j \in i..Len(toMcu') PROVE toMcu'[j].t = "write" \/ Event(toMcu'[j])
      OBVIOUS
    <3>1. j + 1 \in (i + 1)..Len(toMcu) /\ toMcu'[j] = toMcu[j + 1]
      BY <2>1, <2>2 DEF Takes
    <3> QED
      BY <2>1, <3>1
  <2>6. \A j \in 1..Len(toBle') : toBle'[j].c = "write"
    BY <1>1, <2>1
  <2>7. Answered'
    <3>1. (i - 1) - 1 = i - 2 /\ (i - 1) + 1 = i
      BY <2>1, <1>0
    <3> QED
      BY <2>3, <2>4, <2>5, <2>6, <3>1 DEF Answered, Event
  <2> QED
    BY <1>3, <2>7 DEF Dialogue
<1>4. CASE state \notin Awaits
  <2>1. \A j \in 1..Len(toMcu') : toMcu'[j].t = "write" \/ Event(toMcu'[j])
    BY <1>0, <1>4 DEF Dialogue, Settled, Event
  <2>2. \A j \in 1..Len(toBle') : toBle'[j].c = "write"
    BY <1>1, <1>4 DEF Dialogue, Settled
  <2> QED
    BY <1>4, <2>1, <2>2 DEF Dialogue, Settled, Event
<1> QED
  BY <1>2, <1>3, <1>4 DEF Dialogue

\* The MCU sends a command: the first of them when the module is silent.
LEMMA DialogueSends ==
  ASSUME TypeOK, Dialogue, Silent, state \notin Awaits, NEW c, NEW to \in Awaits,
         c = Request(to),
         toBle' = Append(toBle, Command(c)), toMcu' = toMcu, state' = to
  PROVE  Dialogue'
<1>1. /\ Len(toBle) \in Nat /\ Len(toBle') = Len(toBle) + 1 /\ toBle'[Len(toBle) + 1] = Command(c)
      /\ \A j \in 1..Len(toBle) : toBle'[j] = toBle[j]
  BY Queues, Appended
<1>2. /\ \A j \in 1..Len(toMcu') : toMcu'[j].t = "write"
      /\ \A j \in 1..Len(toBle) : toBle[j].c = "write"
  BY DEF Dialogue, Settled, Silent
<1>3. /\ Len(toBle) + 1 \in 1..Len(toBle') /\ toBle'[Len(toBle) + 1].c = Request(state')
      /\ \A j \in 1..Len(toBle') : j # Len(toBle) + 1 => toBle'[j].c = "write"
  BY <1>1, <1>2 DEF Command
<1>4. Asked'
  BY <1>2, <1>3 DEF Asked
<1> QED
  BY <1>4 DEF Dialogue

LEMMA DialogueFsm ==
  ASSUME TypeOK, Turned, Dialogue, Linked, Fsm
  PROVE  Dialogue'
<1> USE DEF session, module, history
<1>1. ASSUME NEW from \in Early \ Awaits, NEW c, NEW to \in Awaits, c = Request(to),
             c \in {"address", "params", "data", "scan", "mode"}, Sends(from, c, to)
      PROVE  Dialogue'
  <2>1. state \in Early /\ state \notin Awaits /\ Silent
    BY <1>1 DEF Sends, Linked
  <2> QED
    BY <1>1, <2>1, DialogueSends DEF Sends
<1>2. CASE FsmBleBoot \/ FsmSystemAddressGet \/ FsmAdvParamSet \/ FsmAdvDataSet
           \/ FsmAdvSrDataSet \/ FsmDisconnected
  <2> USE DEF Early, Awaits, Sending, Request
  <2>1. CASE FsmBleBoot
    BY <1>1, <2>1 DEF FsmBleBoot
  <2>2. CASE FsmSystemAddressGet
    BY <1>1, <2>2 DEF FsmSystemAddressGet
  <2>3. CASE FsmAdvParamSet
    BY <1>1, <2>3 DEF FsmAdvParamSet
  <2>4. CASE FsmAdvDataSet
    BY <1>1, <2>4 DEF FsmAdvDataSet
  <2>5. CASE FsmAdvSrDataSet
    BY <1>1, <2>5 DEF FsmAdvSrDataSet
  <2>6. CASE FsmDisconnected
    BY <1>1, <2>6 DEF FsmDisconnected
  <2> QED
    BY <1>2, <2>1, <2>2, <2>3, <2>4, <2>5, <2>6
<1>3. ASSUME UNCHANGED <<toMcu, toBle>>,
             state' = state \/ (state \notin Awaits /\ state' \notin Awaits)
      PROVE  Dialogue'
  BY <1>3 DEF Dialogue, Asked, Answered, Settled, Event
<1>4. CASE FsmIdle \/ FsmAdvertising \/ WakeUp \/ StoreTicketNonce
  BY <1>3, <1>4 DEF FsmIdle, FsmAdvertising, WakeUp, StoreTicketNonce
<1>5. CASE RefuseTicket \/ ForgedTicket
  BY <1>3, <1>5 DEF RefuseTicket, ForgedTicket, FailTicket, Turned, Awaits
<1>6. CASE RefuseRequest \/ ForgedRequest \/ StartRequest
  BY <1>3, <1>6 DEF RefuseRequest, ForgedRequest, FailRequest, StartRequest, Awaits
<1>7. ASSUME NEW n \in 1..3, NEW r, toBle' = Append(toBle, WriteSection(n, r)), toMcu' = toMcu,
             state \notin Awaits, state' \notin Awaits
      PROVE  Dialogue'
  <2>1. WriteSection(n, r).c = "write"
    BY DEF WriteSection
  <2>2. /\ Len(toBle) \in Nat /\ Len(toBle') = Len(toBle) + 1
        /\ toBle'[Len(toBle) + 1].c = "write" /\ \A j \in 1..Len(toBle) : toBle'[j] = toBle[j]
    BY <1>7, <2>1, Queues, Appended
  <2>3. \A j \in 1..Len(toBle') : toBle'[j].c = "write"
    BY <1>7, <2>2 DEF Dialogue, Settled
  <2> QED
    BY <1>7, <2>3 DEF Dialogue, Settled, Event
<1>8. CASE OpenSession \/ RespondRequest
  <2>1. state \notin Awaits /\ state' \notin Awaits /\ toMcu' = toMcu
    BY <1>8 DEF OpenSession, RespondRequest, Turned, Awaits
  <2>2. \E r : toBle' = Append(toBle, WriteSection(1, r))
    BY <1>8 DEF OpenSession, RespondRequest, Respond
  <2> QED
    BY <1>7, <2>1, <2>2
<1> QED
  BY <1>2, <1>4, <1>5, <1>6, <1>8 DEF Fsm

LEMMA DialoguePacket ==
  ASSUME TypeOK, Dialogue, Packet
  PROVE  Dialogue'
<1>1. ASSUME NEW t \in AnswerTypes, NEW to \in States \ Awaits, Lands(t, to)
      PROVE  Dialogue'
  BY <1>1, ReceiveTakes, HeadAnswers, DialogueSettles DEF Lands
<1>2. ASSUME NEW t \in {"status", "value", "disconnected"}, Receive(t), toBle' = toBle,
             state' \in States \ Awaits \/ state' = state
      PROVE  Dialogue'
  <2>1. Takes /\ Event(toMcu[1])
    BY <1>2, ReceiveTakes DEF Event
  <2>2. state \notin Awaits /\ Settled
    BY <2>1, HeadEvent
  <2>3. \A j \in 2..Len(toMcu) : toMcu[j].t = "write" \/ Event(toMcu[j])
    BY <2>1, <2>2 DEF Settled, Takes
  <2> QED
    BY <1>2, <2>1, <2>2, <2>3, DialogueSettles DEF Settled
<1>3. CASE EvtSystemBoot \/ RspSystemAddressGet \/ RspSetAdvParameters \/ RspSetMode
  BY <1>1, <1>3 DEF EvtSystemBoot, RspSystemAddressGet, RspSetAdvParameters, RspSetMode,
     AnswerTypes, States, Awaits
<1>4. CASE RspSetAdvData
  <2>1. PICK to : Lands("data", to) /\ to = CASE state = "ADV_DATA_SET_W" -> "ADV_DATA_SET"
                      [] state = "ADV_SR_DATA_SET_W" -> "ADV_SR_DATA_SET"
                      [] OTHER -> state
    BY <1>4 DEF RspSetAdvData
  <2>2. Receive("data")
    BY <2>1 DEF Lands
  <2>3. Takes /\ toMcu[1].t = "data"
    BY <2>2, ReceiveTakes
  <2>4. state \in {"ADV_DATA_SET_W", "ADV_SR_DATA_SET_W"}
    BY <2>3, HeadAnswers DEF AnswerTypes, Answer, Request, Awaits
  <2>5. to \in States \ Awaits
    BY <2>1, <2>4 DEF States, Awaits
  <2> QED
    BY <1>1, <2>1, <2>5 DEF AnswerTypes
<1>5. CASE EvtDisconnected
  BY <1>2, <1>5 DEF EvtDisconnected, Lands, States, Awaits
<1>6. CASE EvtConnectionStatus
  BY <1>2, <1>6 DEF EvtConnectionStatus, States, Awaits
<1>7. CASE EvtAttributesValue
  <2>1. state' \in {"TICKET", "REQUEST", state} /\ Receive("value") /\ toBle' = toBle
    BY <1>7 DEF EvtAttributesValue
  <2> QED
    BY <1>2, <2>1 DEF States, Awaits
<1>8. CASE RspAttributesWrite
  <2>1. Takes /\ toMcu[1].t = "write" /\ state' = state
    BY <1>8, ReceiveTakes DEF RspAttributesWrite
  <2>2. toBle' = toBle \/ \E e : e.c = "write" /\ toBle' = Append(toBle, e)
    <3>1. WriteSection(attWrite.section + 2, attWrite.rsp).c = "write"
      BY DEF WriteSection
    <3> QED
      BY <1>8, <3>1 DEF RspAttributesWrite
  <2> QED
    BY <2>1, <2>2, DialogueWrite
<1>9. CASE RxTimeout
  BY <1>9 DEF RxTimeout, Dialogue, Asked, Answered, Settled, Event
<1> QED
  BY <1>3, <1>4, <1>5, <1>6, <1>7, <1>8, <1>9 DEF Packet

\* The module runs a command: a setting, which it was asked for, or a write.
Runs(packet) ==
  /\ toBle # <<>> /\ Len(toBle) \in Nat \ {0} /\ Len(toBle') = Len(toBle) - 1
  /\ \A j \in 1..(Len(toBle) - 1) : toBle'[j] = toBle[j + 1]
  /\ Len(toMcu) \in Nat /\ Len(toMcu') = Len(toMcu) + 1
  /\ \A j \in 1..Len(toMcu) : toMcu'[j] = toMcu[j]
  /\ toMcu'[Len(toMcu) + 1] = packet
LEMMA ExecutesRuns ==
  ASSUME TypeOK, NEW c, NEW packet, Executes(c), Answers(packet)
  PROVE  Runs(packet) /\ toBle[1].c = c
<1>1. /\ toBle \in Seq(Commands) /\ toMcu \in Seq(Packets) /\ toBle # <<>>
      /\ toBle' = Tail(toBle) /\ toMcu' = Append(toMcu, packet) /\ Head(toBle).c = c
  BY Queues DEF Executes, Answers
<1> QED
  BY <1>1, Appended, Removed DEF Runs

LEMMA HeadAsked ==
  ASSUME Dialogue, NEW packet, Runs(packet), toBle[1].c # "write"
  PROVE  /\ state \in Awaits /\ Asked /\ toBle[1].c = Request(state)
         /\ \A j \in 2..Len(toBle) : toBle[j].c = "write"
         /\ \A j \in 1..Len(toMcu) : toMcu[j].t = "write"
<1>1. 1 \in 1..Len(toBle)
  BY DEF Runs
<1>2. state \in Awaits /\ Asked
  BY <1>1 DEF Dialogue, Answered, Settled
<1>3. PICK i \in 1..Len(toBle) :
        /\ toBle[i].c = Request(state)
        /\ \A j \in 1..Len(toBle) : j # i => toBle[j].c = "write"
        /\ \A j \in 1..Len(toMcu) : toMcu[j].t = "write"
  BY <1>2 DEF Asked
<1>4. i = 1
  BY <1>1, <1>3
<1> QED
  BY <1>2, <1>3, <1>4

LEMMA DialogueAnswers ==
  ASSUME Dialogue, NEW packet, Runs(packet), toBle[1].c # "write", state' = state,
         packet.t = Answer(state)
  PROVE  Dialogue' /\ Answered' /\ ~Asked'
<1> DEFINE i == Len(toMcu) + 1
<1>1. /\ state \in Awaits
      /\ \A j \in 2..Len(toBle) : toBle[j].c = "write"
      /\ \A j \in 1..Len(toMcu) : toMcu[j].t = "write"
  BY HeadAsked
<1>2. i \in 1..Len(toMcu') /\ toMcu'[i].t = Answer(state')
  BY DEF Runs
<1>3. \A j \in 1..(i - 1) : toMcu'[j].t = "write"
  BY <1>1 DEF Runs
<1>4. \A j \in (i + 1)..Len(toMcu') : FALSE
  BY DEF Runs
<1>5. \A j \in 1..Len(toBle') : toBle'[j].c = "write"
  <2> SUFFICES ASSUME NEW j \in 1..Len(toBle') PROVE toBle'[j].c = "write"
    OBVIOUS
  <2>1. j + 1 \in 2..Len(toBle) /\ toBle'[j] = toBle[j + 1]
    BY DEF Runs
  <2> QED
    BY <1>1, <2>1
<1>6. Answered'
  BY <1>2, <1>3, <1>4, <1>5 DEF Answered
<1>7. ~Asked'
  BY <1>1, <1>2, AnswerKinds DEF Asked, AnswerTypes
<1> QED
  BY <1>1, <1>6, <1>7 DEF Dialogue

LEMMA DialogueWritten ==
  ASSUME Dialogue, NEW packet, Runs(packet), toBle[1].c = "write", state' = state,
         packet.t = "write"
  PROVE  Dialogue'
<1>1. \A j \in 1..Len(toMcu') : \/ j \in 1..Len(toMcu) /\ toMcu'[j] = toMcu[j]
                                \/ toMcu'[j].t = "write"
  BY DEF Runs
<1>2. \A j \in 1..Len(toBle') : j + 1 \in 2..Len(toBle) /\ toBle'[j] = toBle[j + 1]
  BY DEF Runs
<1>3. CASE state \in Awaits /\ Asked
  <2>1. PICK i \in 1..Len(toBle) :
          /\ toBle[i].c = Request(state)
          /\ \A j \in 1..Len(toBle) : j # i => toBle[j].c = "write"
          /\ \A j \in 1..Len(toMcu) : toMcu[j].t = "write"
    BY <1>3 DEF Asked
  <2>2. CASE Request(state) = "write"
    BY <2>2 DEF Request
  <2>3. CASE Request(state) # "write"
    <3>1. i # 1 /\ i - 1 \in 1..Len(toBle') /\ toBle'[i - 1].c = Request(state')
      <4>1. i \in Nat /\ i # 1 /\ Len(toBle) \in Nat /\ Len(toBle') = Len(toBle) - 1
        BY <2>1, <2>3 DEF Runs
      <4>2. i - 1 \in 1..(Len(toBle) - 1) /\ (i - 1) + 1 = i
        BY <4>1
      <4> QED
        BY <2>1, <4>1, <4>2 DEF Runs
    <3>2. \A j \in 1..Len(toBle') : j # i - 1 => toBle'[j].c = "write"
      BY <1>2, <2>1, <3>1
    <3>3. \A j \in 1..Len(toMcu') : toMcu'[j].t = "write"
      BY <1>1, <2>1
    <3> QED
      BY <1>3, <3>1, <3>2, <3>3 DEF Dialogue, Asked
  <2> QED
    BY <2>2, <2>3
<1>4. CASE state \in Awaits /\ Answered
  <2>1. PICK i \in 1..Len(toMcu) :
          /\ toMcu[i].t = Answer(state)
          /\ \A j \in 1..(i - 1) : toMcu[j].t = "write"
          /\ \A j \in (i + 1)..Len(toMcu) : toMcu[j].t = "write" \/ Event(toMcu[j])
          /\ \A j \in 1..Len(toBle) : toBle[j].c = "write"
    BY <1>4 DEF Answered
  <2>2. i \in 1..Len(toMcu') /\ toMcu'[i].t = Answer(state')
    BY <2>1 DEF Runs
  <2>3. \A j \in 1..(i - 1) : toMcu'[j].t = "write"
    BY <2>1 DEF Runs
  <2>4. \A j \in (i + 1)..Len(toMcu') : toMcu'[j].t = "write" \/ Event(toMcu'[j])
    <3> SUFFICES ASSUME NEW j \in (i + 1)..Len(toMcu')
                 PROVE  toMcu'[j].t = "write" \/ Event(toMcu'[j])
      OBVIOUS
    <3>1. j \in 1..Len(toMcu') /\ j \in Nat
      BY DEF Runs
    <3>2. CASE toMcu'[j] = toMcu[j] /\ j \in 1..Len(toMcu)
      <4>1. j \in (i + 1)..Len(toMcu)
        BY <3>2
      <4> QED
        BY <2>1, <3>2, <4>1
    <3> QED
      BY <1>1, <3>1, <3>2
  <2>5. \A j \in 1..Len(toBle') : toBle'[j].c = "write"
    BY <1>2, <2>1
  <2> QED
    BY <1>4, <2>2, <2>3, <2>4, <2>5 DEF Dialogue, Answered, Event
<1>5. CASE state \notin Awaits
  <2>1. \A j \in 1..Len(toMcu') : toMcu'[j].t = "write" \/ Event(toMcu'[j])
    BY <1>1, <1>5 DEF Dialogue, Settled, Event
  <2>2. \A j \in 1..Len(toBle') : toBle'[j].c = "write"
    BY <1>2, <1>5 DEF Dialogue, Settled
  <2> QED
    BY <1>5, <2>1, <2>2 DEF Dialogue, Settled, Event
<1> QED
  BY <1>3, <1>4, <1>5 DEF Dialogue

LEMMA DialogueModule ==
  ASSUME TypeOK, Dialogue, ModuleRuns \/ WriteFails
  PROVE  Dialogue'
<1> USE DEF sram
<1>1. ASSUME NEW c \in {"address", "params", "data", "scan", "mode"},
             NEW t, t = IF c = "scan" THEN "data" ELSE c,
             Executes(c), Answers(Plain(t))
      PROVE  Dialogue'
  <2>1. Runs(Plain(t)) /\ toBle[1].c = c /\ c # "write" /\ state' = state
    BY <1>1, ExecutesRuns DEF Executes
  <2>2. state \in Awaits /\ c = Request(state)
    BY <2>1, HeadAsked
  <2>3. Plain(t).t = Answer(state)
    BY <1>1, <2>2 DEF Plain, Answer, Request, Awaits
  <2> QED
    BY <2>1, <2>3, DialogueAnswers
<1>2. ASSUME NEW ok, Executes("write"), Answers(Written(ok))
      PROVE  Dialogue'
  <2>1. Runs(Written(ok)) /\ toBle[1].c = "write" /\ state' = state
    BY <1>2, ExecutesRuns DEF Executes
  <2> QED
    BY <2>1, DialogueWritten DEF Written
<1>3. CASE ModuleAddressGet
  BY <1>1, <1>3 DEF ModuleAddressGet
<1>4. CASE ModuleSetAdvParameters
  BY <1>1, <1>4 DEF ModuleSetAdvParameters
<1>5. CASE ModuleSetAdvData
  BY <1>1, <1>5 DEF ModuleSetAdvData
<1>6. CASE ModuleSetMode
  BY <1>1, <1>6 DEF ModuleSetMode
<1>7. CASE ModuleWrite \/ WriteFails
  BY <1>2, <1>7 DEF ModuleWrite, WriteFails
<1> QED
  BY <1>3, <1>4, <1>5, <1>6, <1>7 DEF ModuleRuns

\* An event joins the queue, while the module is connected or advertises.
Joins(packet) ==
  /\ Len(toMcu) \in Nat /\ Len(toMcu') = Len(toMcu) + 1
  /\ \A j \in 1..Len(toMcu) : toMcu'[j] = toMcu[j]
  /\ toMcu'[Len(toMcu) + 1] = packet
LEMMA EventsJoin ==
  ASSUME TypeOK, NEW packet, Events(packet)
  PROVE  Joins(packet)
BY Queues, Appended DEF Events, Joins

LEMMA DialogueEvent ==
  ASSUME Dialogue, Linked, link \/ advertising, NEW packet, Joins(packet), Event(packet),
         state' = state, toBle' = toBle
  PROVE  Dialogue'
<1>1. ASSUME state \in Awaits PROVE ~Asked
  BY <1>1 DEF Linked, Early, Awaits
<1>2. \A j \in 1..Len(toMcu') : \/ j \in 1..Len(toMcu) /\ toMcu'[j] = toMcu[j]
                                \/ Event(toMcu'[j])
  BY DEF Joins
<1>3. CASE state \in Awaits
  <2>1. PICK i \in 1..Len(toMcu) :
          /\ toMcu[i].t = Answer(state)
          /\ \A j \in 1..(i - 1) : toMcu[j].t = "write"
          /\ \A j \in (i + 1)..Len(toMcu) : toMcu[j].t = "write" \/ Event(toMcu[j])
          /\ \A j \in 1..Len(toBle) : toBle[j].c = "write"
    BY <1>1, <1>3 DEF Dialogue, Answered
  <2>2. i \in 1..Len(toMcu') /\ toMcu'[i].t = Answer(state')
    BY <2>1 DEF Joins
  <2>3. \A j \in 1..(i - 1) : toMcu'[j].t = "write"
    BY <2>1 DEF Joins
  <2>4. \A j \in (i + 1)..Len(toMcu') : toMcu'[j].t = "write" \/ Event(toMcu'[j])
    <3> SUFFICES ASSUME NEW j \in (i + 1)..Len(toMcu')
                 PROVE  toMcu'[j].t = "write" \/ Event(toMcu'[j])
      OBVIOUS
    <3>1. j \in 1..Len(toMcu') /\ j \in Nat
      BY DEF Joins
    <3>2. CASE toMcu'[j] = toMcu[j] /\ j \in 1..Len(toMcu)
      <4>1. j \in (i + 1)..Len(toMcu)
        BY <3>2
      <4> QED
        BY <2>1, <3>2, <4>1
    <3> QED
      BY <1>2, <3>1, <3>2
  <2> QED
    BY <1>3, <2>1, <2>2, <2>3, <2>4 DEF Dialogue, Answered, Event
<1>4. CASE state \notin Awaits
  <2>1. \A j \in 1..Len(toMcu') : toMcu'[j].t = "write" \/ Event(toMcu'[j])
    BY <1>2, <1>4 DEF Dialogue, Settled
  <2> QED
    BY <1>4, <2>1 DEF Dialogue, Settled, Event
<1> QED
  BY <1>3, <1>4

LEMMA DialogueAir ==
  ASSUME TypeOK, Dialogue, Linked, Air \/ ParametersChange
  PROVE  Dialogue'
<1> USE DEF sram
<1>1. ASSUME NEW packet, Events(packet), Event(packet), link \/ advertising
      PROVE  Dialogue'
  <2>1. Joins(packet) /\ state' = state /\ toBle' = toBle
    BY <1>1, EventsJoin DEF Events
  <2> QED
    BY <1>1, <2>1, DialogueEvent
<1>2. CASE Connect \/ Disconnect \/ PartArrives \/ ParametersChange
  BY <1>1, <1>2 DEF Connect, Disconnect, PartArrives, ParametersChange, Event, Status, Plain,
     Value, Linked
<1>3. CASE \E m \in Messages : PhoneWrites(m)
  BY <1>3 DEF PhoneWrites, Dialogue, Asked, Answered, Settled, Event
<1> QED
  BY <1>2, <1>3 DEF Air

LEMMA DialogueMain == ASSUME Main PROVE Dialogue' /\ Answered' /\ ~Asked'
<1>1. /\ state' = "BLE_BOOT_W" /\ Len(toMcu') = 1 /\ toMcu'[1].t = "boot" /\ Len(toBle') = 0
  BY DEF Main, ModuleLosesAll, Plain
<1>2. Answered'
  BY <1>1 DEF Answered, Answer
<1>3. ~Asked'
  BY <1>1 DEF Asked
<1> QED
  BY <1>1, <1>2, <1>3 DEF Dialogue, Awaits

\* An event at the head: of a connection the MCU has yet to hear of, or of one
\* it serves.
LEMMA HeadServes ==
  ASSUME TypeOK, Dialogue, Linked, Takes, Event(toMcu[1])
  PROVE  /\ state \notin Early /\ state \notin Awaits /\ ~advertising /\ ~Silent
         /\ Connecting(toMcu[1]) => state = "ADVERTISING"
         /\ ~Connecting(toMcu[1]) => state \in Serving
         /\ \A i \in 2..Len(toMcu) : ~Connecting(toMcu[i])
<1>1. state \notin Awaits
  BY HeadEvent
<1>2. 1 \in 1..Len(toMcu) /\ ~Silent
  BY DEF Takes, Silent
<1>3. state \notin Early /\ ~advertising
  BY <1>2 DEF Linked
<1>4. \A i \in 2..Len(toMcu) : i \in 1..Len(toMcu) /\ 1 \in 1..(i - 1)
  OBVIOUS
<1>5. \A i \in 2..Len(toMcu) : ~Connecting(toMcu[i])
  BY <1>4 DEF Linked
<1>6. \A i \in 1..Len(toMcu) : i = 1 \/ i \in 2..Len(toMcu)
  OBVIOUS
<1>7. Connecting(toMcu[1]) => state \in Open
  BY <1>2 DEF Linked
<1>8. ~Connecting(toMcu[1]) => state \notin Open
  BY <1>2, <1>5, <1>6 DEF Linked
<1> QED
  BY <1>1, <1>2, <1>3, <1>5, <1>7, <1>8 DEF TypeOK, McuTypeOK, States, Early, Awaits, Sending,
     Open, Serving

-----------------------------------------------------------------------------
(* Turned and Fresh.                                                       *)

LEMMA TurnedStep ==
  ASSUME TypeOK, Turned, Dialogue, Linked, Next
  PROVE  Turned'
<1> USE DEF session, module, history, sram
<1>1. CASE FsmBleBoot \/ FsmSystemAddressGet \/ FsmAdvParamSet \/ FsmAdvDataSet
           \/ FsmAdvSrDataSet \/ FsmDisconnected
  BY <1>1 DEF Turned, Awaits, Sends, FsmBleBoot, FsmSystemAddressGet, FsmAdvParamSet,
     FsmAdvDataSet, FsmAdvSrDataSet, FsmDisconnected
<1>2. CASE FsmIdle \/ FsmAdvertising \/ WakeUp
  BY <1>2 DEF Turned, Awaits, FsmIdle, Idle, FsmAdvertising, WakeUp
<1>3. CASE RefuseTicket \/ StoreTicketNonce \/ ForgedTicket \/ OpenSession
  BY <1>3 DEF Turned, RefuseTicket, StoreTicketNonce, ForgedTicket, FailTicket, OpenSession, Respond
<1>4. CASE RefuseRequest \/ ForgedRequest \/ StartRequest \/ RespondRequest
  <2>1. CASE RefuseRequest \/ ForgedRequest \/ StartRequest
    BY <2>1 DEF Turned, RefuseRequest, ForgedRequest, FailRequest, StartRequest
  <2>2. CASE RespondRequest
    BY <2>2 DEF Turned, RespondRequest, Respond
  <2> QED
    BY <1>4, <2>1, <2>2
<1>5. CASE Packet
  <2>1. turn' = "fsm" \/ (turn' = "overrun" /\ EvtAttributesValue)
    BY <1>5 DEF Packet, EvtSystemBoot, RspSystemAddressGet, RspSetAdvParameters, RspSetAdvData,
       RspSetMode, EvtDisconnected, EvtConnectionStatus, EvtAttributesValue,
       RspAttributesWrite, RxTimeout, Lands
  <2>2. CASE turn' = "overrun" /\ EvtAttributesValue
    <3>1. turn = "pkt" /\ Takes /\ toMcu[1].t = "value"
      BY <2>2, ReceiveTakes DEF EvtAttributesValue, Receive
    <3>2. state \in Serving
      BY <3>1, HeadServes DEF Event, Connecting
    <3>3. state \in {"CONNECTED", "REQUEST_W"}
      BY <3>1, <3>2 DEF Turned, Serving, Awaits
    <3>4. state' \in {state, "TICKET", "REQUEST"}
      BY <2>2 DEF EvtAttributesValue
    <3>5. state' = state
      <4> DEFINE len == msgBuf.len + PartLens(Head(toMcu).part.m)[Head(toMcu).part.i]
      <4>1. len > MAX_MESSAGE_LEN
        BY <2>2 DEF EvtAttributesValue
      <4>2. len # TICKET_LEN /\ len # REQUEST_LEN
        <5>1. Head(toMcu).part \in Parts
          <6>1. Head(toMcu) \in Packets /\ Head(toMcu).t = "value"
            BY <2>2, ReceiveTakes DEF EvtAttributesValue, Receive
          <6> QED
            BY <6>1, ValuePacket
        <5>2. len \in Nat
          BY <5>1, PartLength DEF TypeOK, McuTypeOK
        <5> QED
          BY <4>1, <5>2 DEF MAX_MESSAGE_LEN, TICKET_LEN, REQUEST_LEN
      <4> HIDE DEF len
      <4>3. state' = CASE state = "CONNECTED" /\ len = TICKET_LEN -> "TICKET"
                       [] state = "REQUEST_W" /\ len = REQUEST_LEN -> "REQUEST"
                       [] OTHER -> state
        BY <2>2 DEF EvtAttributesValue, len
      <4> QED
        BY <4>2, <4>3
    <3> QED
      BY <2>2, <3>3, <3>5 DEF Turned
  <2> QED
    BY <2>1, <2>2 DEF Turned
<1>6. ASSUME UNCHANGED <<state, turn>> PROVE Turned'
  BY <1>6 DEF Turned
<1>7. CASE ModuleRuns \/ WriteFails
  BY <1>6, <1>7 DEF ModuleRuns, ModuleAddressGet, ModuleSetAdvParameters, ModuleSetAdvData,
     ModuleSetMode, ModuleWrite, WriteFails, Executes
<1>8. CASE Air \/ ParametersChange
  BY <1>6, <1>8 DEF Air, Connect, Disconnect, PartArrives, PhoneWrites, ParametersChange, Events
<1>9. CASE ModuleReboot
  BY <1>6, <1>9 DEF ModuleReboot
<1>10. CASE PowerLoss \/ SoftReset
  BY <1>10 DEF PowerLoss, SoftReset, Main, Turned
<1> QED
  BY <1>1, <1>2, <1>3, <1>4, <1>5, <1>7, <1>8, <1>9, <1>10 DEF Next, Mcu, Fsm, Disturbance

LEMMA FreshStep ==
  ASSUME TypeOK, Turned, Dialogue, Linked, Fresh, Next
  PROVE  Fresh'
<1> USE DEF session, module, history, sram
<1>1. ASSUME msgBuf' = EmptyBuf PROVE Fresh'
  BY <1>1 DEF Fresh
<1>2. ASSUME msgBuf' = msgBuf, state' = state PROVE Fresh'
  BY <1>2 DEF Fresh
<1>3. ASSUME msgBuf' = msgBuf, state \in Awaits \cup Sending PROVE Fresh'
  BY <1>3 DEF Fresh
<1>4. CASE FsmBleBoot \/ FsmSystemAddressGet \/ FsmAdvParamSet \/ FsmAdvDataSet
           \/ FsmAdvSrDataSet
  BY <1>3, <1>4 DEF Sending, Sends, FsmBleBoot, FsmSystemAddressGet, FsmAdvParamSet,
     FsmAdvDataSet, FsmAdvSrDataSet
<1>5. CASE FsmDisconnected \/ RefuseTicket \/ ForgedTicket \/ OpenSession \/ RefuseRequest
           \/ ForgedRequest \/ RespondRequest
  BY <1>1, <1>5 DEF FsmDisconnected, RefuseTicket, ForgedTicket, FailTicket, OpenSession, Respond,
     RefuseRequest, ForgedRequest, FailRequest, RespondRequest
<1>6. CASE FsmIdle \/ FsmAdvertising \/ WakeUp \/ StoreTicketNonce \/ RxTimeout
  BY <1>2, <1>6 DEF FsmIdle, FsmAdvertising, WakeUp, StoreTicketNonce, RxTimeout
<1>7. CASE StartRequest
  BY <1>7 DEF StartRequest, Fresh, Awaits, Sending, Open
<1>8. CASE Packet
  <2>1. ASSUME NEW t \in AnswerTypes, NEW to, Lands(t, to) PROVE Fresh'
    <3>1. state \in Awaits /\ msgBuf' = msgBuf
      BY <2>1, ReceiveTakes, HeadAnswers DEF Lands
    <3> QED
      BY <1>3, <3>1
  <2>2. CASE EvtSystemBoot \/ RspSystemAddressGet \/ RspSetAdvParameters \/ RspSetAdvData \/ RspSetMode
    BY <2>1, <2>2 DEF EvtSystemBoot, RspSystemAddressGet, RspSetAdvParameters, RspSetAdvData,
       RspSetMode, AnswerTypes
  <2>3. CASE EvtDisconnected
    BY <2>3 DEF EvtDisconnected, Lands, Fresh, Awaits, Sending, Open
  <2>4. CASE EvtConnectionStatus
    <3>1. state' \in {"CONNECTED", state} /\ msgBuf' = msgBuf
      BY <2>4 DEF EvtConnectionStatus
    <3> QED
      BY <3>1 DEF Fresh, Awaits, Sending, Open
  <2>5. CASE EvtAttributesValue
    <3>1. state' \in {"TICKET", "REQUEST", state}
      BY <2>5 DEF EvtAttributesValue
    <3>2. Takes /\ toMcu[1].t = "value"
      BY <2>5, ReceiveTakes DEF EvtAttributesValue
    <3>3. state \in Serving
      BY <3>2, HeadServes DEF Event, Connecting
    <3> QED
      BY <3>1, <3>3 DEF Fresh, Awaits, Sending, Open, Serving
  <2>6. CASE RspAttributesWrite
    BY <1>2, <2>6 DEF RspAttributesWrite
  <2> QED
    BY <1>6, <1>8, <2>2, <2>3, <2>4, <2>5, <2>6 DEF Packet
<1>9. CASE ModuleRuns \/ WriteFails
  BY <1>2, <1>9 DEF ModuleRuns, ModuleAddressGet, ModuleSetAdvParameters, ModuleSetAdvData,
     ModuleSetMode, ModuleWrite, WriteFails, Executes
<1>10. CASE Air \/ ParametersChange
  BY <1>2, <1>10 DEF Air, Connect, Disconnect, PartArrives, PhoneWrites, ParametersChange, Events
<1>11. CASE ModuleReboot
  BY <1>2, <1>11 DEF ModuleReboot
<1>12. CASE PowerLoss \/ SoftReset
  BY <1>1, <1>12 DEF PowerLoss, SoftReset, Main
<1> QED
  BY <1>4, <1>5, <1>6, <1>7, <1>8, <1>9, <1>10, <1>11, <1>12 DEF Next, Mcu, Fsm, Disturbance

-----------------------------------------------------------------------------
(* Linked.                                                                 *)

\* Steps of the MCU that leave the queue of packets alone.
LEMMA LinkedQuiet ==
  ASSUME Linked, UNCHANGED <<toMcu, link, advertising, air>>,
         state' \in Early \/ (state' = "ADVERTISING_W" /\ Asked')
           => state \in Early \/ (state = "ADVERTISING_W" /\ Asked),
         state \in Open => state' \in Open,
         state' \in Open => state \in Open \/ state \in Early
  PROVE  Linked'
<1>1. Silent' <=> Silent
  BY DEF Silent, Event
<1>2. /\ state' \in Early \/ (state' = "ADVERTISING_W" /\ Asked') => ~link' /\ ~advertising' /\ Silent'
      /\ advertising' => state' \in Open /\ ~link' /\ Silent'
      /\ air' # <<>> => link'
      /\ state' \in Open /\ (link' \/ ~Silent') => \E i \in 1..Len(toMcu') : Connecting(toMcu'[i])
  BY <1>1 DEF Linked, Connecting
<1>3. /\ \A i \in 1..Len(toMcu') : toMcu'[i].t = "disconnected" =>
           ~link' /\ ~advertising' /\ \A j \in (i + 1)..Len(toMcu') : ~Event(toMcu'[j])
      /\ \A i \in 1..Len(toMcu') : toMcu'[i].t = "status" =>
           \/ toMcu'[i].flags = {0, 2}
           \/ toMcu'[i].flags = {0, 3} /\ "params" \in Faults
  BY DEF Linked, Event
<1>4. \A i \in 1..Len(toMcu') : Connecting(toMcu'[i]) =>
        state' \in Open /\ \A j \in 1..(i - 1) : ~Event(toMcu'[j])
  BY DEF Linked, Event, Connecting
<1> QED
  BY <1>2, <1>3, <1>4 DEF Linked, Event, Connecting

\* A packet is taken.
LEMMA LinkedTakes ==
  ASSUME Linked, Takes, UNCHANGED <<link, advertising, air>>,
         state' \in Early \/ (state' = "ADVERTISING_W" /\ Asked')
           => ~link /\ ~advertising /\ Silent',
         advertising => state' \in Open,
         state' \in Open /\ (link \/ ~Silent) => \E i \in 2..Len(toMcu) : Connecting(toMcu[i]),
         \A i \in 2..Len(toMcu) : Connecting(toMcu[i]) => state' \in Open
  PROVE  Linked'
<1>1. \A j \in 1..Len(toMcu') : /\ j \in Nat /\ j + 1 \in 2..Len(toMcu) /\ j + 1 \in 1..Len(toMcu)
                                /\ toMcu'[j] = toMcu[j + 1]
  BY DEF Takes
<1>2. Silent => Silent'
  BY <1>1 DEF Silent, Event
<1>3. state' \in Open /\ (link' \/ ~Silent') => \E i \in 1..Len(toMcu') : Connecting(toMcu'[i])
  <2> SUFFICES ASSUME state' \in Open, link' \/ ~Silent'
               PROVE  \E i \in 1..Len(toMcu') : Connecting(toMcu'[i])
    OBVIOUS
  <2>1. PICK i \in 2..Len(toMcu) : Connecting(toMcu[i])
    BY <1>2
  <2>2. i - 1 \in 1..Len(toMcu') /\ toMcu'[i - 1] = toMcu[i]
    BY DEF Takes
  <2> QED
    BY <2>1, <2>2
<1>4. \A i \in 1..Len(toMcu') : toMcu'[i].t = "disconnected" =>
        ~link' /\ ~advertising' /\ \A j \in (i + 1)..Len(toMcu') : ~Event(toMcu'[j])
  <2> SUFFICES ASSUME NEW i \in 1..Len(toMcu'), toMcu'[i].t = "disconnected"
               PROVE  /\ ~link /\ ~advertising
                      /\ \A j \in (i + 1)..Len(toMcu') : ~Event(toMcu'[j])
    OBVIOUS
  <2>1. /\ ~link /\ ~advertising
        /\ \A j \in ((i + 1) + 1)..Len(toMcu) : ~Event(toMcu[j])
    BY <1>1 DEF Linked
  <2>2. \A j \in (i + 1)..Len(toMcu') : j + 1 \in ((i + 1) + 1)..Len(toMcu) /\ toMcu'[j] = toMcu[j + 1]
    BY DEF Takes
  <2> QED
    BY <2>1, <2>2
<1>5. \A i \in 1..Len(toMcu') : Connecting(toMcu'[i]) =>
        state' \in Open /\ \A j \in 1..(i - 1) : ~Event(toMcu'[j])
  <2> SUFFICES ASSUME NEW i \in 1..Len(toMcu'), Connecting(toMcu'[i])
               PROVE  state' \in Open /\ \A j \in 1..(i - 1) : ~Event(toMcu'[j])
    OBVIOUS
  <2>1. state' \in Open /\ \A j \in 1..((i + 1) - 1) : ~Event(toMcu[j])
    BY <1>1 DEF Linked
  <2>2. \A j \in 1..(i - 1) : j + 1 \in 1..((i + 1) - 1) /\ toMcu'[j] = toMcu[j + 1]
    BY DEF Takes
  <2> QED
    BY <2>1, <2>2
<1>6. \A i \in 1..Len(toMcu') : toMcu'[i].t = "status" =>
        \/ toMcu'[i].flags = {0, 2}
        \/ toMcu'[i].flags = {0, 3} /\ "params" \in Faults
  BY <1>1 DEF Linked
<1>7. /\ state' \in Early \/ (state' = "ADVERTISING_W" /\ Asked') => ~link' /\ ~advertising' /\ Silent'
      /\ advertising' => state' \in Open /\ ~link' /\ Silent'
      /\ air' # <<>> => link'
  BY <1>2 DEF Linked
<1> QED
  BY <1>3, <1>4, <1>5, <1>6, <1>7 DEF Linked, Event, Connecting

\* The module answers a command; only that to set the mode advertises.
LEMMA LinkedRuns ==
  ASSUME Linked, NEW packet, Runs(packet), ~Event(packet), UNCHANGED <<state, link, air>>,
         state = "ADVERTISING_W" /\ Asked' => Asked,
         advertising' # advertising => state = "ADVERTISING_W" /\ Asked /\ ~Asked'
  PROVE  Linked'
<1>1. \A j \in 1..Len(toMcu') : \/ j \in 1..Len(toMcu) /\ toMcu'[j] = toMcu[j]
                                \/ j = Len(toMcu) + 1 /\ ~Event(toMcu'[j])
  <2> SUFFICES ASSUME NEW j \in 1..Len(toMcu')
               PROVE  \/ j \in 1..Len(toMcu) /\ toMcu'[j] = toMcu[j]
                      \/ j = Len(toMcu) + 1 /\ ~Event(toMcu'[j])
    OBVIOUS
  <2>1. /\ Len(toMcu) \in Nat /\ Len(toMcu') = Len(toMcu) + 1
        /\ \A k \in 1..Len(toMcu) : toMcu'[k] = toMcu[k]
        /\ toMcu'[Len(toMcu) + 1] = packet
    BY DEF Runs
  <2>2. j = Len(toMcu) + 1 \/ j \in 1..Len(toMcu)
    BY <2>1
  <2> QED
    BY <2>1, <2>2
<1>2. /\ Len(toMcu) \in Nat /\ \A j \in 1..Len(toMcu) : j \in 1..Len(toMcu') /\ toMcu'[j] = toMcu[j]
  BY DEF Runs
<1>3. Silent => Silent'
  BY <1>1 DEF Silent, Event
<1>4. Silent' => Silent
  BY <1>2 DEF Silent, Event
<1>5. advertising' # advertising => ~link /\ Silent /\ state \in Open
  BY DEF Linked, Open
<1>6. /\ state' \in Early \/ (state' = "ADVERTISING_W" /\ Asked') => ~link' /\ ~advertising' /\ Silent'
      /\ advertising' => state' \in Open /\ ~link' /\ Silent'
      /\ air' # <<>> => link'
  <2>1. state' \in Early => advertising' = advertising
    BY DEF Early, Awaits, Sending
  <2>2. state' = "ADVERTISING_W" /\ Asked' => advertising' = advertising
    OBVIOUS
  <2> QED
    BY <1>3, <1>5, <2>1, <2>2 DEF Linked
<1>7. state' \in Open /\ (link' \/ ~Silent') => \E i \in 1..Len(toMcu') : Connecting(toMcu'[i])
  <2> SUFFICES ASSUME state \in Open, link \/ ~Silent
               PROVE  \E i \in 1..Len(toMcu') : Connecting(toMcu'[i])
    BY <1>3
  <2>1. PICK i \in 1..Len(toMcu) : Connecting(toMcu[i])
    BY DEF Linked
  <2> QED
    BY <1>2, <2>1
<1>8. \A i \in 1..Len(toMcu') : toMcu'[i].t = "disconnected" =>
        ~link' /\ ~advertising' /\ \A j \in (i + 1)..Len(toMcu') : ~Event(toMcu'[j])
  <2> SUFFICES ASSUME NEW i \in 1..Len(toMcu'), toMcu'[i].t = "disconnected"
               PROVE  /\ ~link /\ ~advertising'
                      /\ \A j \in (i + 1)..Len(toMcu') : ~Event(toMcu'[j])
    OBVIOUS
  <2>1. i \in 1..Len(toMcu) /\ toMcu'[i] = toMcu[i]
    BY <1>1 DEF Event
  <2>2. ~link /\ ~advertising /\ \A j \in (i + 1)..Len(toMcu) : ~Event(toMcu[j])
    BY <2>1 DEF Linked
  <2>3. ~Silent
    BY <2>1 DEF Silent, Event
  <2>4. \A j \in (i + 1)..Len(toMcu') : j \in 1..Len(toMcu') /\ (j \in 1..Len(toMcu) => j \in (i + 1)..Len(toMcu))
    BY <1>2, <2>1
  <2> QED
    BY <1>1, <1>5, <2>2, <2>3, <2>4
<1>9. \A i \in 1..Len(toMcu') : Connecting(toMcu'[i]) =>
        state' \in Open /\ \A j \in 1..(i - 1) : ~Event(toMcu'[j])
  <2> SUFFICES ASSUME NEW i \in 1..Len(toMcu'), Connecting(toMcu'[i])
               PROVE  state \in Open /\ \A j \in 1..(i - 1) : ~Event(toMcu'[j])
    OBVIOUS
  <2>1. i \in 1..Len(toMcu) /\ toMcu'[i] = toMcu[i]
    BY <1>1 DEF Event, Connecting
  <2>2. state \in Open /\ \A j \in 1..(i - 1) : ~Event(toMcu[j])
    BY <2>1 DEF Linked
  <2>3. \A j \in 1..(i - 1) : toMcu'[j] = toMcu[j]
    BY <1>2, <2>1
  <2> QED
    BY <2>2, <2>3
<1>10. \A i \in 1..Len(toMcu') : toMcu'[i].t = "status" =>
        \/ toMcu'[i].flags = {0, 2}
        \/ toMcu'[i].flags = {0, 3} /\ "params" \in Faults
  BY <1>1 DEF Linked, Event
<1> QED
  BY <1>6, <1>7, <1>8, <1>9, <1>10 DEF Linked, Event, Connecting

\* An event of the connection joins the queue.
LEMMA LinkedEvent ==
  ASSUME Dialogue, Linked, link, NEW packet, Joins(packet), Event(packet), ~Connecting(packet),
         UNCHANGED <<state, toBle, advertising>>,
         air' # <<>> => link',
         link' <=> packet.t # "disconnected",
         packet.t = "status" => packet.flags = {0, 3} /\ "params" \in Faults
  PROVE  Linked'
<1>1. \A j \in 1..Len(toMcu') : \/ j \in 1..Len(toMcu) /\ toMcu'[j] = toMcu[j]
                                \/ j = Len(toMcu) + 1 /\ toMcu'[j] = packet
  <2> SUFFICES ASSUME NEW j \in 1..Len(toMcu')
               PROVE  \/ j \in 1..Len(toMcu) /\ toMcu'[j] = toMcu[j]
                      \/ j = Len(toMcu) + 1 /\ toMcu'[j] = packet
    OBVIOUS
  <2>1. /\ Len(toMcu) \in Nat /\ Len(toMcu') = Len(toMcu) + 1
        /\ \A k \in 1..Len(toMcu) : toMcu'[k] = toMcu[k]
        /\ toMcu'[Len(toMcu) + 1] = packet
    BY DEF Joins
  <2>2. j = Len(toMcu) + 1 \/ j \in 1..Len(toMcu)
    BY <2>1
  <2> QED
    BY <2>1, <2>2
<1>2. /\ Len(toMcu) \in Nat /\ Len(toMcu') = Len(toMcu) + 1
      /\ \A j \in 1..Len(toMcu) : j \in 1..Len(toMcu') /\ toMcu'[j] = toMcu[j]
  BY DEF Joins
<1>3. ~advertising /\ state \notin Early /\ \A i \in 1..Len(toMcu) : toMcu[i].t # "disconnected"
  BY DEF Linked
<1>4. ~Asked'
  BY <1>2 DEF Joins, Asked, Event
<1>5. /\ state' \in Early \/ (state' = "ADVERTISING_W" /\ Asked') => ~link' /\ ~advertising' /\ Silent'
      /\ advertising' => state' \in Open /\ ~link' /\ Silent'
  BY <1>3, <1>4
<1>6. state' \in Open /\ (link' \/ ~Silent') => \E i \in 1..Len(toMcu') : Connecting(toMcu'[i])
  <2> SUFFICES ASSUME state \in Open PROVE \E i \in 1..Len(toMcu') : Connecting(toMcu'[i])
    OBVIOUS
  <2>1. PICK i \in 1..Len(toMcu) : Connecting(toMcu[i])
    BY DEF Linked
  <2> QED
    BY <1>2, <2>1
<1>7. \A i \in 1..Len(toMcu') : toMcu'[i].t = "disconnected" =>
        ~link' /\ ~advertising' /\ \A j \in (i + 1)..Len(toMcu') : ~Event(toMcu'[j])
  <2> SUFFICES ASSUME NEW i \in 1..Len(toMcu'), toMcu'[i].t = "disconnected"
               PROVE  ~link' /\ ~advertising' /\ \A j \in (i + 1)..Len(toMcu') : FALSE
    OBVIOUS
  <2>1. i = Len(toMcu) + 1 /\ packet.t = "disconnected"
    BY <1>1, <1>3
  <2>2. ~link' /\ ~advertising'
    BY <1>3, <2>1
  <2>3. \A j \in (i + 1)..Len(toMcu') : FALSE
    BY <1>2, <2>1
  <2> QED
    BY <2>2, <2>3
<1>8. \A i \in 1..Len(toMcu') : Connecting(toMcu'[i]) =>
        state' \in Open /\ \A j \in 1..(i - 1) : ~Event(toMcu'[j])
  <2> SUFFICES ASSUME NEW i \in 1..Len(toMcu'), Connecting(toMcu'[i])
               PROVE  state \in Open /\ \A j \in 1..(i - 1) : ~Event(toMcu'[j])
    OBVIOUS
  <2>1. i \in 1..Len(toMcu) /\ toMcu'[i] = toMcu[i]
    BY <1>1
  <2>2. state \in Open /\ \A j \in 1..(i - 1) : ~Event(toMcu[j])
    BY <2>1 DEF Linked
  <2>3. \A j \in 1..(i - 1) : toMcu'[j] = toMcu[j]
    BY <1>2, <2>1
  <2> QED
    BY <2>2, <2>3
<1>9. \A i \in 1..Len(toMcu') : toMcu'[i].t = "status" =>
        \/ toMcu'[i].flags = {0, 2}
        \/ toMcu'[i].flags = {0, 3} /\ "params" \in Faults
  BY <1>1 DEF Linked
<1> QED
  BY <1>5, <1>6, <1>7, <1>8, <1>9 DEF Linked, Event, Connecting

\* A phone connects.
LEMMA LinkedConnect == ASSUME TypeOK, Linked, Connect PROVE Linked'
<1> DEFINE packet == Status({0, 2})
           n == Len(toMcu) + 1
<1>1. /\ Joins(packet) /\ link' /\ ~advertising' /\ advertising
      /\ state' = state /\ toBle' = toBle
  BY EventsJoin DEF Connect, Events, sram
<1>2. state \in Open /\ Silent /\ state \notin Early
  BY <1>1 DEF Linked
<1>3. packet.t = "status" /\ packet.flags = {0, 2} /\ Event(packet) /\ Connecting(packet)
  BY DEF Status, Event, Connecting
<1>4. /\ n \in 1..Len(toMcu') /\ toMcu'[n] = packet
      /\ \A j \in 1..Len(toMcu') : j = n \/ (~Event(toMcu'[j]) /\ j < n)
  <2>1. n \in 1..Len(toMcu') /\ toMcu'[n] = packet
    BY <1>1 DEF Joins
  <2>2. \A j \in 1..Len(toMcu') : j = n \/ (j \in 1..Len(toMcu) /\ toMcu'[j] = toMcu[j] /\ j < n)
    BY <1>1 DEF Joins
  <2>3. \A j \in 1..Len(toMcu) : ~Event(toMcu[j])
    BY <1>2 DEF Silent
  <2> QED
    BY <2>1, <2>2, <2>3
<1>5. ~Asked'
  BY <1>3, <1>4 DEF Asked
<1>6. \A j \in 1..(n - 1) : ~Event(toMcu'[j])
  <2>1. \A j \in 1..(n - 1) : j \in 1..Len(toMcu') /\ j # n
    BY <1>1 DEF Joins
  <2> QED
    BY <1>4, <2>1
<1>7. \A j \in 1..Len(toMcu') : j # n =>
        toMcu'[j].t # "disconnected" /\ toMcu'[j].t # "status" /\ ~Connecting(toMcu'[j])
  BY <1>4 DEF Event, Connecting
<1>8. \A i \in 1..Len(toMcu') : /\ Connecting(toMcu'[i]) => i = n
                                /\ toMcu'[i].t = "status" => i = n
                                /\ toMcu'[i].t # "disconnected"
  BY <1>3, <1>4, <1>7
<1> QED
  BY <1>1, <1>2, <1>3, <1>4, <1>5, <1>6, <1>8 DEF Linked, Event, Connecting

LEMMA LinkedAir ==
  ASSUME TypeOK, Dialogue, Linked, Air \/ ParametersChange
  PROVE  Linked'
<1> USE DEF sram
<1>1. CASE Connect
  BY <1>1, LinkedConnect
<1>2. CASE Disconnect
  <2>1. /\ Joins(Plain("disconnected")) /\ link /\ ~link' /\ air' = <<>>
        /\ UNCHANGED <<state, toBle, advertising>>
    BY <1>2, EventsJoin DEF Disconnect, Events
  <2>2. LET p == Plain("disconnected") IN Event(p) /\ ~Connecting(p) /\ p.t = "disconnected"
    BY DEF Plain, Event, Connecting
  <2> QED
    BY <2>1, <2>2, LinkedEvent
<1>3. CASE PartArrives
  <2>1. /\ Joins(Value(Head(air))) /\ link /\ link' = link
        /\ UNCHANGED <<state, toBle, advertising>>
    BY <1>3, EventsJoin DEF PartArrives, Events, Linked
  <2>2. LET p == Value(Head(air)) IN Event(p) /\ ~Connecting(p) /\ p.t = "value"
    BY DEF Value, Event, Connecting
  <2> QED
    BY <2>1, <2>2, LinkedEvent
<1>4. CASE ParametersChange
  <2>1. /\ Joins(Status({0, 3})) /\ link /\ link' = link /\ "params" \in Faults
        /\ UNCHANGED <<state, toBle, advertising>>
    BY <1>4, EventsJoin DEF ParametersChange, Events, Fault
  <2>2. LET p == Status({0, 3}) IN Event(p) /\ ~Connecting(p) /\ p.t = "status" /\ p.flags = {0, 3}
    BY DEF Status, Event, Connecting
  <2> QED
    BY <2>1, <2>2, LinkedEvent
<1>5. CASE \E m \in Messages : PhoneWrites(m)
  <2>1. /\ UNCHANGED <<state, toMcu, toBle, link, advertising>> /\ link
    BY <1>5 DEF PhoneWrites
  <2>2. Asked' <=> Asked
    BY <2>1 DEF Asked
  <2>3. Silent' <=> Silent
    BY <2>1 DEF Silent, Event
  <2> QED
    BY <2>1, <2>2, <2>3 DEF Linked, Event, Connecting
<1> QED
  BY <1>1, <1>2, <1>3, <1>4, <1>5 DEF Air

LEMMA LinkedFsm ==
  ASSUME TypeOK, Turned, Dialogue, Linked, Fsm
  PROVE  Linked'
<1> USE DEF session, module, history
<1>1. ASSUME UNCHANGED <<toMcu, toBle, link, advertising, air, state>> PROVE Linked'
  <2>1. Asked' <=> Asked
    BY <1>1 DEF Asked
  <2> QED
    BY <1>1, <2>1, LinkedQuiet
<1>2. CASE FsmIdle \/ FsmAdvertising \/ WakeUp \/ StoreTicketNonce
  BY <1>1, <1>2 DEF FsmIdle, FsmAdvertising, WakeUp, StoreTicketNonce
<1>3. ASSUME state \in Early, state' \in Early \cup {"ADVERTISING_W"},
             UNCHANGED <<toMcu, link, advertising, air>>
      PROVE  Linked'
  <2>1. state \notin Open
    BY <1>3 DEF Early, Awaits, Sending, Open
  <2> QED
    BY <1>3, <2>1, LinkedQuiet
<1>4. CASE FsmBleBoot \/ FsmSystemAddressGet \/ FsmAdvParamSet \/ FsmAdvDataSet
           \/ FsmAdvSrDataSet \/ FsmDisconnected
  BY <1>3, <1>4 DEF FsmBleBoot, FsmSystemAddressGet, FsmAdvParamSet, FsmAdvDataSet,
     FsmAdvSrDataSet, FsmDisconnected, Sends, Early, Awaits, Sending
<1>5. ASSUME state \in Serving, state' \in Serving, UNCHANGED <<toMcu, link, advertising, air>>
      PROVE  Linked'
  <2>1. state \notin Open /\ state' \notin Open /\ state' \notin Early /\ state' # "ADVERTISING_W"
    BY <1>5 DEF Serving, Early, Awaits, Sending, Open
  <2> QED
    BY <1>5, <2>1, LinkedQuiet
<1>6. CASE RefuseTicket \/ ForgedTicket \/ OpenSession
  BY <1>5, <1>6 DEF RefuseTicket, ForgedTicket, FailTicket, OpenSession, Turned, Serving
<1>7. CASE RefuseRequest \/ ForgedRequest \/ StartRequest \/ RespondRequest
  BY <1>5, <1>7 DEF RefuseRequest, ForgedRequest, FailRequest, StartRequest, RespondRequest,
     Turned, Serving
<1> QED
  BY <1>2, <1>4, <1>6, <1>7 DEF Fsm

\* Taking the response to a write, the question stays asked or answered.
LEMMA WriteKeepsAsked ==
  ASSUME Dialogue, Takes, toMcu[1].t = "write", state' = state, state \in Awaits
  PROVE  /\ Asked' => Asked
         /\ Answered' => Answered
<1>1. ASSUME Asked', Answered PROVE FALSE
  <2>1. PICK i \in 1..Len(toMcu) : toMcu[i].t = Answer(state)
    BY <1>1 DEF Answered
  <2>2. toMcu[i].t # "write" /\ i # 1
    BY <2>1, AnswerKinds DEF AnswerTypes
  <2>3. i - 1 \in 1..Len(toMcu') /\ toMcu'[i - 1] = toMcu[i]
    BY <2>1, <2>2 DEF Takes
  <2> QED
    BY <1>1, <2>2, <2>3 DEF Asked
<1>2. ASSUME Answered', Asked PROVE FALSE
  <2>1. PICK i \in 1..Len(toMcu') : toMcu'[i].t = Answer(state)
    BY <1>2 DEF Answered
  <2>2. toMcu'[i].t # "write"
    BY <2>1, AnswerKinds DEF AnswerTypes
  <2>3. i + 1 \in 1..Len(toMcu) /\ toMcu'[i] = toMcu[i + 1]
    BY <2>1 DEF Takes
  <2> QED
    BY <1>2, <2>2, <2>3 DEF Asked
<1> QED
  BY <1>1, <1>2 DEF Dialogue

LEMMA LinkedPacket ==
  ASSUME TypeOK, Dialogue, Linked, Packet
  PROVE  Linked'
<1> USE DEF session, module, history
<1>1. ASSUME NEW t, Receive(t) PROVE Takes /\ toMcu[1].t = t /\ UNCHANGED <<link, advertising, air>>
  BY <1>1, ReceiveTakes DEF Receive
<1>2. ASSUME Takes, Silent PROVE Silent'
  <2>1. \A j \in 1..Len(toMcu') : j + 1 \in 1..Len(toMcu) /\ toMcu'[j] = toMcu[j + 1]
    BY <1>2 DEF Takes
  <2> QED
    BY <1>2, <2>1 DEF Silent, Event
<1>3. ASSUME NEW t \in AnswerTypes, NEW to \in Sending, Lands(t, to), t # "mode"
      PROVE  Linked'
  <2>1. Takes /\ toMcu[1].t = t /\ UNCHANGED <<link, advertising, air>> /\ state' = to
    BY <1>1, <1>3 DEF Lands
  <2>2. state \in Awaits /\ t = Answer(state)
    BY <2>1, HeadAnswers
  <2>3. state \in Early
    BY <1>3, <2>2 DEF Early, Awaits, Answer, Request
  <2>4. ~link /\ ~advertising /\ Silent /\ Silent'
    BY <1>2, <2>1, <2>3 DEF Linked
  <2>5. state' \notin Open
    BY <2>1 DEF Sending, Open
  <2>6. \A i \in 2..Len(toMcu) : i \in 1..Len(toMcu)
    OBVIOUS
  <2>7. \A i \in 2..Len(toMcu) : ~Connecting(toMcu[i])
    BY <2>4, <2>6 DEF Silent, Event, Connecting
  <2> QED
    BY <2>1, <2>4, <2>5, <2>7, LinkedTakes
<1>4. CASE EvtSystemBoot \/ RspSystemAddressGet \/ RspSetAdvParameters
  BY <1>3, <1>4 DEF EvtSystemBoot, RspSystemAddressGet, RspSetAdvParameters, AnswerTypes, Sending
<1>5. CASE RspSetAdvData
  <2>1. PICK to : Lands("data", to) /\ to = CASE state = "ADV_DATA_SET_W" -> "ADV_DATA_SET"
                      [] state = "ADV_SR_DATA_SET_W" -> "ADV_SR_DATA_SET"
                      [] OTHER -> state
    BY <1>5 DEF RspSetAdvData
  <2>2. state \in {"ADV_DATA_SET_W", "ADV_SR_DATA_SET_W"}
    BY <1>1, <2>1, HeadAnswers DEF Lands, AnswerTypes, Answer, Request, Awaits
  <2>3. to \in Sending
    BY <2>1, <2>2 DEF Sending
  <2> QED
    BY <1>3, <2>1, <2>3 DEF AnswerTypes
<1>6. CASE RspSetMode
  <2>1. Takes /\ toMcu[1].t = "mode" /\ UNCHANGED <<link, advertising, air>> /\ state' = "ADVERTISING"
    BY <1>1, <1>6 DEF RspSetMode, Lands
  <2>2. state \in Open
    BY <2>1, HeadAnswers DEF AnswerTypes, Answer, Request, Awaits, Open
  <2>3. /\ state' \in Open /\ state' \notin Early /\ state' # "ADVERTISING_W"
    BY <2>1 DEF Open, Early, Awaits, Sending
  <2>4. link \/ ~Silent => \E i \in 2..Len(toMcu) : Connecting(toMcu[i])
    <3> SUFFICES ASSUME link \/ ~Silent PROVE \E i \in 2..Len(toMcu) : Connecting(toMcu[i])
      OBVIOUS
    <3>1. PICK i \in 1..Len(toMcu) : Connecting(toMcu[i])
      BY <2>2 DEF Linked
    <3>2. i # 1
      BY <2>1, <3>1 DEF Connecting
    <3> QED
      BY <3>1, <3>2
  <2> QED
    BY <2>1, <2>3, <2>4, LinkedTakes
<1>7. CASE EvtDisconnected
  <2>1. Takes /\ toMcu[1].t = "disconnected" /\ UNCHANGED <<link, advertising, air>> /\ state' = "DISCONNECTED"
    BY <1>1, <1>7 DEF EvtDisconnected, Lands
  <2>2. 1 \in 1..Len(toMcu) /\ 1 + 1 = 2
    BY <2>1 DEF Takes
  <2>3. ~link /\ ~advertising /\ \A j \in 2..Len(toMcu) : ~Event(toMcu[j])
    BY <2>1, <2>2 DEF Linked
  <2>4. \A j \in 1..Len(toMcu') : j + 1 \in 2..Len(toMcu) /\ toMcu'[j] = toMcu[j + 1]
    BY <2>1 DEF Takes
  <2>5. Silent'
    BY <2>3, <2>4 DEF Silent, Event
  <2>6. state' \notin Open
    BY <2>1 DEF Open
  <2>7. \A j \in 2..Len(toMcu) : ~Connecting(toMcu[j])
    BY <2>3 DEF Event, Connecting
  <2> QED
    BY <2>1, <2>3, <2>5, <2>6, <2>7, LinkedTakes
<1>8. ASSUME NEW t \in {"status", "value"}, Receive(t), state' \in Serving
      PROVE  Linked'
  <2>1. Takes /\ toMcu[1].t = t /\ UNCHANGED <<link, advertising, air>>
    BY <1>1, <1>8
  <2>2. ~advertising /\ \A i \in 2..Len(toMcu) : ~Connecting(toMcu[i])
    BY <2>1, HeadServes DEF Event
  <2>3. state' \notin Early /\ state' # "ADVERTISING_W" /\ state' \notin Open
    BY <1>8 DEF Serving, Early, Awaits, Sending, Open
  <2> QED
    BY <2>1, <2>2, <2>3, LinkedTakes
<1>9. CASE EvtConnectionStatus
  <2>1. Takes /\ toMcu[1].t = "status" /\ Head(toMcu) = toMcu[1]
    BY <1>9, ReceiveTakes DEF EvtConnectionStatus
  <2>2. 1 \in 1..Len(toMcu)
    BY <2>1 DEF Takes
  <2>3. toMcu[1].flags = {0, 2} \/ toMcu[1].flags = {0, 3}
    BY <2>1, <2>2 DEF Linked
  <2>4. state' = "CONNECTED"
    BY <1>9, <2>1, <2>3 DEF EvtConnectionStatus
  <2> QED
    BY <1>8, <1>9, <2>4 DEF EvtConnectionStatus, Serving
<1>10. CASE EvtAttributesValue
  <2>1. state' \in {"TICKET", "REQUEST", state} /\ Receive("value")
    BY <1>10 DEF EvtAttributesValue
  <2>2. state \in Serving
    BY <1>1, <2>1, HeadServes DEF Event, Connecting
  <2> QED
    BY <1>8, <2>1, <2>2 DEF Serving
<1>11. CASE RspAttributesWrite
  <2>1. Takes /\ toMcu[1].t = "write" /\ state' = state /\ UNCHANGED <<link, advertising, air>>
    BY <1>1, <1>11 DEF RspAttributesWrite
  <2>2. state' \in Early \/ (state' = "ADVERTISING_W" /\ Asked') => ~link /\ ~advertising /\ Silent'
    BY <1>2, <2>1, WriteKeepsAsked DEF Linked, Awaits
  <2>3. state' \in Open /\ (link \/ ~Silent) => \E i \in 2..Len(toMcu) : Connecting(toMcu[i])
    <3> SUFFICES ASSUME state \in Open, link \/ ~Silent
                 PROVE  \E i \in 2..Len(toMcu) : Connecting(toMcu[i])
      BY <2>1
    <3>1. PICK i \in 1..Len(toMcu) : Connecting(toMcu[i])
      BY DEF Linked
    <3>2. i # 1
      BY <2>1, <3>1 DEF Connecting
    <3> QED
      BY <3>1, <3>2
  <2>4. \A i \in 2..Len(toMcu) : Connecting(toMcu[i]) => state' \in Open
    <3>1. \A i \in 2..Len(toMcu) : i \in 1..Len(toMcu)
      OBVIOUS
    <3> QED
      BY <2>1, <3>1 DEF Linked
  <2>5. advertising => state' \in Open
    BY <2>1 DEF Linked
  <2> QED
    BY <2>1, <2>2, <2>3, <2>4, <2>5, LinkedTakes
<1>12. CASE RxTimeout
  <2>1. UNCHANGED <<toMcu, toBle, link, advertising, air, state>>
    BY <1>12 DEF RxTimeout
  <2>2. Asked' <=> Asked
    BY <2>1 DEF Asked
  <2> QED
    BY <2>1, <2>2, LinkedQuiet
<1> QED
  BY <1>4, <1>5, <1>6, <1>7, <1>9, <1>10, <1>11, <1>12 DEF Packet

\* Nor does running a write answer the question.
LEMMA WrittenKeepsAsked ==
  ASSUME Dialogue, NEW packet, Runs(packet), packet.t = "write", toBle[1].c = "write",
         state' = state, state \in Awaits
  PROVE  /\ Asked' => Asked
         /\ Answered' => Answered
<1>1. /\ Len(toMcu) \in Nat /\ Len(toMcu') = Len(toMcu) + 1
      /\ \A k \in 1..Len(toMcu) : k \in 1..Len(toMcu') /\ toMcu'[k] = toMcu[k]
      /\ toMcu'[Len(toMcu) + 1].t = "write"
  BY DEF Runs
<1>2. ASSUME Asked', Answered PROVE FALSE
  <2>1. PICK i \in 1..Len(toMcu) : toMcu[i].t = Answer(state)
    BY <1>2 DEF Answered
  <2>2. toMcu[i].t # "write"
    BY <2>1, AnswerKinds DEF AnswerTypes
  <2> QED
    BY <1>1, <1>2, <2>1, <2>2 DEF Asked
<1>3. ASSUME Answered', Asked PROVE FALSE
  <2>1. PICK i \in 1..Len(toMcu') : toMcu'[i].t = Answer(state)
    BY <1>3 DEF Answered
  <2>2. toMcu'[i].t # "write"
    BY <2>1, AnswerKinds DEF AnswerTypes
  <2>3. i \in 1..Len(toMcu)
    BY <1>1, <2>1, <2>2
  <2> QED
    BY <1>1, <1>3, <2>2, <2>3 DEF Asked
<1> QED
  BY <1>2, <1>3 DEF Dialogue

LEMMA LinkedModule ==
  ASSUME TypeOK, Dialogue, Linked, ModuleRuns \/ WriteFails
  PROVE  Linked'
<1> USE DEF sram
<1>1. ASSUME NEW c \in {"address", "params", "data", "scan", "mode"},
             NEW t, t = IF c = "scan" THEN "data" ELSE c,
             Executes(c), Answers(Plain(t)),
             c = "mode" \/ advertising' = advertising
      PROVE  Linked'
  <2>1. /\ Runs(Plain(t)) /\ toBle[1].c = c /\ c # "write"
        /\ UNCHANGED <<state, link, air>>
    BY <1>1, ExecutesRuns DEF Executes
  <2>2. state \in Awaits /\ Asked /\ c = Request(state)
    BY <2>1, HeadAsked
  <2>3. Plain(t).t = Answer(state)
    BY <1>1, <2>2 DEF Plain, Answer, Request, Awaits
  <2>4. ~Asked'
    BY <2>1, <2>3, DialogueAnswers
  <2>5. ~Event(Plain(t))
    BY <1>1 DEF Plain, Event
  <2>6. c = "mode" => state = "ADVERTISING_W"
    BY <2>2 DEF Request, Awaits
  <2> QED
    BY <1>1, <2>1, <2>2, <2>4, <2>5, <2>6, LinkedRuns
<1>2. ASSUME NEW ok, Executes("write"), Answers(Written(ok)), advertising' = advertising
      PROVE  Linked'
  <2>1. /\ Runs(Written(ok)) /\ toBle[1].c = "write" /\ UNCHANGED <<state, link, air>>
    BY <1>2, ExecutesRuns DEF Executes
  <2>2. ASSUME state = "ADVERTISING_W", Asked' PROVE Asked
    BY <2>1, <2>2, WrittenKeepsAsked DEF Written, Awaits
  <2>3. ~Event(Written(ok))
    BY DEF Written, Event
  <2> QED
    BY <1>2, <2>1, <2>2, <2>3, LinkedRuns
<1>3. CASE ModuleAddressGet
  BY <1>1, <1>3 DEF ModuleAddressGet
<1>4. CASE ModuleSetAdvParameters
  BY <1>1, <1>4 DEF ModuleSetAdvParameters
<1>5. CASE ModuleSetAdvData
  BY <1>1, <1>5 DEF ModuleSetAdvData
<1>6. CASE ModuleSetMode
  BY <1>1, <1>6 DEF ModuleSetMode
<1>7. CASE ModuleWrite \/ WriteFails
  BY <1>2, <1>7 DEF ModuleWrite, WriteFails
<1> QED
  BY <1>3, <1>4, <1>5, <1>6, <1>7 DEF ModuleRuns

LEMMA LinkedMain == ASSUME Main PROVE Linked'
<1>1. /\ state' = "BLE_BOOT_W" /\ Len(toMcu') = 1 /\ toMcu'[1].t = "boot"
      /\ ~link' /\ ~advertising' /\ air' = <<>>
  BY DEF Main, ModuleLosesAll, Plain
<1>2. \A i \in 1..Len(toMcu') :
        /\ ~Event(toMcu'[i]) /\ ~Connecting(toMcu'[i])
        /\ toMcu'[i].t # "disconnected" /\ toMcu'[i].t # "status"
  BY <1>1 DEF Event, Connecting
<1>3. Silent'
  BY <1>2 DEF Silent, Event
<1> QED
  BY <1>1, <1>2, <1>3 DEF Linked, Open, Event, Connecting

LEMMA LinkedStep ==
  ASSUME TypeOK, Turned, Dialogue, Linked, Next, "module" \notin Faults
  PROVE  Linked'
<1>1. CASE ModuleReboot
  BY <1>1 DEF ModuleReboot, Fault
<1>2. CASE PowerLoss \/ SoftReset
  BY <1>2, LinkedMain DEF PowerLoss, SoftReset
<1> QED
  BY <1>1, <1>2, LinkedFsm, LinkedPacket, LinkedModule, LinkedAir DEF Next, Mcu, Disturbance

LEMMA DialogueStep ==
  ASSUME TypeOK, Turned, Dialogue, Linked, Next, "module" \notin Faults
  PROVE  Dialogue'
<1>1. CASE ModuleReboot
  BY <1>1 DEF ModuleReboot, Fault
<1>2. CASE PowerLoss \/ SoftReset
  BY <1>2, DialogueMain DEF PowerLoss, SoftReset
<1> QED
  BY <1>1, <1>2, DialogueFsm, DialoguePacket, DialogueModule, DialogueAir DEF Next, Mcu, Disturbance

-----------------------------------------------------------------------------
(* Settings.                                                               *)

\* Nothing is forgotten as long as the module does not restart, and a setting
\* whose answer is awaited has not been answered for nothing.
LEMMA SettingsKept ==
  ASSUME Settings, advSetup \subseteq advSetup', state' = state,
         state \in Awaits /\ Answered' => Answered
  PROVE  Settings'
BY DEF Settings, Awaits

LEMMA SettingsFsm ==
  ASSUME TypeOK, Turned, Dialogue, Linked, Settings, Fsm
  PROVE  Settings'
<1> USE DEF session, module, history
<1>1. ASSUME NEW from, NEW c \in {"address", "params", "data", "scan", "mode"}, NEW to,
             Sends(from, c, to)
      PROVE  ~Answered' /\ state = from /\ state' = to /\ advSetup' = advSetup
  <2>1. /\ Len(toBle) + 1 \in 1..Len(toBle') /\ toBle'[Len(toBle) + 1] = Command(c)
        /\ state = from /\ state' = to /\ advSetup' = advSetup
    BY <1>1, Queues, Appended DEF Sends
  <2>2. Command(c).c # "write"
    BY <1>1 DEF Command
  <2> QED
    BY <2>1, <2>2 DEF Answered
<1>2. CASE FsmBleBoot
  BY <1>1, <1>2 DEF FsmBleBoot, Settings, Open, Serving
<1>3. CASE FsmSystemAddressGet
  BY <1>1, <1>3 DEF FsmSystemAddressGet, Settings, Open, Serving
<1>4. CASE FsmAdvParamSet
  BY <1>1, <1>4 DEF FsmAdvParamSet, Settings, Open, Serving
<1>5. CASE FsmAdvDataSet
  BY <1>1, <1>5 DEF FsmAdvDataSet, Settings, Open, Serving
<1>6. CASE FsmAdvSrDataSet
  <2>1. state = "ADV_SR_DATA_SET" /\ state' = "ADVERTISING_W" /\ advSetup' = advSetup
    BY <1>1, <1>6 DEF FsmAdvSrDataSet
  <2>2. {"params", "data", "scan"} \subseteq advSetup
    BY <2>1 DEF Settings
  <2> QED
    BY <2>1, <2>2 DEF Settings
<1>7. CASE FsmDisconnected
  BY <1>1, <1>7 DEF FsmDisconnected, Settings, Open, Serving
<1>8. CASE FsmIdle \/ FsmAdvertising \/ WakeUp \/ StoreTicketNonce
  <2>1. UNCHANGED <<state, advSetup, toBle, toMcu>>
    BY <1>8 DEF FsmIdle, FsmAdvertising, WakeUp, StoreTicketNonce
  <2>2. Answered' <=> Answered
    BY <2>1 DEF Answered, Event
  <2> QED
    BY <2>1, <2>2, SettingsKept
<1>9. ASSUME state \in Serving, state' \in Serving, advSetup' = advSetup
      PROVE  Settings'
  BY <1>9 DEF Settings, Serving
<1>10. CASE RefuseTicket \/ ForgedTicket \/ OpenSession
  BY <1>9, <1>10 DEF RefuseTicket, ForgedTicket, FailTicket, OpenSession, Turned, Serving
<1>11. CASE RefuseRequest \/ ForgedRequest \/ StartRequest \/ RespondRequest
  BY <1>9, <1>11 DEF RefuseRequest, ForgedRequest, FailRequest, StartRequest, RespondRequest,
     Turned, Serving
<1> QED
  BY <1>2, <1>3, <1>4, <1>5, <1>6, <1>7, <1>8, <1>10, <1>11 DEF Fsm

LEMMA SettingsPacket ==
  ASSUME TypeOK, Dialogue, Linked, Settings, Packet
  PROVE  Settings'
<1> USE DEF session, module, history
<1>1. ASSUME NEW t, Receive(t) PROVE Takes /\ toMcu[1].t = t /\ advSetup' = advSetup
  BY <1>1, ReceiveTakes DEF Receive
<1>2. ASSUME NEW t \in AnswerTypes, NEW to, Lands(t, to)
      PROVE  state \in Awaits /\ Answered /\ t = Answer(state) /\ state' = to /\ advSetup' = advSetup
  BY <1>1, <1>2, HeadAnswers DEF Lands
<1>3. CASE EvtSystemBoot
  BY <1>2, <1>3 DEF EvtSystemBoot, AnswerTypes, Settings, Open, Serving
<1>4. CASE RspSystemAddressGet
  BY <1>2, <1>4 DEF RspSystemAddressGet, AnswerTypes, Settings, Open, Serving
<1>5. CASE RspSetAdvParameters
  <2>1. state = "ADV_PARAM_SET_W" /\ Answered /\ state' = "ADV_PARAM_SET" /\ advSetup' = advSetup
    BY <1>2, <1>5 DEF RspSetAdvParameters, AnswerTypes, Awaits, Answer, Request
  <2> QED
    BY <2>1 DEF Settings, Open, Serving
<1>6. CASE RspSetAdvData
  <2>1. PICK to : Lands("data", to) /\ to = CASE state = "ADV_DATA_SET_W" -> "ADV_DATA_SET"
                      [] state = "ADV_SR_DATA_SET_W" -> "ADV_SR_DATA_SET"
                      [] OTHER -> state
    BY <1>6 DEF RspSetAdvData
  <2>2. /\ state \in {"ADV_DATA_SET_W", "ADV_SR_DATA_SET_W"} /\ Answered
        /\ state' = to /\ advSetup' = advSetup
    BY <1>2, <2>1 DEF AnswerTypes, Awaits, Answer, Request
  <2> QED
    BY <2>1, <2>2 DEF Settings, Open, Serving
<1>7. CASE RspSetMode
  <2>1. state = "ADVERTISING_W" /\ state' = "ADVERTISING" /\ advSetup' = advSetup
    BY <1>2, <1>7 DEF RspSetMode, AnswerTypes, Awaits, Answer, Request
  <2> QED
    BY <2>1 DEF Settings, Open, Serving
<1>8. ASSUME NEW t \in {"status", "value", "disconnected"}, Receive(t)
      PROVE  state \in {"ADVERTISING"} \cup Serving
  BY <1>1, <1>8, HeadServes DEF Event
<1>9. CASE EvtDisconnected
  <2>1. state \in {"ADVERTISING"} \cup Serving /\ state' = "DISCONNECTED" /\ advSetup' = advSetup
    BY <1>1, <1>8, <1>9 DEF EvtDisconnected, Lands
  <2> QED
    BY <2>1 DEF Settings, Open, Serving
<1>10. CASE EvtConnectionStatus
  <2>1. /\ state \in {"ADVERTISING"} \cup Serving /\ state' \in {"CONNECTED", state}
        /\ advSetup' = advSetup
    BY <1>1, <1>8, <1>10 DEF EvtConnectionStatus
  <2> QED
    BY <2>1 DEF Settings, Open, Serving
<1>11. CASE EvtAttributesValue
  <2>1. /\ state \in {"ADVERTISING"} \cup Serving /\ state' \in {"TICKET", "REQUEST", state}
        /\ advSetup' = advSetup
    BY <1>1, <1>8, <1>11 DEF EvtAttributesValue
  <2> QED
    BY <2>1 DEF Settings, Open, Serving
<1>12. CASE RspAttributesWrite
  <2>1. Takes /\ toMcu[1].t = "write" /\ state' = state /\ advSetup' = advSetup
    BY <1>1, <1>12 DEF RspAttributesWrite
  <2> QED
    BY <2>1, WriteKeepsAsked, SettingsKept
<1>13. CASE RxTimeout
  <2>1. UNCHANGED <<toMcu, toBle, state, advSetup>>
    BY <1>13 DEF RxTimeout
  <2>2. Answered' <=> Answered
    BY <2>1 DEF Answered, Event
  <2> QED
    BY <2>1, <2>2, SettingsKept
<1> QED
  BY <1>3, <1>4, <1>5, <1>6, <1>7, <1>9, <1>10, <1>11, <1>12, <1>13 DEF Packet

LEMMA SettingsModule ==
  ASSUME TypeOK, Dialogue, Settings, ModuleRuns \/ WriteFails
  PROVE  Settings'
<1> USE DEF sram
<1>1. ASSUME NEW c \in {"address", "params", "data", "scan", "mode"},
             NEW packet, Executes(c), Answers(packet),
             advSetup' = advSetup \cup ({c} \cap {"params", "data", "scan"})
      PROVE  Settings'
  <2>1. Runs(packet) /\ toBle[1].c = c /\ c # "write" /\ state' = state
    BY <1>1, ExecutesRuns DEF Executes
  <2>2. state \in Awaits /\ c = Request(state)
    BY <2>1, HeadAsked
  <2>3. /\ state = "ADV_PARAM_SET_W" => "params" \in advSetup'
        /\ state = "ADV_DATA_SET_W" => "data" \in advSetup'
        /\ state = "ADV_SR_DATA_SET_W" => "scan" \in advSetup'
    BY <1>1, <2>2 DEF Request
  <2> QED
    BY <1>1, <2>1, <2>3 DEF Settings
<1>2. ASSUME NEW ok, Executes("write"), Answers(Written(ok)), advSetup' = advSetup
      PROVE  Settings'
  <2>1. Runs(Written(ok)) /\ toBle[1].c = "write" /\ state' = state
    BY <1>2, ExecutesRuns DEF Executes
  <2>2. Written(ok).t = "write"
    BY DEF Written
  <2> QED
    BY <1>2, <2>1, <2>2, WrittenKeepsAsked, SettingsKept
<1>3. CASE ModuleAddressGet
  BY <1>1, <1>3 DEF ModuleAddressGet
<1>4. CASE ModuleSetAdvParameters
  BY <1>1, <1>4 DEF ModuleSetAdvParameters
<1>5. CASE ModuleSetAdvData
  BY <1>1, <1>5 DEF ModuleSetAdvData
<1>6. CASE ModuleSetMode
  BY <1>1, <1>6 DEF ModuleSetMode
<1>7. CASE ModuleWrite \/ WriteFails
  BY <1>2, <1>7 DEF ModuleWrite, WriteFails
<1> QED
  BY <1>3, <1>4, <1>5, <1>6, <1>7 DEF ModuleRuns

LEMMA SettingsStep ==
  ASSUME TypeOK, Turned, Dialogue, Linked, Settings, Next, "module" \notin Faults
  PROVE  Settings'
<1> USE DEF sram
<1>1. CASE ModuleReboot
  BY <1>1 DEF ModuleReboot, Fault
<1>2. CASE PowerLoss \/ SoftReset
  <2>1. state' = "BLE_BOOT_W"
    BY <1>2 DEF PowerLoss, SoftReset, Main
  <2> QED
    BY <2>1 DEF Settings, Open, Serving
<1>3. CASE Air \/ ParametersChange
  <2>1. state' = state /\ advSetup' = advSetup /\ (link \/ advertising)
    BY <1>3 DEF Air, Connect, Disconnect, PartArrives, PhoneWrites, ParametersChange, Events, Linked
  <2>2. state \notin Early
    BY <2>1 DEF Linked
  <2> QED
    BY <2>1, <2>2 DEF Settings, Early, Awaits
<1> QED
  BY <1>1, <1>2, <1>3, SettingsFsm, SettingsPacket, SettingsModule DEF Next, Mcu, Disturbance

-----------------------------------------------------------------------------
(* The theorems.                                                           *)

LEMMA LinkInit == Init => LinkInv
<1> SUFFICES ASSUME Init PROVE LinkInv
  OBVIOUS
<1>1. /\ state = "BLE_BOOT_W" /\ turn = "fsm" /\ msgBuf = EmptyBuf
      /\ Len(toMcu) = 1 /\ toMcu[1].t = "boot" /\ Len(toBle) = 0
      /\ ~link /\ ~advertising /\ air = <<>>
  BY DEF Init, Plain
<1>2. TypeOK
  BY TypeInit
<1>3. Turned /\ Settings /\ Fresh
  BY <1>1 DEF Turned, Settings, Open, Serving, Fresh
<1>4. Answered
  BY <1>1 DEF Answered, Answer
<1>5. Dialogue
  BY <1>1, <1>4 DEF Dialogue, Awaits
<1>6. \A i \in 1..Len(toMcu) :
        /\ ~Event(toMcu[i]) /\ ~Connecting(toMcu[i])
        /\ toMcu[i].t # "disconnected" /\ toMcu[i].t # "status"
  BY <1>1 DEF Event, Connecting
<1>7. Silent
  BY <1>6 DEF Silent
<1>8. Linked
  BY <1>1, <1>6, <1>7 DEF Linked, Open
<1> QED
  BY <1>2, <1>3, <1>5, <1>8 DEF LinkInv

LEMMA LinkStep ==
  ASSUME "module" \notin Faults
  PROVE  Inv /\ LinkInv /\ [Next]_vars => LinkInv'
<1>1. ASSUME Inv, LinkInv, Next PROVE LinkInv'
  <2>1. TypeOK'
    BY <1>1, TypeStep DEF LinkInv, Inv
  <2> QED
    BY <1>1, <2>1, TurnedStep, DialogueStep, SettingsStep, LinkedStep, FreshStep DEF LinkInv
<1>2. ASSUME Inv, LinkInv, UNCHANGED vars PROVE LinkInv'
  <2> USE DEF vars, sram, module, history
  <2>1. TypeOK'
    BY <1>2, TypeStep DEF LinkInv, Inv
  <2>2. Turned' /\ Fresh'
    BY <1>2 DEF LinkInv, Turned, Fresh
  <2>3. (Asked' <=> Asked) /\ (Answered' <=> Answered)
    BY <1>2 DEF Asked, Answered, Event
  <2>4. Dialogue'
    BY <1>2, <2>3 DEF LinkInv, Dialogue, Settled, Event
  <2>5. Settings'
    BY <1>2, <2>3 DEF LinkInv, Settings
  <2>6. Linked'
    BY <1>2, <2>3, LinkedQuiet DEF LinkInv
  <2> QED
    BY <2>1, <2>2, <2>4, <2>5, <2>6 DEF LinkInv
<1> QED
  BY <1>1, <1>2

LEMMA Linking == ASSUME "module" \notin Faults PROVE Spec => []LinkInv
<1>1. Init => LinkInv
  BY LinkInit
<1>2. Inv /\ LinkInv /\ [Next]_vars => LinkInv'
  BY LinkStep
<1> QED
  BY <1>1, <1>2, Invariance, PTL DEF Spec

\* AdvertisesComplete, the settings of the module: whatever restarts of the
\* MCU, refused writes and disconnections come between, the module advertises
\* only with its parameters, data and scan response set (fsm_process() and
\* the handlers of the module's responses).
THEOREM AdvertisingIsComplete ==
  ASSUME "module" \notin Faults
  PROVE  Spec => []AdvertisesComplete
<1>1. LinkInv => AdvertisesComplete
  <2> SUFFICES ASSUME LinkInv, advertising PROVE advSetup = {"params", "data", "scan"}
    BY DEF AdvertisesComplete
  <2>1. state \in Open
    BY DEF LinkInv, Linked
  <2>2. {"params", "data", "scan"} \subseteq advSetup
    BY <2>1 DEF LinkInv, Settings, Open
  <2> QED
    BY <2>2 DEF LinkInv, TypeOK, ModuleTypeOK
<1>2. Spec => []LinkInv
  BY Linking
<1> QED
  BY <1>1, <1>2, PTL

\* ServesLink: once every command and event has been dealt with, a connected
\* phone is served, by the state the firmware is in (fsm_process(),
\* ble_process_packet()).
THEOREM ConnectedIsServed ==
  ASSUME "module" \notin Faults
  PROVE  Spec => []ServesLink
<1>1. LinkInv => ServesLink
  <2> SUFFICES ASSUME LinkInv, link, turn \in {"pkt", "sleep"}, toMcu = <<>>, toBle = <<>>
               PROVE  state \in {"CONNECTED", "REQUEST_W"}
    BY DEF ServesLink
  <2>1. Len(toMcu) = 0 /\ Len(toBle) = 0
    OBVIOUS
  <2>2. state \notin Awaits
    BY <2>1 DEF LinkInv, Dialogue, Asked, Answered
  <2>3. state \notin Open
    BY <2>1 DEF LinkInv, Linked
  <2> QED
    BY <2>2, <2>3 DEF LinkInv, Turned, Open
<1>2. Spec => []LinkInv
  BY Linking
<1> QED
  BY <1>1, <1>2, PTL

\* FreshConnection: the buffer is empty when the MCU learns of a connection,
\* so that no part of an older phone's message is read with a newer one's
\* (fsm_process(), case DISCONNECTED; ble_evt_connection_status()).
THEOREM ConnectionsStartFresh ==
  ASSUME "module" \notin Faults
  PROVE  Spec => FreshConnection
<1>1. ASSUME LinkInv, EvtConnectionStatus, ~(3 \in Head(toMcu).flags)
      PROVE  msgBuf = EmptyBuf
  <2>1. Takes /\ toMcu[1].t = "status" /\ Head(toMcu) = toMcu[1]
    BY <1>1, ReceiveTakes DEF LinkInv, EvtConnectionStatus
  <2>2. Event(toMcu[1]) /\ Connecting(toMcu[1])
    BY <1>1, <2>1 DEF Event, Connecting
  <2>3. state = "ADVERTISING"
    BY <1>1, <2>1, <2>2, HeadServes DEF LinkInv
  <2> QED
    BY <1>1, <2>3 DEF LinkInv, Fresh, Open
<1>2. Spec => []LinkInv
  BY Linking
<1>3. LinkInv /\ [Next]_vars
        => [EvtConnectionStatus /\ ~(3 \in Head(toMcu).flags) => msgBuf = EmptyBuf]_vars
  BY <1>1
<1> QED
  BY <1>2, <1>3, PTL DEF Spec, FreshConnection

\* SessionKept: unless the connection's parameters change under it, only a
\* disconnection or a reboot of the module takes the firmware out of a
\* session; no late response and no event of the connection does
\* (ble_process_packet()'s handlers).
THEOREM SessionsAreKept ==
  ASSUME "module" \notin Faults, "params" \notin Faults
  PROVE  Spec => SessionKept
<1> USE DEF session, module, history
<1>1. ASSUME LinkInv, Fsm, state \in {"REQUEST_W", "REQUEST"}
      PROVE  state' \in {"REQUEST_W", "REQUEST"}
  <2>1. turn # "open"
    BY <1>1 DEF LinkInv, Turned
  <2>2. CASE FsmBleBoot \/ FsmSystemAddressGet \/ FsmAdvParamSet \/ FsmAdvDataSet
             \/ FsmAdvSrDataSet \/ FsmDisconnected
    BY <1>1, <2>2 DEF FsmBleBoot, FsmSystemAddressGet, FsmAdvParamSet, FsmAdvDataSet,
       FsmAdvSrDataSet, FsmDisconnected, Sends
  <2>3. CASE FsmIdle \/ FsmAdvertising \/ WakeUp \/ RefuseTicket \/ StoreTicketNonce
             \/ ForgedTicket \/ OpenSession
    BY <1>1, <2>1, <2>3 DEF FsmIdle, FsmAdvertising, WakeUp, RefuseTicket, StoreTicketNonce,
       ForgedTicket, OpenSession
  <2>4. CASE RefuseRequest \/ ForgedRequest \/ StartRequest \/ RespondRequest
    BY <1>1, <2>4 DEF RefuseRequest, ForgedRequest, FailRequest, StartRequest, RespondRequest
  <2> QED
    BY <1>1, <2>2, <2>3, <2>4 DEF Fsm
<1>2. ASSUME LinkInv, Packet, state \in {"REQUEST_W", "REQUEST"}
      PROVE  state' \in {"REQUEST_W", "REQUEST", "DISCONNECTED", "BLE_BOOT"}
  <2>1. ASSUME NEW t \in AnswerTypes, NEW to, Lands(t, to) PROVE FALSE
    BY <1>2, <2>1, ReceiveTakes, HeadAnswers DEF LinkInv, Lands, Awaits
  <2>2. CASE EvtSystemBoot \/ RspSystemAddressGet \/ RspSetAdvParameters \/ RspSetMode
    BY <2>1, <2>2 DEF EvtSystemBoot, RspSystemAddressGet, RspSetAdvParameters, RspSetMode,
       AnswerTypes
  <2>3. CASE RspSetAdvData
    BY <2>1, <2>3 DEF RspSetAdvData, AnswerTypes
  <2>4. CASE EvtDisconnected
    BY <2>4 DEF EvtDisconnected, Lands
  <2>5. CASE EvtConnectionStatus
    <3>1. Takes /\ toMcu[1].t = "status"
      BY <1>2, <2>5, ReceiveTakes DEF LinkInv, EvtConnectionStatus
    <3>2. 1 \in 1..Len(toMcu)
      BY <3>1 DEF Takes
    <3>3. Event(toMcu[1]) /\ Connecting(toMcu[1])
      BY <1>2, <3>1, <3>2 DEF LinkInv, Linked, Event, Connecting
    <3> QED
      BY <1>2, <3>1, <3>3, HeadServes DEF LinkInv
  <2>6. CASE EvtAttributesValue
    <3>1. state' \in {"TICKET", "REQUEST", state} /\ (state' = "TICKET" => state = "CONNECTED")
      BY <1>2, <2>6 DEF EvtAttributesValue
    <3> QED
      BY <1>2, <3>1
  <2>7. CASE RspAttributesWrite \/ RxTimeout
    BY <1>2, <2>7 DEF RspAttributesWrite, RxTimeout
  <2> QED
    BY <1>2, <2>2, <2>3, <2>4, <2>5, <2>6, <2>7 DEF Packet
<1>3. LinkInv /\ [Next]_vars
        => [Mcu /\ state \in {"REQUEST_W", "REQUEST"}
              => state' \in {"REQUEST_W", "REQUEST", "DISCONNECTED", "BLE_BOOT"}]_vars
  BY <1>1, <1>2 DEF Mcu
<1>4. Spec => []LinkInv
  BY Linking
<1> QED
  BY <1>3, <1>4, PTL DEF Spec, SessionKept

-----------------------------------------------------------------------------
(* Messaging: the parts of the phone's messages stay in line.              *)

LEMMA StreamEmpty ==
  ASSUME \A j \in 1..Len(toMcu') : toMcu'[j].t # "value", air' = <<>>,
         link' => msgBuf'.data = <<>>
  PROVE  Stream'
BY DEF Stream, IsValue, Ended

LEMMA StreamQuiet ==
  ASSUME Stream, UNCHANGED <<toMcu, air, link>>, msgBuf'.data = msgBuf.data
  PROVE  Stream'
BY DEF Stream, IsValue, NoValue, Begins, Ended, Last, Continues, LastPart

\* The buffer is reset once a message has ended.
LEMMA StreamResets ==
  ASSUME Stream, Ended(msgBuf.data), UNCHANGED <<toMcu, air, link>>, msgBuf' = EmptyBuf
  PROVE  Stream'
<1>1. msgBuf'.data = <<>>
  BY DEF EmptyBuf
<1>2. \A r : Begins(msgBuf.data, r) => r.i = 1
  BY DEF Begins, Ended, Continues
<1>3. \A i, j \in 1..Len(toMcu') :
        i < j /\ IsValue(toMcu', i) /\ IsValue(toMcu', j) /\ NoValue(toMcu', i + 1, j - 1)
          => Continues(toMcu'[i].part, toMcu'[j].part)
  BY DEF Stream, IsValue, NoValue
<1>4. \A j \in 1..Len(toMcu') : IsValue(toMcu', j) /\ NoValue(toMcu', 1, j - 1) => toMcu'[j].part.i = 1
  BY <1>2 DEF Stream, IsValue, NoValue
<1>5. \A i \in 1..Len(toMcu') : IsValue(toMcu', i) /\ NoValue(toMcu', i + 1, Len(toMcu')) =>
        /\ air' # <<>> => Continues(toMcu'[i].part, air'[1])
        /\ air' = <<>> /\ link' => LastPart(toMcu'[i].part)
  BY DEF Stream, IsValue, NoValue
<1>6. NoValue(toMcu', 1, Len(toMcu')) /\ air' # <<>> => air'[1].i = 1
  BY <1>2 DEF Stream, IsValue, NoValue
<1>7. air' # <<>> => /\ LastPart(Last(air'))
                     /\ \A k \in 1..(Len(air') - 1) : Continues(air'[k], air'[k + 1])
  BY DEF Stream
<1> QED
  BY <1>1, <1>3, <1>4, <1>5, <1>6, <1>7 DEF Stream, Begins, Ended, Continues, LastPart, Last

\* A packet is taken: a value goes to the end of the buffer.
LEMMA StreamTakes ==
  ASSUME Takes, Stream, UNCHANGED <<air, link>>,
         \/ ~IsValue(toMcu, 1) /\ msgBuf'.data = msgBuf.data
         \/ IsValue(toMcu, 1) /\ msgBuf'.data # <<>> /\ Last(msgBuf'.data) = toMcu[1].part
  PROVE  Stream'
<1>1. /\ Len(toMcu) \in Nat \ {0} /\ Len(toMcu') = Len(toMcu) - 1 /\ 1 \in 1..Len(toMcu)
      /\ \A j \in 1..Len(toMcu') : /\ j \in Nat \ {0} /\ j + 1 \in 1..Len(toMcu)
                                   /\ toMcu'[j] = toMcu[j + 1]
  BY DEF Takes
<1>2. \A j \in 1..Len(toMcu') : IsValue(toMcu', j) <=> IsValue(toMcu, j + 1)
  BY <1>1 DEF IsValue
<1>3. ASSUME NEW i \in Nat \ {0}, NEW j \in Int, j <= Len(toMcu'), NoValue(toMcu', i, j)
      PROVE  NoValue(toMcu, i + 1, j + 1)
  <2> SUFFICES ASSUME NEW k \in (i + 1)..(j + 1) PROVE ~IsValue(toMcu, k)
    BY DEF NoValue
  <2>1. k - 1 \in i..j /\ k - 1 \in 1..Len(toMcu') /\ (k - 1) + 1 = k
    BY <1>1, <1>3
  <2> QED
    BY <1>2, <1>3, <2>1 DEF NoValue
<1>4. ASSUME NEW j \in Int, NoValue(toMcu, 2, j), ~IsValue(toMcu, 1) PROVE NoValue(toMcu, 1, j)
  <2>1. \A k \in 1..j : k = 1 \/ k \in 2..j
    OBVIOUS
  <2> QED
    BY <1>4, <2>1 DEF NoValue
<1>5. ASSUME NEW i \in 1..Len(toMcu'), NEW j \in 1..Len(toMcu'), i < j,
             IsValue(toMcu', i), IsValue(toMcu', j), NoValue(toMcu', i + 1, j - 1)
      PROVE  Continues(toMcu'[i].part, toMcu'[j].part)
  <2>1. /\ i + 1 \in Nat \ {0} /\ j - 1 \in Int /\ j - 1 <= Len(toMcu') /\ i + 1 < j + 1
        /\ (j - 1) + 1 = (j + 1) - 1
    BY <1>1, <1>5
  <2>2. NoValue(toMcu, (i + 1) + 1, (j + 1) - 1)
    BY <1>3, <1>5, <2>1
  <2> QED
    BY <1>1, <1>2, <1>5, <2>1, <2>2 DEF Stream
<1>6. ASSUME NEW j \in 1..Len(toMcu'), IsValue(toMcu', j), NoValue(toMcu', 1, j - 1)
      PROVE  Begins(msgBuf'.data, toMcu'[j].part)
  <2>1. /\ j - 1 \in Int /\ j - 1 <= Len(toMcu') /\ (j - 1) + 1 = (j + 1) - 1 /\ 1 < j + 1
        /\ 1 \in Nat \ {0} /\ 1 + 1 = 2 /\ (j + 1) - 1 \in Int
    BY <1>1
  <2>2. NoValue(toMcu, 2, (j + 1) - 1)
    BY <1>3, <1>6, <2>1
  <2>3. CASE ~IsValue(toMcu, 1)
    <3>1. Begins(msgBuf.data, toMcu[j + 1].part)
      BY <1>1, <1>2, <1>4, <1>6, <2>1, <2>2, <2>3 DEF Stream
    <3> QED
      BY <1>1, <2>3, <3>1 DEF Begins, Last
  <2>4. CASE IsValue(toMcu, 1)
    <3>1. Continues(toMcu[1].part, toMcu[j + 1].part)
      BY <1>1, <1>2, <1>6, <2>1, <2>2, <2>4 DEF Stream
    <3> QED
      BY <1>1, <2>4, <3>1 DEF Begins, Last
  <2> QED
    BY <2>3, <2>4
<1>7. ASSUME NEW i \in 1..Len(toMcu'), IsValue(toMcu', i), NoValue(toMcu', i + 1, Len(toMcu'))
      PROVE  /\ air' # <<>> => Continues(toMcu'[i].part, air'[1])
             /\ air' = <<>> /\ link' => LastPart(toMcu'[i].part)
  <2>1. i + 1 \in Nat \ {0} /\ Len(toMcu') \in Int /\ Len(toMcu') + 1 = Len(toMcu)
    BY <1>1
  <2>2. NoValue(toMcu, (i + 1) + 1, Len(toMcu))
    BY <1>3, <1>7, <2>1
  <2> QED
    BY <1>1, <1>2, <1>7, <2>2 DEF Stream
<1>8. ASSUME NoValue(toMcu', 1, Len(toMcu'))
      PROVE  /\ air' # <<>> => Begins(msgBuf'.data, air'[1])
             /\ air' = <<>> /\ link' => Ended(msgBuf'.data)
  <2>1. 1 \in Nat \ {0} /\ 1 + 1 = 2 /\ Len(toMcu') \in Int /\ Len(toMcu') + 1 = Len(toMcu)
    BY <1>1
  <2>2. NoValue(toMcu, 2, Len(toMcu))
    BY <1>3, <1>8, <2>1
  <2>3. CASE ~IsValue(toMcu, 1)
    <3>1. /\ air # <<>> => Begins(msgBuf.data, air[1])
          /\ air = <<>> /\ link => Ended(msgBuf.data)
      BY <1>1, <1>4, <2>2, <2>3 DEF Stream
    <3> QED
      BY <2>3, <3>1 DEF Begins, Ended, Last
  <2>4. CASE IsValue(toMcu, 1)
    <3>1. /\ air # <<>> => Continues(toMcu[1].part, air[1])
          /\ air = <<>> /\ link => LastPart(toMcu[1].part)
      BY <1>1, <2>1, <2>2, <2>4 DEF Stream
    <3> QED
      BY <2>4, <3>1 DEF Begins, Ended, Last
  <2> QED
    BY <2>3, <2>4
<1>9. air' # <<>> => /\ LastPart(Last(air'))
                     /\ \A k \in 1..(Len(air') - 1) : Continues(air'[k], air'[k + 1])
  BY DEF Stream
<1> QED
  BY <1>5, <1>6, <1>7, <1>8, <1>9 DEF Stream, Last, Continues, LastPart

\* A packet joins the queue.
LEMMA JoinsValues ==
  ASSUME NEW packet, Joins(packet)
  PROVE  /\ Len(toMcu) \in Nat /\ Len(toMcu') = Len(toMcu) + 1
         /\ \A j \in 1..Len(toMcu') : \/ j \in 1..Len(toMcu) /\ toMcu'[j] = toMcu[j]
                                      \/ j = Len(toMcu) + 1 /\ toMcu'[j] = packet
         /\ \A i \in Nat \ {0}, j \in Int :
              j <= Len(toMcu) => (NoValue(toMcu', i, j) <=> NoValue(toMcu, i, j))
         /\ \A i \in Nat \ {0} : NoValue(toMcu', i, Len(toMcu')) => NoValue(toMcu, i, Len(toMcu))
         /\ \A i \in 1..Len(toMcu') : NoValue(toMcu', i, Len(toMcu')) => packet.t # "value"
<1>1. /\ Len(toMcu) \in Nat /\ Len(toMcu') = Len(toMcu) + 1
      /\ \A j \in 1..Len(toMcu) : toMcu'[j] = toMcu[j]
      /\ toMcu'[Len(toMcu) + 1] = packet
  BY DEF Joins
<1>2. \A j \in 1..Len(toMcu') : \/ j \in 1..Len(toMcu) /\ toMcu'[j] = toMcu[j]
                                \/ j = Len(toMcu) + 1 /\ toMcu'[j] = packet
  <2> SUFFICES ASSUME NEW j \in 1..Len(toMcu')
               PROVE  \/ j \in 1..Len(toMcu) /\ toMcu'[j] = toMcu[j]
                      \/ j = Len(toMcu) + 1 /\ toMcu'[j] = packet
    OBVIOUS
  <2>1. j = Len(toMcu) + 1 \/ j \in 1..Len(toMcu)
    BY <1>1
  <2> QED
    BY <1>1, <2>1
<1>3. ASSUME NEW i \in Nat \ {0}, NEW j \in Int, j <= Len(toMcu)
      PROVE  NoValue(toMcu', i, j) <=> NoValue(toMcu, i, j)
  <2>1. \A k \in i..j : k \in 1..Len(toMcu)
    BY <1>1, <1>3
  <2> QED
    BY <1>1, <2>1 DEF NoValue, IsValue
<1>4. ASSUME NEW i \in Nat \ {0}, NoValue(toMcu', i, Len(toMcu'))
      PROVE  NoValue(toMcu, i, Len(toMcu))
  <2>1. \A k \in i..Len(toMcu) : k \in 1..Len(toMcu) /\ k \in i..Len(toMcu')
    BY <1>1
  <2> QED
    BY <1>1, <1>4, <2>1 DEF NoValue, IsValue
<1>5. ASSUME NEW i \in 1..Len(toMcu'), NoValue(toMcu', i, Len(toMcu'))
      PROVE  packet.t # "value"
  <2>1. Len(toMcu) + 1 \in i..Len(toMcu')
    BY <1>1
  <2> QED
    BY <1>1, <1>5, <2>1 DEF NoValue, IsValue
<1> QED
  BY <1>1, <1>2, <1>3, <1>4, <1>5

LEMMA StreamJoins ==
  ASSUME Stream, NEW packet, Joins(packet), packet.t # "value", msgBuf'.data = msgBuf.data,
         UNCHANGED <<air, link>> \/ (air' = <<>> /\ ~link')
  PROVE  Stream'
<1>1. /\ Len(toMcu) \in Nat /\ Len(toMcu') = Len(toMcu) + 1
      /\ \A j \in 1..Len(toMcu') : IsValue(toMcu', j) => j \in 1..Len(toMcu) /\ toMcu'[j] = toMcu[j]
  BY JoinsValues DEF IsValue
<1>2. ASSUME NEW i \in 1..Len(toMcu'), NEW j \in 1..Len(toMcu'), i < j,
             IsValue(toMcu', i), IsValue(toMcu', j), NoValue(toMcu', i + 1, j - 1)
      PROVE  Continues(toMcu'[i].part, toMcu'[j].part)
  <2>1. /\ i \in 1..Len(toMcu) /\ toMcu'[i] = toMcu[i] /\ j \in 1..Len(toMcu) /\ toMcu'[j] = toMcu[j]
    BY <1>1, <1>2
  <2>2. i + 1 \in Nat \ {0} /\ j - 1 \in Int /\ j - 1 <= Len(toMcu)
    BY <1>1, <2>1
  <2>3. NoValue(toMcu, i + 1, j - 1)
    BY <1>2, <2>2, JoinsValues
  <2> QED
    BY <1>2, <2>1, <2>3 DEF Stream, IsValue
<1>3. ASSUME NEW j \in 1..Len(toMcu'), IsValue(toMcu', j), NoValue(toMcu', 1, j - 1)
      PROVE  Begins(msgBuf'.data, toMcu'[j].part)
  <2>1. j \in 1..Len(toMcu) /\ toMcu'[j] = toMcu[j]
    BY <1>1, <1>3
  <2>2. 1 \in Nat \ {0} /\ j - 1 \in Int /\ j - 1 <= Len(toMcu)
    BY <1>1, <2>1
  <2>3. NoValue(toMcu, 1, j - 1)
    BY <1>3, <2>2, JoinsValues
  <2> QED
    BY <1>3, <2>1, <2>3 DEF Stream, IsValue
<1>4. ASSUME NEW i \in 1..Len(toMcu'), IsValue(toMcu', i), NoValue(toMcu', i + 1, Len(toMcu'))
      PROVE  /\ air' # <<>> => Continues(toMcu'[i].part, air'[1])
             /\ air' = <<>> /\ link' => LastPart(toMcu'[i].part)
  <2>1. i \in 1..Len(toMcu) /\ toMcu'[i] = toMcu[i] /\ i + 1 \in Nat \ {0}
    BY <1>1, <1>4
  <2>2. NoValue(toMcu, i + 1, Len(toMcu))
    BY <1>4, <2>1, JoinsValues
  <2> QED
    BY <1>4, <2>1, <2>2 DEF Stream, IsValue
<1>5. ASSUME NoValue(toMcu', 1, Len(toMcu'))
      PROVE  /\ air' # <<>> => Begins(msgBuf'.data, air'[1])
             /\ air' = <<>> /\ link' => Ended(msgBuf'.data)
  <2>1. NoValue(toMcu, 1, Len(toMcu))
    BY <1>5, JoinsValues
  <2> QED
    BY <2>1 DEF Stream
<1>6. air' # <<>> => /\ LastPart(Last(air'))
                     /\ \A k \in 1..(Len(air') - 1) : Continues(air'[k], air'[k + 1])
  BY DEF Stream
<1> QED
  BY <1>2, <1>3, <1>4, <1>5, <1>6 DEF Stream

\* A part arrives.
LEMMA StreamArrives ==
  ASSUME Stream, air \in Seq(Parts), air # <<>>, Joins(Value(air[1])), air' = Tail(air),
         link' = link, msgBuf'.data = msgBuf.data
  PROVE  Stream'
<1> DEFINE p == air[1]
           n == Len(toMcu) + 1
<1>1. /\ Len(air) \in Nat \ {0} /\ Len(air') = Len(air) - 1
      /\ \A k \in 1..Len(air') : k + 1 \in 1..Len(air) /\ air'[k] = air[k + 1]
  <2>1. /\ Len(air) \in Nat \ {0} /\ Len(air') = Len(air) - 1
        /\ \A k \in 1..(Len(air) - 1) : air'[k] = air[k + 1]
    BY Removed
  <2> QED
    BY <2>1
<1>2. /\ Len(toMcu) \in Nat /\ Len(toMcu') = Len(toMcu) + 1
      /\ \A j \in 1..Len(toMcu') : \/ j \in 1..Len(toMcu) /\ toMcu'[j] = toMcu[j]
                                   \/ j = n /\ toMcu'[j] = Value(p)
      /\ n \in 1..Len(toMcu')
  BY JoinsValues
<1>3. Value(p).t = "value" /\ Value(p).part = p
  BY DEF Value
<1>4. \A i \in 1..Len(toMcu') : ~NoValue(toMcu', i, Len(toMcu'))
  BY <1>3, JoinsValues
<1>5. 1 \in 1..Len(toMcu') /\ ~NoValue(toMcu', 1, Len(toMcu'))
  BY <1>2, <1>4
<1>6. ASSUME NEW i \in 1..Len(toMcu'), NEW j \in 1..Len(toMcu'), i < j,
             IsValue(toMcu', i), IsValue(toMcu', j), NoValue(toMcu', i + 1, j - 1)
      PROVE  Continues(toMcu'[i].part, toMcu'[j].part)
  <2>1. i \in 1..Len(toMcu) /\ toMcu'[i] = toMcu[i]
    BY <1>2, <1>6
  <2>2. i + 1 \in Nat \ {0} /\ j - 1 \in Int /\ j - 1 <= Len(toMcu)
    BY <1>2, <2>1
  <2>3. NoValue(toMcu, i + 1, j - 1)
    BY <1>6, <2>2, JoinsValues
  <2>4. CASE j \in 1..Len(toMcu) /\ toMcu'[j] = toMcu[j]
    BY <1>6, <2>1, <2>3, <2>4 DEF Stream, IsValue
  <2>5. CASE j = n /\ toMcu'[j] = Value(p)
    <3>1. j - 1 = Len(toMcu)
      BY <1>2, <2>5
    <3>2. Continues(toMcu[i].part, p)
      BY <1>6, <2>1, <2>3, <3>1 DEF Stream, IsValue
    <3> QED
      BY <1>3, <2>1, <2>5, <3>2
  <2> QED
    BY <1>2, <2>4, <2>5
<1>7. ASSUME NEW j \in 1..Len(toMcu'), IsValue(toMcu', j), NoValue(toMcu', 1, j - 1)
      PROVE  Begins(msgBuf'.data, toMcu'[j].part)
  <2>1. 1 \in Nat \ {0} /\ j - 1 \in Int /\ j - 1 <= Len(toMcu)
    BY <1>2
  <2>2. NoValue(toMcu, 1, j - 1)
    BY <1>7, <2>1, JoinsValues
  <2>3. CASE j \in 1..Len(toMcu) /\ toMcu'[j] = toMcu[j]
    BY <1>7, <2>2, <2>3 DEF Stream, IsValue
  <2>4. CASE j = n /\ toMcu'[j] = Value(p)
    <3>1. j - 1 = Len(toMcu)
      BY <1>2, <2>4
    <3>2. Begins(msgBuf.data, p)
      BY <2>2, <3>1 DEF Stream
    <3> QED
      BY <1>3, <2>4, <3>2
  <2> QED
    BY <1>2, <2>3, <2>4
<1>8. ASSUME NEW i \in 1..Len(toMcu'), IsValue(toMcu', i), NoValue(toMcu', i + 1, Len(toMcu'))
      PROVE  /\ air' # <<>> => Continues(toMcu'[i].part, air'[1])
             /\ air' = <<>> /\ link' => LastPart(toMcu'[i].part)
  <2>1. i = n
    <3> SUFFICES ASSUME i # n PROVE FALSE
      OBVIOUS
    <3>1. i + 1 \in 1..Len(toMcu')
      BY <1>2
    <3> QED
      BY <1>4, <1>8, <3>1
  <2>2. toMcu'[i].part = p
    BY <1>2, <1>3, <2>1
  <2>3. CASE air' # <<>>
    <3>1. 1 \in 1..(Len(air) - 1) /\ air'[1] = air[1 + 1]
      <4>1. Len(air') # 0
        BY <2>3, Removed, EmptySeq
      <4> QED
        BY <1>1, <4>1
    <3> QED
      BY <2>2, <2>3, <3>1 DEF Stream
  <2>4. CASE air' = <<>>
    <3>1. Len(air) = 1
      BY <1>1, <2>4
    <3> QED
      BY <2>2, <2>4, <3>1 DEF Stream, Last
  <2> QED
    BY <2>3, <2>4
<1>9. ASSUME air' # <<>>
      PROVE  /\ LastPart(Last(air'))
             /\ \A k \in 1..(Len(air') - 1) : Continues(air'[k], air'[k + 1])
  <2>1. Len(air') # 0
    BY <1>9, Removed, EmptySeq
  <2>2. Last(air') = Last(air)
    <3>1. Len(air') \in 1..Len(air') /\ Len(air') + 1 = Len(air)
      BY <1>1, <2>1
    <3> QED
      BY <1>1, <3>1 DEF Last
  <2>3. ASSUME NEW k \in 1..(Len(air') - 1) PROVE Continues(air'[k], air'[k + 1])
    <3>1. k \in 1..Len(air') /\ k + 1 \in 1..Len(air') /\ k + 1 \in 1..(Len(air) - 1)
      BY <1>1
    <3>2. air'[k] = air[k + 1] /\ air'[k + 1] = air[(k + 1) + 1]
      BY <1>1, <3>1
    <3> QED
      BY <3>1, <3>2 DEF Stream
  <2> QED
    BY <2>2, <2>3 DEF Stream
<1> QED
  BY <1>5, <1>6, <1>7, <1>8, <1>9 DEF Stream

\* The parts of a message: three or four, in order.
LEMMA PartsInOrder ==
  ASSUME NEW m \in Messages
  PROVE  /\ Len(PartLens(m)) \in {3, 4} /\ Len(PartsOf(m)) = Len(PartLens(m)) /\ PartsOf(m) # <<>>
         /\ DOMAIN PartsOf(m) = 1..Len(PartLens(m))
         /\ \A k \in 1..Len(PartLens(m)) : PartsOf(m)[k] = [m |-> m, i |-> k]
<1> DEFINE n == Len(PartLens(m))
           s == PartsOf(m)
<1>1. n \in {3, 4}
  BY DEF PartLens
<1>2. /\ DOMAIN s = 1..n
      /\ \A k \in 1..n : s[k] = [m |-> m, i |-> k]
  BY DEF PartsOf
<1>3. s \in Seq(Parts)
  BY PartsOfMessage
<1> HIDE DEF n, s
<1>4. Len(s) \in Nat /\ DOMAIN s = 1..Len(s)
  BY <1>3, LenProperties
<1>5. Len(s) = n
  BY <1>1, <1>2, <1>4
<1>6. s # <<>>
  BY <1>1, <1>5
<1> QED
  BY <1>1, <1>2, <1>5, <1>6 DEF n, s

\* The phone starts a message, having ended the previous one.
LEMMA StreamWrites ==
  ASSUME Stream, link, air = <<>>, NEW m \in Messages, air' = PartsOf(m),
         UNCHANGED <<toMcu, link>>, msgBuf'.data = msgBuf.data
  PROVE  Stream'
<1> DEFINE n == Len(PartLens(m))
<1>1. /\ n \in {3, 4} /\ Len(air') = n /\ air' # <<>>
      /\ \A k \in 1..n : air'[k].m = m /\ air'[k].i = k /\ air'[k] = [m |-> m, i |-> k]
  BY PartsInOrder
<1>2. \A k \in 1..n : LastPart(air'[k]) <=> k = n
  BY <1>1 DEF LastPart
<1> HIDE DEF n
<1>3. air'[1].i = 1 /\ LastPart(Last(air'))
  <2>1. 1 \in 1..n /\ n \in 1..n
    BY <1>1
  <2> QED
    BY <1>1, <1>2, <2>1 DEF Last
<1>4. ASSUME NEW k \in 1..(Len(air') - 1) PROVE Continues(air'[k], air'[k + 1])
  <2>1. k \in 1..n /\ k + 1 \in 1..n /\ k # n
    BY <1>1
  <2> QED
    BY <1>1, <1>2, <2>1 DEF Continues
<1>5. \A p : LastPart(p) => Continues(p, air'[1])
  BY <1>3 DEF Continues
<1>6. \A data : Ended(data) => Begins(data, air'[1])
  BY <1>3, <1>5 DEF Ended, Begins
<1> QED
  BY <1>1, <1>3, <1>4, <1>5, <1>6 DEF Stream

LEMMA PartBytes ==
  ASSUME NEW m
  PROVE  /\ PartLens(m)[1] = 18 /\ PartLens(m)[2] = 18 /\ Len(PartLens(m)) \in {3, 4}
         /\ m.kind = "ticket" => Len(PartLens(m)) = 4 /\ PartLens(m)[3] = 18 /\ PartLens(m)[4] = 18
         /\ m.kind # "ticket" => Len(PartLens(m)) = 3 /\ PartLens(m)[3] = 5
BY DEF PartLens

LEMMA WholeEnds ==
  ASSUME NEW data \in Seq(Parts), Whole(data)
  PROVE  Ended(data)
<1> DEFINE m == data[1].m
           n == Len(PartLens(m))
<1>1. data # <<>> /\ data = PartsOf(m)
  BY DEF Whole
<1>2. m \in Messages
  <2>1. data[1] \in Parts
    BY <1>1, ElementOfSeq
  <2> QED
    BY <2>1 DEF Parts
<1>3. n \in {3, 4} /\ Len(data) = n /\ \A k \in 1..n : data[k] = [m |-> m, i |-> k]
  <2> HIDE DEF m
  <2> QED
    BY <1>1, <1>2, PartsInOrder
<1> HIDE DEF m
<1>4. n \in 1..n /\ Last(data) = [m |-> m, i |-> n]
  BY <1>3 DEF Last
<1> QED
  BY <1>4 DEF Ended, LastPart

LEMMA StartsWhole ==
  ASSUME NEW data \in Seq(Parts), data # <<>>, Starts(data), Len(data) = Len(PartLens(data[1].m))
  PROVE  Whole(data)
<1> DEFINE m == data[1].m
<1>1. data[1] \in Parts /\ 1 \in 1..Len(data)
  BY ElementOfSeq
<1>2. m \in Messages
  BY <1>1 DEF Parts
<1>3. \A k \in 1..Len(data) : data[k] = [m |-> m, i |-> k]
  BY DEF Starts
<1>4. data = [k \in 1..Len(data) |-> data[k]]
  BY LenProperties
<1>5. data = [k \in 1..Len(data) |-> [m |-> m, i |-> k]]
  BY <1>3, <1>4
<1>6. data = PartsOf(m)
  BY <1>5 DEF PartsOf
<1> QED
  BY <1>6 DEF Whole

\* A part that comes next, and fits, keeps the buffer in shape; a buffer of
\* the length of a ticket or of a request is a whole one.
LEMMA ShapeGrows ==
  ASSUME NEW buf \in [len : Nat, data : Seq(Parts)], Shaped(buf), NEW p \in Parts,
         Begins(buf.data, p), NEW next, next.data = Append(buf.data, p),
         next.len = buf.len + PartLens(p.m)[p.i], next.len <= 72
  PROVE  /\ Shaped(next) /\ next.data # <<>> /\ Last(next.data) = p
         /\ next.len \in {41, 72} => Whole(next.data)
         /\ next.len = 72 => next.data[1].m.kind = "ticket"
<1> DEFINE data == buf.data
           L == Len(data)
           q == next.data
<1>1. /\ data \in Seq(Parts) /\ q \in Seq(Parts) /\ L \in Nat /\ Len(q) = L + 1 /\ q # <<>>
      /\ \A j \in 1..L : q[j] = data[j]
      /\ q[L + 1] = p
  BY Appended, AppendProperties
<1>2. p.m \in Messages /\ p.i \in 1..4 /\ p = [m |-> p.m, i |-> p.i]
  BY DEF Parts
<1>3. buf.len \in Nat
  OBVIOUS
<1>4. Last(q) = p
  BY <1>1 DEF Last
<1> HIDE DEF q
<1>5. CASE data = <<>> /\ buf.len = 0
  <2>1. L = 0 /\ p.i = 1
    BY <1>5 DEF Begins
  <2>2. Len(q) = 1 /\ q[1] = p /\ next.len = 18
    BY <1>1, <1>5, <2>1, PartBytes
  <2>3. Starts(q)
    BY <1>2, <2>1, <2>2 DEF Starts
  <2>4. Shaped(next)
    BY <1>1, <2>2, <2>3 DEF Shaped, q
  <2> QED
    BY <1>1, <1>4, <2>2, <2>4 DEF q
<1>6. ASSUME data # <<>>, Starts(data), L <= Len(PartLens(data[1].m))
      PROVE  /\ L \in 1..4 /\ q[1].m = data[1].m
             /\ L = Len(PartLens(data[1].m)) => p.i = 1
             /\ L < Len(PartLens(data[1].m)) => Starts(q) /\ p = [m |-> data[1].m, i |-> L + 1]
  <2> DEFINE m == data[1].m
  <2>1. L \in 1..4
    <3>1. L \in Nat \ {0}
      BY <1>1, <1>6, Removed
    <3>2. Len(PartLens(m)) \in {3, 4}
      BY PartBytes
    <3>3. \A a, b : a \in Nat \ {0} /\ b \in {3, 4} /\ a <= b => a \in 1..4
      OBVIOUS
    <3> HIDE DEF L, m
    <3> QED
      BY <1>6, <3>1, <3>2, <3>3 DEF m
  <2>2. /\ L \in 1..L /\ 1 \in 1..L /\ q[1] = data[1]
    BY <1>1, <2>1
  <2>3. \A j \in 1..L : data[j] = [m |-> m, i |-> j]
    BY <1>6 DEF Starts
  <2>4. Continues(Last(data), p)
    BY <1>6 DEF Begins
  <2>5. Last(data) = [m |-> m, i |-> L]
    BY <2>2, <2>3 DEF Last
  <2> HIDE DEF m
  <2>6. LastPart(Last(data)) <=> L = Len(PartLens(m))
    BY <2>5 DEF LastPart
  <2>7. CASE L = Len(PartLens(m))
    BY <2>1, <2>2, <2>4, <2>6, <2>7 DEF Continues, m
  <2>8. CASE L # Len(PartLens(m))
    <3>1. p = [m |-> m, i |-> L + 1]
      BY <2>4, <2>5, <2>6, <2>8 DEF Continues
    <3>2. \A j \in 1..(L + 1) : j \in 1..L \/ j = L + 1
      BY <1>1
    <3>3. \A j \in 1..Len(q) : q[j] = [m |-> m, i |-> j]
      BY <1>1, <2>3, <3>1, <3>2
    <3>4. q[1].m = m
      BY <2>2 DEF m
    <3>5. Starts(q)
      BY <3>3, <3>4 DEF Starts
    <3> QED
      BY <2>1, <2>2, <2>8, <3>1, <3>5 DEF m
  <2> QED
    BY <2>7, <2>8
<1>7. CASE /\ data # <<>> /\ data[1].m.kind = "ticket" /\ Starts(data)
           /\ L <= 4 /\ buf.len = 18 * L
  <2>1. Len(PartLens(data[1].m)) = 4 /\ L \in 1..4 /\ q[1].m = data[1].m
    BY <1>6, <1>7, PartBytes
  <2>2. L # 4
    <3> SUFFICES ASSUME L = 4 PROVE FALSE
      OBVIOUS
    <3>1. p.i = 1
      BY <1>6, <1>7, <2>1
    <3>2. next.len = 72 + 18
      BY <1>7, <3>1, PartBytes
    <3> QED
      BY <3>2
  <2>3. Starts(q) /\ p = [m |-> data[1].m, i |-> L + 1] /\ L \in 1..3
    BY <1>6, <1>7, <2>1, <2>2
  <2>4. p.m = data[1].m /\ p.i = L + 1 /\ p.m.kind = "ticket"
    BY <1>7, <2>3
  <2>5. PartLens(p.m)[p.i] = 18
    <3>1. p.i \in {2, 3, 4}
      BY <2>3, <2>4
    <3>2. PartLens(p.m)[2] = 18 /\ PartLens(p.m)[3] = 18 /\ PartLens(p.m)[4] = 18
      BY <2>4, PartBytes
    <3> QED
      BY <3>1, <3>2
  <2>6. next.len = 18 * (L + 1)
    BY <1>7, <2>3, <2>5
  <2>7. Shaped(next)
    BY <1>1, <1>7, <2>1, <2>3, <2>6 DEF Shaped, q
  <2>8. ASSUME next.len \in {41, 72} PROVE Whole(q)
    <3>1. L = 3
      BY <2>3, <2>6, <2>8
    <3>2. Len(q) = Len(PartLens(q[1].m))
      BY <1>1, <2>1, <3>1
    <3> QED
      BY <1>1, <2>3, <3>2, StartsWhole DEF q
  <2>9. q[1].m.kind = "ticket"
    BY <1>7, <2>1
  <2> QED
    BY <1>1, <1>4, <2>7, <2>8, <2>9 DEF q
<1>8. CASE /\ data # <<>> /\ data[1].m.kind # "ticket" /\ Starts(data)
           /\ L <= 3 /\ buf.len = IF L = 3 THEN 41 ELSE 18 * L
  <2>1. Len(PartLens(data[1].m)) = 3 /\ L \in 1..3 /\ q[1].m = data[1].m
    BY <1>6, <1>8, PartBytes
  <2>2. CASE L = 3
    <3>1. p.i = 1
      BY <1>6, <1>8, <2>1, <2>2
    <3>2. next.len = 59
      BY <1>8, <2>2, <3>1, PartBytes
    <3>3. Shaped(next)
      BY <1>1, <1>8, <2>1, <2>2, <3>1, <3>2 DEF Shaped, q
    <3> QED
      BY <1>1, <1>4, <3>2, <3>3 DEF q
  <2>3. CASE L # 3
    <3>1. Starts(q) /\ p = [m |-> data[1].m, i |-> L + 1] /\ L \in 1..2
      BY <1>6, <1>8, <2>1, <2>3
    <3>2. p.m = data[1].m /\ p.i = L + 1 /\ p.m.kind # "ticket"
      BY <1>8, <3>1
    <3>3. PartLens(p.m)[2] = 18 /\ PartLens(p.m)[3] = 5
      BY <3>2, PartBytes
    <3>4. next.len = IF L = 2 THEN 41 ELSE 36
      <4>1. CASE L = 1
        BY <1>8, <3>2, <3>3, <4>1
      <4>2. CASE L = 2
        BY <1>8, <3>2, <3>3, <4>2
      <4> QED
        BY <3>1, <4>1, <4>2
    <3>5. Shaped(next)
      BY <1>1, <1>8, <2>1, <3>1, <3>4 DEF Shaped, q
    <3>6. ASSUME next.len \in {41, 72} PROVE Whole(q)
      <4>1. L = 2
        BY <3>1, <3>4, <3>6
      <4>2. Len(q) = Len(PartLens(q[1].m))
        BY <1>1, <2>1, <4>1
      <4> QED
        BY <1>1, <3>1, <4>2, StartsWhole DEF q
    <3>7. next.len # 72
      BY <3>1, <3>4
    <3> QED
      BY <1>1, <1>4, <3>5, <3>6, <3>7 DEF q
  <2> QED
    BY <2>2, <2>3
<1>9. CASE data[1].m.kind # "ticket" /\ L = 4 /\ buf.len = 59 /\ data[4].i = 1
  <2>1. data # <<>> /\ Last(data) = data[4]
    BY <1>9 DEF Last
  <2>2. ~LastPart(Last(data))
    BY <1>9, <2>1, PartBytes DEF LastPart
  <2>3. p = [m |-> data[4].m, i |-> data[4].i + 1]
    BY <2>1, <2>2 DEF Begins, Continues
  <2>4. p.i = 2
    BY <1>9, <2>3
  <2>5. next.len = 59 + 18
    BY <1>9, <2>4, PartBytes
  <2> QED
    BY <2>5
<1> QED
  BY <1>5, <1>7, <1>8, <1>9 DEF Shaped

LEMMA BufferKept ==
  ASSUME Buffer, msgBuf' = msgBuf,
         state' \in {"TICKET", "REQUEST"} \/ turn' = "respond"
           => state \in {"TICKET", "REQUEST"} \/ turn = "respond",
         state' = "TICKET" => state = "TICKET"
  PROVE  Buffer'
BY DEF Buffer, Shaped, Starts, Whole, PartsOf, Buffered

LEMMA BufferReset ==
  ASSUME msgBuf' = EmptyBuf, state' \notin {"TICKET", "REQUEST"}, turn' # "respond"
  PROVE  Buffer'
BY DEF Buffer, Shaped, EmptyBuf

LEMMA MessagingFsm ==
  ASSUME LinkInv, Stream, Buffer, Fsm
  PROVE  Messaging'
<1> USE DEF session, module, history
<1>1. ASSUME UNCHANGED <<toMcu, air, link, msgBuf>>,
             state' \in {"TICKET", "REQUEST"} \/ turn' = "respond"
               => state \in {"TICKET", "REQUEST"} \/ turn = "respond",
             state' = "TICKET" => state = "TICKET"
      PROVE  Messaging'
  BY <1>1, StreamQuiet, BufferKept DEF Messaging
<1>2. CASE FsmBleBoot \/ FsmSystemAddressGet \/ FsmAdvParamSet \/ FsmAdvDataSet \/ FsmAdvSrDataSet
  BY <1>1, <1>2 DEF Sends, FsmBleBoot, FsmSystemAddressGet, FsmAdvParamSet, FsmAdvDataSet,
     FsmAdvSrDataSet
<1>3. CASE FsmIdle \/ FsmAdvertising \/ WakeUp
  BY <1>1, <1>3 DEF FsmIdle, FsmAdvertising, WakeUp
<1>4. CASE StoreTicketNonce \/ StartRequest
  BY <1>1, <1>4 DEF StoreTicketNonce, StartRequest
<1>5. CASE FsmDisconnected
  <2>1. /\ state = "DISCONNECTED" /\ state' = "ADV_PARAM_SET_W" /\ turn' = "pkt"
        /\ msgBuf' = EmptyBuf /\ UNCHANGED <<toMcu, air, link>>
    BY <1>5 DEF FsmDisconnected, Sends
  <2>2. ~link /\ air = <<>> /\ Silent
    BY <2>1 DEF LinkInv, Linked, Early
  <2>3. Stream'
    BY <2>1, <2>2, StreamEmpty DEF Silent, Event
  <2> QED
    BY <2>1, <2>3, BufferReset DEF Messaging
<1>6. ASSUME Whole(msgBuf.data), UNCHANGED <<toMcu, air, link>>, msgBuf' = EmptyBuf,
             state' \notin {"TICKET", "REQUEST"}, turn' # "respond"
      PROVE  Messaging'
  <2>1. Ended(msgBuf.data)
    BY <1>6, WholeEnds DEF LinkInv, TypeOK, McuTypeOK
  <2> QED
    BY <1>6, <2>1, StreamResets, BufferReset DEF Messaging
<1>7. CASE RefuseTicket \/ ForgedTicket \/ OpenSession
  <2>1. state = "TICKET"
    BY <1>7 DEF RefuseTicket, ForgedTicket, OpenSession, LinkInv, Turned
  <2>2. /\ UNCHANGED <<toMcu, air, link>> /\ msgBuf' = EmptyBuf
        /\ state' \in {"CONNECTED", "REQUEST_W"} /\ turn' = "pkt"
    BY <1>7 DEF RefuseTicket, ForgedTicket, OpenSession, FailTicket, Respond
  <2> QED
    BY <1>6, <2>1, <2>2 DEF Buffer
<1>8. CASE RefuseRequest \/ ForgedRequest \/ RespondRequest
  <2>1. Whole(msgBuf.data) /\ state' \notin {"TICKET", "REQUEST"}
    <3>1. CASE RefuseRequest \/ ForgedRequest
      BY <3>1 DEF RefuseRequest, ForgedRequest, FailRequest, Buffer
    <3>2. CASE RespondRequest
      BY <3>2 DEF RespondRequest, LinkInv, Turned, Buffer
    <3> QED
      BY <1>8, <3>1, <3>2
  <2>2. UNCHANGED <<toMcu, air, link>> /\ msgBuf' = EmptyBuf /\ turn' = "pkt"
    BY <1>8 DEF RefuseRequest, ForgedRequest, FailRequest, RespondRequest, Respond
  <2> QED
    BY <1>6, <2>1, <2>2
<1> QED
  BY <1>2, <1>3, <1>4, <1>5, <1>7, <1>8 DEF Fsm

LEMMA MessagingValue ==
  ASSUME LinkInv, Stream, Buffer, EvtAttributesValue
  PROVE  Messaging'
<1> USE DEF session, module, history
<1> DEFINE part == Head(toMcu).part
           len == msgBuf.len + PartLens(part.m)[part.i]
<1>1. /\ Takes /\ IsValue(toMcu, 1) /\ part = toMcu[1].part /\ part \in Parts
      /\ 1 \in 1..Len(toMcu) /\ turn = "pkt" /\ UNCHANGED <<air, link>>
  <2>1. Receive("value") /\ TypeOK
    BY DEF EvtAttributesValue, LinkInv
  <2>2. Takes /\ toMcu[1].t = "value" /\ Head(toMcu) = toMcu[1] /\ Head(toMcu) \in Packets
    BY <2>1, ReceiveTakes
  <2>3. Head(toMcu).part \in Parts
    BY <2>2, ValuePacket
  <2> QED
    BY <2>1, <2>2, <2>3 DEF IsValue, Takes, Receive
<1>2. Begins(msgBuf.data, part)
  <2>1. NoValue(toMcu, 1, 1 - 1)
    BY DEF NoValue
  <2> QED
    BY <1>1, <2>1 DEF Stream
<1>3. /\ msgBuf'.len = len /\ msgBuf'.data = Append(msgBuf.data, part)
      /\ turn' = IF len > 72 THEN "overrun" ELSE "fsm"
      /\ state' = CASE state = "CONNECTED" /\ len = 72 -> "TICKET"
                    [] state = "REQUEST_W" /\ len = 41 -> "REQUEST"
                    [] OTHER -> state
  BY DEF EvtAttributesValue, MAX_MESSAGE_LEN, TICKET_LEN, REQUEST_LEN
<1>4. len \in Nat /\ msgBuf \in [len : Nat, data : Seq(Parts)]
  BY <1>1, PartLength DEF LinkInv, TypeOK, McuTypeOK
<1>5. state \notin {"TICKET", "REQUEST"}
  BY <1>1 DEF LinkInv, Turned, Awaits
<1> HIDE DEF part, len
<1>6. CASE len > 72
  BY <1>3, <1>6 DEF Messaging
<1>7. CASE len <= 72
  <2>1. Shaped(msgBuf) /\ msgBuf'.len = msgBuf.len + PartLens(part.m)[part.i] /\ msgBuf'.len <= 72
    BY <1>3, <1>7 DEF Buffer, len
  <2>2. /\ Shaped(msgBuf') /\ msgBuf'.data # <<>> /\ Last(msgBuf'.data) = part
        /\ msgBuf'.len \in {41, 72} => Whole(msgBuf'.data)
        /\ msgBuf'.len = 72 => msgBuf'.data[1].m.kind = "ticket"
    <3> DEFINE next == msgBuf'
    <3>1. /\ next.data = Append(msgBuf.data, part)
          /\ next.len = msgBuf.len + PartLens(part.m)[part.i] /\ next.len <= 72
      BY <1>3, <2>1
    <3> HIDE DEF next
    <3>2. /\ part \in Parts /\ msgBuf \in [len : Nat, data : Seq(Parts)]
          /\ Shaped(msgBuf) /\ Begins(msgBuf.data, part)
      BY <1>1, <1>2, <1>4, <2>1
    <3>3. /\ Shaped(next) /\ next.data # <<>> /\ Last(next.data) = part
          /\ next.len \in {41, 72} => Whole(next.data)
      BY <3>1, <3>2, ShapeGrows
    <3>4. next.len = 72 => next.data[1].m.kind = "ticket"
      BY <3>1, <3>2, ShapeGrows
    <3> QED
      BY <3>3, <3>4 DEF next
  <2>3. Stream'
    BY <1>1, <2>2, StreamTakes
  <2>4. turn' = "fsm"
    BY <1>3, <1>4, <1>7
  <2>5. /\ state' \in {"TICKET", "REQUEST"} => len \in {41, 72}
        /\ state' = "TICKET" => len = 72
    BY <1>3, <1>5
  <2>6. Buffer'
    BY <1>3, <2>2, <2>4, <2>5 DEF Buffer, Buffered
  <2> QED
    BY <2>3, <2>6 DEF Messaging
<1> QED
  BY <1>4, <1>6, <1>7

LEMMA MessagingPacket ==
  ASSUME LinkInv, Stream, Buffer, Packet
  PROVE  Messaging'
<1> USE DEF session, module, history
<1>1. ASSUME NEW t, t # "value", Receive(t), msgBuf' = msgBuf, turn' = "fsm",
             state' \notin {"TICKET", "REQUEST"} \/ state' = state
      PROVE  Messaging'
  <2>1. Takes /\ toMcu[1].t = t /\ UNCHANGED <<air, link>>
    BY <1>1, ReceiveTakes DEF LinkInv, Receive
  <2>2. Stream'
    BY <1>1, <2>1, StreamTakes DEF IsValue
  <2>3. Buffer'
    BY <1>1, BufferKept
  <2> QED
    BY <2>2, <2>3 DEF Messaging
<1>2. CASE EvtSystemBoot \/ RspSystemAddressGet \/ RspSetAdvParameters \/ RspSetMode \/ EvtDisconnected
  BY <1>1, <1>2 DEF EvtSystemBoot, RspSystemAddressGet, RspSetAdvParameters, RspSetMode,
     EvtDisconnected, Lands
<1>3. CASE RspSetAdvData
  <2>1. state' \in {"ADV_DATA_SET", "ADV_SR_DATA_SET", state}
    BY <1>3 DEF RspSetAdvData, Lands
  <2> QED
    BY <1>1, <1>3, <2>1 DEF RspSetAdvData, Lands
<1>4. CASE EvtConnectionStatus
  <2>1. state' \in {"CONNECTED", state}
    BY <1>4 DEF EvtConnectionStatus
  <2> QED
    BY <1>1, <1>4, <2>1 DEF EvtConnectionStatus
<1>5. CASE EvtAttributesValue
  BY <1>5, MessagingValue
<1>6. CASE RspAttributesWrite
  BY <1>1, <1>6 DEF RspAttributesWrite
<1>7. CASE RxTimeout
  BY <1>7, StreamQuiet, BufferKept DEF RxTimeout, Messaging
<1> QED
  BY <1>2, <1>3, <1>4, <1>5, <1>6, <1>7 DEF Packet

\* What the module and the phone do leaves the buffer alone.
LEMMA MessagingOutside ==
  ASSUME LinkInv, Stream, Buffer, ModuleRuns \/ WriteFails \/ Air \/ ParametersChange
  PROVE  Messaging'
<1> USE DEF sram
<1>1. ASSUME Stream', UNCHANGED <<msgBuf, state, turn>> PROVE Messaging'
  BY <1>1, BufferKept DEF Messaging
<1>2. TypeOK
  BY DEF LinkInv
<1>3. ASSUME NEW c, NEW packet, Executes(c), Answers(packet), packet.t # "value" PROVE Messaging'
  <2>1. Joins(packet)
    BY <1>2, <1>3, ExecutesRuns DEF Runs, Joins
  <2>2. UNCHANGED <<msgBuf, state, turn, air, link>>
    BY <1>3 DEF Executes
  <2> QED
    BY <1>1, <1>3, <2>1, <2>2, StreamJoins
<1>4. CASE ModuleRuns \/ WriteFails
  BY <1>3, <1>4 DEF ModuleRuns, ModuleAddressGet, ModuleSetAdvParameters, ModuleSetAdvData,
     ModuleSetMode, ModuleWrite, WriteFails, Plain, Written
<1>5. CASE Connect
  <2>1. /\ Joins(Status({0, 2})) /\ advertising /\ UNCHANGED <<msgBuf, state, turn, air>>
    BY <1>2, <1>5, EventsJoin DEF Connect, Events
  <2>2. Silent /\ air = <<>> /\ state \in Open
    BY <2>1 DEF LinkInv, Linked
  <2>3. \A j \in 1..Len(toMcu') : toMcu'[j].t # "value"
    BY <2>1, <2>2, JoinsValues DEF Silent, Event, Status
  <2>4. msgBuf'.data = <<>>
    BY <2>1, <2>2 DEF LinkInv, Fresh, EmptyBuf
  <2> QED
    BY <1>1, <2>1, <2>2, <2>3, <2>4, StreamEmpty
<1>6. CASE Disconnect
  <2>1. /\ Joins(Plain("disconnected")) /\ air' = <<>> /\ ~link' /\ UNCHANGED <<msgBuf, state, turn>>
    BY <1>2, <1>6, EventsJoin DEF Disconnect, Events
  <2> QED
    BY <1>1, <2>1, StreamJoins DEF Plain
<1>7. CASE ParametersChange
  <2>1. /\ Joins(Status({0, 3})) /\ UNCHANGED <<msgBuf, state, turn, air, link>>
    BY <1>2, <1>7, EventsJoin DEF ParametersChange, Events
  <2> QED
    BY <1>1, <2>1, StreamJoins DEF Status
<1>8. CASE PartArrives
  <2>1. /\ Joins(Value(Head(air))) /\ air # <<>> /\ air' = Tail(air)
        /\ UNCHANGED <<msgBuf, state, turn, link>>
    BY <1>2, <1>8, EventsJoin DEF PartArrives, Events
  <2>2. air \in Seq(Parts) /\ Head(air) = air[1]
    BY <1>2, <2>1, Removed DEF TypeOK, ModuleTypeOK
  <2> QED
    BY <1>1, <2>1, <2>2, StreamArrives
<1>9. CASE \E m \in Messages : PhoneWrites(m)
  BY <1>1, <1>9, StreamWrites DEF PhoneWrites
<1> QED
  BY <1>4, <1>5, <1>6, <1>7, <1>8, <1>9 DEF Air

LEMMA MessagingMain == ASSUME Main PROVE Messaging'
<1>1. /\ state' = "BLE_BOOT_W" /\ turn' = "fsm" /\ msgBuf' = EmptyBuf
      /\ Len(toMcu') = 1 /\ toMcu'[1].t = "boot" /\ ~link' /\ air' = <<>>
  BY DEF Main, ModuleLosesAll, Plain
<1>2. Stream'
  BY <1>1, StreamEmpty
<1> QED
  BY <1>1, <1>2, BufferReset DEF Messaging

LEMMA MessagingStep ==
  ASSUME LinkInv, Messaging, Next, "module" \notin Faults
  PROVE  Messaging'
<1>1. CASE ModuleReboot
  BY <1>1 DEF ModuleReboot, Fault
<1>2. CASE PowerLoss \/ SoftReset
  BY <1>2, MessagingMain DEF PowerLoss, SoftReset
<1>3. CASE turn # "overrun" /\ ~(ModuleReboot \/ PowerLoss \/ SoftReset)
  BY <1>3, MessagingFsm, MessagingPacket, MessagingOutside DEF Messaging, Next, Mcu, Disturbance
<1>4. CASE turn = "overrun" /\ ~(ModuleReboot \/ PowerLoss \/ SoftReset)
  <2>1. ~Fsm
    BY <1>4 DEF Fsm, FsmBleBoot, FsmSystemAddressGet, FsmAdvParamSet, FsmAdvDataSet,
       FsmAdvSrDataSet, FsmDisconnected, FsmIdle, FsmAdvertising, WakeUp, RefuseTicket,
       StoreTicketNonce, ForgedTicket, OpenSession, RefuseRequest, ForgedRequest, StartRequest,
       RespondRequest, Sends
  <2>2. ~Packet
    BY <1>4 DEF Packet, EvtSystemBoot, RspSystemAddressGet, RspSetAdvParameters, RspSetAdvData,
       RspSetMode, EvtDisconnected, EvtConnectionStatus, EvtAttributesValue, RspAttributesWrite,
       RxTimeout, Lands, Receive
  <2>3. ~ModuleRuns /\ ~WriteFails
    BY <1>4 DEF ModuleRuns, ModuleAddressGet, ModuleSetAdvParameters, ModuleSetAdvData,
       ModuleSetMode, ModuleWrite, WriteFails, Executes, Running
  <2>4. ~Air /\ ~ParametersChange
    BY <1>4 DEF Air, Connect, Disconnect, PartArrives, PhoneWrites, ParametersChange, Events, Running
  <2> QED
    BY <1>4, <2>1, <2>2, <2>3, <2>4 DEF Next, Mcu, Disturbance
<1> QED
  BY <1>1, <1>2, <1>3, <1>4

LEMMA MessagesInLine == ASSUME "module" \notin Faults PROVE Spec => []Messaging
<1>1. Init => Messaging
  <2> SUFFICES ASSUME Init PROVE Messaging
    OBVIOUS
  <2>1. /\ state = "BLE_BOOT_W" /\ turn = "fsm" /\ msgBuf.data = <<>> /\ msgBuf.len = 0
        /\ Len(toMcu) = 1 /\ toMcu[1].t = "boot" /\ ~link /\ air = <<>>
    BY DEF Init, Plain, EmptyBuf
  <2> QED
    BY <2>1 DEF Messaging, Stream, Buffer, Shaped, IsValue, Ended
<1>2. LinkInv /\ Messaging /\ [Next]_vars => Messaging'
  <2>1. ASSUME LinkInv, Messaging, UNCHANGED vars PROVE Messaging'
    BY <2>1, StreamQuiet, BufferKept DEF Messaging, vars, sram, module
  <2> QED
    BY <2>1, MessagingStep
<1> QED
  BY <1>1, <1>2, Linking, PTL DEF Spec

\* TicketComplete: process_ticket_msg() is called with one whole ticket in
\* msg_buf, never with parts of several messages whose lengths add up to that
\* of a ticket (ble_evt_attributes_value()).
THEOREM TicketsAreComplete ==
  ASSUME "module" \notin Faults
  PROVE  Spec => []TicketComplete
<1>1. LinkInv /\ Messaging => TicketComplete
  BY DEF LinkInv, Messaging, Buffer, Turned, TicketComplete
<1> QED
  BY <1>1, Linking, MessagesInLine, PTL

=============================================================================
