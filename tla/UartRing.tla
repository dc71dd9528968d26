------------------------------ MODULE UartRing ------------------------------
(***************************************************************************)
(* The receive side of the UART: the interrupt that fills rxbuffer, and    *)
(* ble_process_packet(), which takes a header and its payload out of it    *)
(* with uart_rx().                                                         *)
(*                                                                         *)
(* rxbuffer_size is volatile but not protected: its decrement is a load    *)
(* and a store, between which the interrupt may run.  The counters have 8  *)
(* bits and the ring 256 slots, so that they wrap at the ring's size.      *)
(*                                                                         *)
(* A byte is named by the frame f it belongs to and its index i in it; n   *)
(* is the length of the payload, which the header of the frame carries.    *)
(***************************************************************************)
EXTENDS Integers, Sequences, FiniteSets

CONSTANTS
  RX_MAX_BUFFER_SIZE,  \* slots of the ring; the counters wrap at it
  HeaderLen,           \* sizeof(struct ble_header)
  PayloadLens,         \* payload lengths of the frames the module may send
  MaxFrames            \* bound: frames the module sends

ASSUME RingAssumption ==
  /\ RX_MAX_BUFFER_SIZE \in Nat \ {0, 1}
  /\ HeaderLen \in Nat \ {0}
  /\ PayloadLens \subseteq Nat
  /\ MaxFrames \in Nat

\* Mutant of Wrap: an index runs past the ring.
WrapNever(k) == k
Slots == 0..(RX_MAX_BUFFER_SIZE - 1)
Wrap(k) == k % RX_MAX_BUFFER_SIZE

NoByte == [f |-> 0, i |-> 0, n |-> 0]
Frame(f, n) == [i \in 1..(HeaderLen + n) |-> [f |-> f, i |-> i, n |-> n]]
Bytes == {b \in [f : 1..MaxFrames, i : Nat, n : PayloadLens] : b.i \in 1..(HeaderLen + b.n)}
Cells == Bytes \cup {NoByte}
Whole(bytes) == bytes # <<>> /\ bytes = Frame(bytes[1].f, bytes[1].n)

VARIABLES
  rxbuffer, rxbuffer_start, rxbuffer_next, rxbuffer_size,
  pc,         \* where main() is
  reg,        \* the register that holds rxbuffer_size during its decrement
  hdr,        \* the header ble_process_packet() has read, or <<>>
  data,       \* the bytes of the current uart_rx()
  line,       \* bytes of the frame the module is sending
  sent,       \* frames the module has sent
  received,   \* history: bytes the interrupt has stored since the reset
  removed,    \* history: how many of them uart_rx() has taken off the count
  handled     \* history: frames passed to their handlers since the reset

ring == <<rxbuffer, rxbuffer_start, rxbuffer_next, rxbuffer_size>>
vars == <<ring, pc, reg, hdr, data, line, sent, received, removed, handled>>

Pcs == {"fsm", "rx", "load", "store"}

\* The indices and the count stay in the ring (uart_rx(), the interrupt).
TypeOK ==
  /\ rxbuffer \in [Slots -> Cells]
  /\ {rxbuffer_start, rxbuffer_next, rxbuffer_size, reg} \subseteq Slots
  /\ pc \in Pcs
  /\ hdr \in Seq(Cells) /\ data \in Seq(Cells)
  /\ line \in Seq(Bytes) /\ received \in Seq(Bytes)
  /\ sent \in 0..MaxFrames /\ removed \in Nat
  /\ handled \in Seq(Seq(Cells))

Init ==
  /\ rxbuffer = [s \in Slots |-> NoByte]
  /\ rxbuffer_start = 0 /\ rxbuffer_next = 0 /\ rxbuffer_size = 0
  /\ pc = "fsm" /\ reg = 0 /\ hdr = <<>> /\ data = <<>> /\ line = <<>>
  /\ received = <<>> /\ removed = 0 /\ handled = <<>> /\ sent = 0

\* The interrupt has overwritten a byte that uart_rx() has not read.
Overrun ==
  Len(received) - removed - (IF pc \in {"load", "store"} THEN 1 ELSE 0) > RX_MAX_BUFFER_SIZE

-----------------------------------------------------------------------------
\* The module puts a frame on the line: a response or an event.
Transmit ==
  /\ line = <<>> /\ sent < MaxFrames
  /\ sent' = sent + 1
  /\ \E n \in PayloadLens : line' = Frame(sent', n)
  /\ UNCHANGED <<ring, pc, reg, hdr, data, received, removed, handled>>

\* ISR(USART_RX_vect).  The model stops when an unread byte is overwritten.
UsartRx ==
  /\ line # <<>> /\ ~Overrun
  /\ rxbuffer' = [rxbuffer EXCEPT ![rxbuffer_next] = Head(line)]
  /\ rxbuffer_next' = Wrap(rxbuffer_next + 1)
  /\ rxbuffer_size' = Wrap(rxbuffer_size + 1)
  /\ received' = Append(received, Head(line))
  /\ line' = Tail(line)
  /\ UNCHANGED <<rxbuffer_start, pc, reg, hdr, data, sent, removed, handled>>

-----------------------------------------------------------------------------
\* main() calls ble_process_packet() after as long as fsm_process() takes.
ProcessPacket ==
  /\ pc = "fsm"
  /\ pc' = "rx" /\ hdr' = <<>> /\ data' = <<>>
  /\ UNCHANGED <<ring, reg, line, sent, received, removed, handled>>

\* uart_rx(): data[i] = rxbuffer[rxbuffer_start++]
TakeByte ==
  /\ pc = "rx" /\ rxbuffer_size # 0 /\ ~Overrun
  /\ data' = Append(data, rxbuffer[rxbuffer_start])
  /\ rxbuffer_start' = Wrap(rxbuffer_start + 1)
  /\ pc' = "load"
  /\ UNCHANGED <<rxbuffer, rxbuffer_next, rxbuffer_size, reg, hdr, line, sent,
                 received, removed, handled>>

\* rxbuffer_size--, in two steps.
LoadSize ==
  /\ pc = "load"
  /\ reg' = rxbuffer_size /\ pc' = "store"
  /\ UNCHANGED <<ring, hdr, data, line, sent, received, removed, handled>>

\* What ble_process_packet() does once uart_rx() has read `data`: a payload
\* follows the header unless its length is zero, and then the handler runs.
Wanted == IF hdr = <<>> THEN HeaderLen ELSE hdr[1].n
Continue ==
  \/ /\ Len(data) < Wanted
     /\ pc' = "rx" /\ UNCHANGED <<hdr, data, handled>>
  \/ /\ Len(data) = Wanted /\ hdr = <<>> /\ data[1].n # 0
     /\ pc' = "rx" /\ hdr' = data /\ data' = <<>> /\ UNCHANGED handled
  \/ /\ Len(data) = Wanted /\ (hdr # <<>> \/ data[1].n = 0)
     /\ pc' = "fsm" /\ hdr' = <<>> /\ data' = <<>>
     /\ handled' = Append(handled, hdr \o data)

\* Mutant of StoreSize: the last byte of a header is not taken off.
StoreSizeSkipsHeader ==
  /\ pc = "store"
  /\ rxbuffer_size' = IF hdr = <<>> /\ Len(data) = HeaderLen THEN rxbuffer_size ELSE Wrap(reg - 1)
  /\ removed' = removed + 1
  /\ Continue
  /\ UNCHANGED <<rxbuffer, rxbuffer_start, rxbuffer_next, reg, line, sent, received>>
StoreSize ==
  /\ pc = "store"
  /\ rxbuffer_size' = Wrap(reg - 1)
  /\ removed' = removed + 1
  /\ Continue
  /\ UNCHANGED <<rxbuffer, rxbuffer_start, rxbuffer_next, reg, line, sent, received>>

\* No byte within the time-out and none read before: nothing to process.
Nothing ==
  /\ pc = "rx" /\ rxbuffer_size = 0 /\ hdr = <<>> /\ data = <<>>
  /\ pc' = "fsm"
  /\ UNCHANGED <<ring, reg, hdr, data, line, sent, received, removed, handled>>

\* soft_reset(), and main() from the top: uart_enable() empties the ring, and
\* the hard reset of the module, taken to work here, cuts off what it was
\* sending.
SoftReset ==
  /\ rxbuffer' = [s \in Slots |-> NoByte]
  /\ rxbuffer_start' = 0 /\ rxbuffer_next' = 0 /\ rxbuffer_size' = 0
  /\ pc' = "fsm" /\ reg' = 0 /\ hdr' = <<>> /\ data' = <<>> /\ line' = <<>>
  /\ received' = <<>> /\ removed' = 0 /\ handled' = <<>>
  /\ UNCHANGED sent

\* Mutant of Incomplete: a frame cut short is dropped.
IncompleteIsDropped ==
  /\ pc = "rx" /\ rxbuffer_size = 0 /\ (hdr # <<>> \/ data # <<>>)
  /\ pc' = "fsm" /\ hdr' = <<>> /\ data' = <<>>
  /\ UNCHANGED <<ring, reg, line, sent, received, removed, handled>>
\* A frame cut short: ble_process_packet() returns 1 and main() resets all.
Incomplete ==
  /\ pc = "rx" /\ rxbuffer_size = 0 /\ (hdr # <<>> \/ data # <<>>)
  /\ SoftReset

Main == ProcessPacket \/ TakeByte \/ LoadSize \/ StoreSize \/ Nothing \/ Incomplete
Next == Transmit \/ UsartRx \/ Main
Spec == Init /\ [][Next]_vars

-----------------------------------------------------------------------------
\* However the interrupt and uart_rx() interleave, and however late main()
\* comes, the handlers get the frames the module has sent, whole and in
\* order: a lost count delays a frame or resets the MCU, and never shifts
\* the boundaries of the frames.  Once a byte that was not read has been
\* overwritten, the model stops and nothing is said.
FramesInOrder ==
  ~Overrun =>
    /\ \A k \in DOMAIN handled : Whole(handled[k])
    /\ \A k \in 1..(Len(handled) - 1) : handled[k + 1][1].f = handled[k][1].f + 1
    /\ handled # <<>> => handled[1][1] = received[1]

\* uart_rx() never takes more bytes than the interrupt has stored, with the
\* counter wrapping and its updates lost: it never reads ahead of the module.
NeverAhead == removed + rxbuffer_size <= Len(received)
=============================================================================
