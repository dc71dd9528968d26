--------------------------- MODULE UartRing_proofs ---------------------------
(***************************************************************************)
(* Whatever the size of the ring, the frames and their number: the types   *)
(* of UartRing, that uart_rx() never reads ahead of the interrupt, and     *)
(* that frames are handled whole and in the order they were sent in.       *)
(***************************************************************************)
EXTENDS UartRing, SequenceTheorems, TLAPS

-----------------------------------------------------------------------------
\* The wrap of an index or a counter that moves by one, from inside the ring.
LEMMA WrapUp ==
  ASSUME NEW k \in Slots
  PROVE  /\ Wrap(k + 1) \in Slots
         /\ k # RX_MAX_BUFFER_SIZE - 1 => Wrap(k + 1) = k + 1
         /\ k = RX_MAX_BUFFER_SIZE - 1 => Wrap(k + 1) = 0
<1> DEFINE N == RX_MAX_BUFFER_SIZE
<1>1. N \in Nat /\ N > 1
  BY RingAssumption
<1>2. k \in Nat /\ k < N
  BY <1>1 DEF Slots
<1>3. CASE k # N - 1
  <2>1. (k + 1) % N = k + 1
    BY <1>1, <1>2, <1>3
  <2> QED
    BY <2>1, <1>1, <1>2, <1>3 DEF Slots, Wrap
<1>4. CASE k = N - 1
  <2>1. N % N = 0
    BY <1>1
  <2> QED
    BY <2>1, <1>1, <1>2, <1>4 DEF Slots, Wrap
<1> QED
  BY <1>3, <1>4

LEMMA WrapDown ==
  ASSUME NEW k \in Slots
  PROVE  /\ Wrap(k - 1) \in Slots
         /\ k # 0 => Wrap(k - 1) = k - 1
         /\ k = 0 => Wrap(k - 1) = RX_MAX_BUFFER_SIZE - 1
<1> DEFINE N == RX_MAX_BUFFER_SIZE
<1>1. N \in Nat /\ N > 1
  BY RingAssumption
<1>2. k \in Nat /\ k < N
  BY <1>1 DEF Slots
<1>3. CASE k # 0
  <2>1. (k - 1) % N = k - 1
    BY <1>1, <1>2, <1>3
  <2> QED
    BY <2>1, <1>1, <1>2, <1>3 DEF Slots, Wrap
<1>4. CASE k = 0
  <2>1. (-1) % N = N - 1
    BY <1>1
  <2> QED
    BY <2>1, <1>1, <1>2, <1>4 DEF Slots, Wrap
<1> QED
  BY <1>3, <1>4

-----------------------------------------------------------------------------
(* The types.                                                              *)

LEMMA FrameType ==
  ASSUME NEW f \in 1..MaxFrames, NEW n \in PayloadLens
  PROVE  Frame(f, n) \in Seq(Bytes)
<1>1. HeaderLen + n \in Nat
  BY RingAssumption
<1>2. \A i \in 1..(HeaderLen + n) : [f |-> f, i |-> i, n |-> n] \in Bytes
  BY <1>1 DEF Bytes
<1> QED
  BY <1>1, <1>2 DEF Frame

\* The first byte to leave a sequence, and what remains.
LEMMA HeadAndTail ==
  ASSUME NEW S, NEW s \in Seq(S), s # <<>>
  PROVE  Head(s) \in S /\ Tail(s) \in Seq(S)
OBVIOUS

LEMMA TypeInit == Init => TypeOK
<1> SUFFICES ASSUME Init PROVE TypeOK
  OBVIOUS
<1>1. 0 \in Slots /\ 0 \in 0..MaxFrames
  BY RingAssumption DEF Slots
<1>2. rxbuffer \in [Slots -> Cells]
  BY DEF Init, Cells
<1> QED
  BY <1>1, <1>2 DEF Init, TypeOK, Pcs

LEMMA TypeSend == ASSUME TypeOK, Transmit \/ UsartRx PROVE TypeOK'
<1>1. CASE Transmit
  <2>1. sent' \in 1..MaxFrames
    BY <1>1, RingAssumption DEF TypeOK, Transmit
  <2>2. line' \in Seq(Bytes)
    BY <1>1, <2>1, FrameType DEF Transmit
  <2> QED
    BY <1>1, <2>1, <2>2 DEF TypeOK, Transmit, ring
<1>2. CASE UsartRx
  <2>1. Head(line) \in Bytes /\ Tail(line) \in Seq(Bytes)
    BY <1>2, HeadAndTail DEF TypeOK, UsartRx
  <2>2. Wrap(rxbuffer_next + 1) \in Slots /\ Wrap(rxbuffer_size + 1) \in Slots
    BY WrapUp DEF TypeOK
  <2>3. rxbuffer' \in [Slots -> Cells]
    BY <1>2, <2>1 DEF TypeOK, UsartRx, Cells
  <2>4. received' \in Seq(Bytes)
    BY <1>2, <2>1 DEF TypeOK, UsartRx
  <2> QED
    BY <1>2, <2>1, <2>2, <2>3, <2>4 DEF TypeOK, UsartRx
<1> QED
  BY <1>1, <1>2

LEMMA TypeTake == ASSUME TypeOK, TakeByte PROVE TypeOK'
<1>1. rxbuffer[rxbuffer_start] \in Cells /\ Wrap(rxbuffer_start + 1) \in Slots
  BY WrapUp DEF TypeOK
<1>2. data' \in Seq(Cells)
  BY <1>1 DEF TypeOK, TakeByte
<1> QED
  BY <1>1, <1>2 DEF TypeOK, TakeByte, Pcs

LEMMA TypeStore == ASSUME TypeOK, StoreSize PROVE TypeOK'
<1>1. Wrap(reg - 1) \in Slots /\ removed + 1 \in Nat
  BY WrapDown DEF TypeOK
<1>2. /\ pc' \in Pcs /\ hdr' \in Seq(Cells) /\ data' \in Seq(Cells)
      /\ handled' \in Seq(Seq(Cells))
  <2>1. hdr \o data \in Seq(Cells)
    BY DEF TypeOK
  <2>2. Append(handled, hdr \o data) \in Seq(Seq(Cells))
    BY <2>1 DEF TypeOK
  <2>3. Continue
    BY DEF StoreSize
  <2>4. CASE pc' = "rx" /\ UNCHANGED <<hdr, data, handled>>
    BY <2>4 DEF TypeOK, Pcs
  <2>5. CASE pc' = "rx" /\ hdr' = data /\ data' = <<>> /\ UNCHANGED handled
    BY <2>5 DEF TypeOK, Pcs
  <2>6. CASE pc' = "fsm" /\ hdr' = <<>> /\ data' = <<>> /\ handled' = Append(handled, hdr \o data)
    BY <2>2, <2>6 DEF Pcs
  <2> QED
    BY <2>3, <2>4, <2>5, <2>6 DEF Continue
<1> QED
  BY <1>1, <1>2 DEF TypeOK, StoreSize

LEMMA TypeStep == TypeOK /\ [Next]_vars => TypeOK'
<1> SUFFICES ASSUME TypeOK, [Next]_vars PROVE TypeOK'
  OBVIOUS
<1>1. CASE Transmit \/ UsartRx
  BY <1>1, TypeSend
<1>2. CASE TakeByte
  BY <1>2, TypeTake
<1>3. CASE StoreSize
  BY <1>3, TypeStore
<1>4. CASE ProcessPacket \/ LoadSize \/ Nothing
  <2>1. CASE ProcessPacket
    BY <2>1 DEF TypeOK, Pcs, ProcessPacket, ring
  <2>2. CASE LoadSize
    BY <2>2 DEF TypeOK, Pcs, LoadSize, ring
  <2>3. CASE Nothing
    BY <2>3 DEF TypeOK, Pcs, Nothing, ring
  <2> QED
    BY <1>4, <2>1, <2>2, <2>3
<1>5. CASE Incomplete
  <2>1. 0 \in Slots
    BY RingAssumption DEF Slots
  <2>2. rxbuffer' \in [Slots -> Cells]
    BY <1>5 DEF Incomplete, SoftReset, Cells
  <2> QED
    BY <1>5, <2>1, <2>2 DEF TypeOK, Pcs, Incomplete, SoftReset
<1>6. CASE UNCHANGED vars
  BY <1>6 DEF TypeOK, vars, ring
<1> QED
  BY <1>1, <1>2, <1>3, <1>4, <1>5, <1>6 DEF Next, Main

\* For a ring of any size, any frames and any interleaving, every variable
\* keeps its type: no index leaves the ring (uart_rx(), ISR(USART_RX_vect)).
THEOREM RingTypes == Spec => []TypeOK
<1> QED
  BY TypeInit, TypeStep, PTL DEF Spec

-----------------------------------------------------------------------------
(* The count of bytes.  NeverAhead is not inductive: the value in the      *)
(* register must also be covered by bytes not yet taken off, and a zero    *)
(* found by the decrement must be a full ring, whose count has wrapped.    *)

RingFull == Len(received) >= removed + RX_MAX_BUFFER_SIZE

Counted ==
  /\ NeverAhead
  /\ pc = "load" => rxbuffer_size # 0 \/ RingFull
  /\ pc = "store" => removed + reg <= Len(received) /\ (reg # 0 \/ RingFull)

LEMMA Numbers ==
  ASSUME TypeOK
  PROVE  /\ RX_MAX_BUFFER_SIZE \in Nat /\ removed \in Nat /\ Len(received) \in Nat
         /\ rxbuffer_size \in Nat /\ reg \in Nat
BY RingAssumption DEF TypeOK, Slots

LEMMA CountedUsartRx == ASSUME TypeOK, Counted, UsartRx PROVE Counted'
<1>1. Len(received') = Len(received) + 1 /\ UNCHANGED <<removed, reg, pc>>
      /\ rxbuffer_size' = Wrap(rxbuffer_size + 1)
  <2>1. Head(line) \in Bytes
    BY HeadAndTail DEF TypeOK, UsartRx
  <2> QED
    BY <2>1 DEF TypeOK, UsartRx
<1>2. \/ rxbuffer_size' = rxbuffer_size + 1
      \/ rxbuffer_size = RX_MAX_BUFFER_SIZE - 1 /\ rxbuffer_size' = 0
  BY <1>1, WrapUp DEF TypeOK
<1>3. rxbuffer_size' # 0 \/ RingFull'
  BY <1>1, <1>2, Numbers DEF Counted, NeverAhead, RingFull
<1>4. RingFull => RingFull'
  BY <1>1, Numbers DEF RingFull
<1> QED
  BY <1>1, <1>2, <1>3, <1>4, Numbers DEF Counted, NeverAhead

LEMMA CountedStore == ASSUME TypeOK, Counted, StoreSize PROVE Counted'
<1>1. /\ pc = "store" /\ pc' \in {"rx", "fsm"}
      /\ removed' = removed + 1 /\ received' = received /\ rxbuffer_size' = Wrap(reg - 1)
  BY DEF StoreSize, Continue
<1>2. \/ rxbuffer_size' = reg - 1
      \/ reg = 0 /\ rxbuffer_size' = RX_MAX_BUFFER_SIZE - 1
  BY <1>1, WrapDown DEF TypeOK
<1> QED
  BY <1>1, <1>2, Numbers DEF Counted, NeverAhead, RingFull

LEMMA CountedStep == TypeOK /\ Counted /\ [Next]_vars => Counted'
<1> SUFFICES ASSUME TypeOK, Counted, [Next]_vars PROVE Counted'
  OBVIOUS
<1>1. CASE UsartRx
  BY <1>1, CountedUsartRx
<1>2. CASE StoreSize
  BY <1>2, CountedStore
<1>3. CASE TakeByte
  BY <1>3 DEF Counted, NeverAhead, RingFull, TakeByte
<1>4. CASE LoadSize
  BY <1>4 DEF Counted, NeverAhead, RingFull, LoadSize, ring
<1>5. CASE Transmit \/ ProcessPacket \/ Nothing
  BY <1>5 DEF Counted, NeverAhead, RingFull, Transmit, ProcessPacket, Nothing, ring
<1>6. CASE Incomplete
  BY <1>6 DEF Counted, NeverAhead, Incomplete, SoftReset
<1>7. CASE UNCHANGED vars
  BY <1>7 DEF Counted, NeverAhead, RingFull, vars, ring
<1> QED
  BY <1>1, <1>2, <1>3, <1>4, <1>5, <1>6, <1>7 DEF Next, Main

\* Whatever updates of rxbuffer_size are lost and however often it wraps, it
\* never exceeds the bytes that are there: uart_rx() never reads ahead of the
\* receive interrupt.
THEOREM NeverReadsAhead == Spec => []NeverAhead
<1>1. Init => Counted
  BY DEF Init, Counted, NeverAhead
<1>2. Counted => NeverAhead
  BY DEF Counted
<1> QED
  BY <1>1, <1>2, RingTypes, CountedStep, PTL DEF Spec

-----------------------------------------------------------------------------
(* The order of the bytes.  FramesInOrder rests on three facts: the module *)
(* sends frame after frame, the ring holds what was received and not taken *)
(* (until it overruns), and what ble_process_packet() has read so far is   *)
(* the beginning of one frame, the one after those it has handled.         *)

\* Bytes uart_rx() has read, also before it has taken them off the count.
Taken == removed + (IF pc \in {"load", "store"} THEN 1 ELSE 0)
Backlog == Len(received) - Taken

Byte(b, i) == [f |-> b.f, i |-> i, n |-> b.n]
LastOf(b) == b.i = HeaderLen + b.n
Follows(a, b) ==
  IF LastOf(a) THEN b.f = a.f + 1 /\ b.i = 1 ELSE b = Byte(a, a.i + 1)

\* What the module has sent since the reset: whole frames in order, of which
\* the last bytes may still be on the line.
Streamed ==
  /\ received # <<>> => received[1].i = 1
  /\ \A j \in 1..(Len(received) - 1) : Follows(received[j], received[j + 1])
  /\ line # <<>> =>
       /\ IF received = <<>> THEN line[1].i = 1
                             ELSE Follows(received[Len(received)], line[1])
       /\ \A j \in 1..(Len(line) - 1) : Follows(line[j], line[j + 1])
       /\ LastOf(line[Len(line)]) /\ line[Len(line)].f = sent
  /\ line = <<>> /\ received # <<>> =>
       LastOf(received[Len(received)]) /\ received[Len(received)].f = sent

\* The slot d places after the next one to be read.
Slot(d) ==
  IF rxbuffer_start + d < RX_MAX_BUFFER_SIZE THEN rxbuffer_start + d
  ELSE rxbuffer_start + d - RX_MAX_BUFFER_SIZE

RingHolds ==
  ~Overrun =>
    /\ rxbuffer_next = Slot(Backlog)
    /\ \A d \in 0..(Backlog - 1) : rxbuffer[Slot(d)] = received[Taken + 1 + d]

\* Where ble_process_packet() is in the frame.
Lengths ==
  /\ pc = "fsm" => hdr = <<>> /\ data = <<>>
  /\ pc = "rx" => Len(data) < Wanted
  /\ pc \in {"load", "store"} => Len(data) \in 1..Wanted
  /\ hdr # <<>> => Len(hdr) = HeaderLen /\ hdr[1].n # 0

\* The frame that is being read, up to the last byte taken.
Current == IF hdr = <<>> THEN data[1] ELSE hdr[1]
Reading ==
  LET H == Len(hdr) IN
  /\ Taken <= Len(received)
  /\ hdr # <<>> \/ data # <<>> \/ handled # <<>> => Taken > 0
  /\ \A j \in 1..Len(hdr) : hdr[j] = Byte(Current, j)
  /\ \A j \in 1..Len(data) : data[j] = Byte(Current, H + j)
  /\ data # <<>> => received[Taken] = data[Len(data)]
  /\ hdr # <<>> /\ data = <<>> => received[Taken] = hdr[Len(hdr)]

\* What has been handled, and what comes after it.
Handled ==
  /\ \A k \in DOMAIN handled : Whole(handled[k])
  /\ \A k \in 1..(Len(handled) - 1) : handled[k + 1][1].f = handled[k][1].f + 1
  /\ handled # <<>> => handled[1][1] = received[1]
  /\ hdr = <<>> /\ data = <<>> =>
       IF handled = <<>> THEN Taken = 0
       ELSE LastOf(received[Taken]) /\ received[Taken].f = handled[Len(handled)][1].f
  /\ hdr # <<>> \/ data # <<>> =>
       IF handled = <<>> THEN Current = received[1]
       ELSE Current.f = handled[Len(handled)][1].f + 1

Ordered == Streamed /\ RingHolds /\ Lengths /\ Reading /\ Handled

-----------------------------------------------------------------------------
LEMMA CellType ==
  ASSUME NEW b \in Cells
  PROVE  /\ b.f \in Nat /\ b.i \in Nat /\ b.n \in Nat
         /\ b = [f |-> b.f, i |-> b.i, n |-> b.n]
<1>1. CASE b \in Bytes
  <2>1. b \in [f : 1..MaxFrames, i : Nat, n : PayloadLens]
    BY <1>1 DEF Bytes
  <2>2. b = [f |-> b.f, i |-> b.i, n |-> b.n]
    BY <2>1
  <2>3. b.f \in 1..MaxFrames /\ b.i \in Nat /\ b.n \in PayloadLens
    BY <2>1
  <2> QED
    BY <2>2, <2>3, RingAssumption
<1>2. CASE b = NoByte
  BY <1>2 DEF NoByte
<1> QED
  BY <1>1, <1>2 DEF Cells

LEMMA TakenType ==
  ASSUME TypeOK
  PROVE  /\ Taken \in Nat /\ Backlog \in Int
         /\ Overrun <=> Backlog > RX_MAX_BUFFER_SIZE
<1>1. Taken \in Nat /\ Backlog \in Int
  BY Numbers DEF Taken, Backlog
<1> QED
  BY <1>1, Numbers DEF Taken, Backlog, Overrun

LEMMA TakenTypeNext ==
  ASSUME TypeOK'
  PROVE  Overrun' <=> Backlog' > RX_MAX_BUFFER_SIZE
<1>1. RX_MAX_BUFFER_SIZE \in Nat /\ removed' \in Nat /\ Len(received') \in Nat
  BY RingAssumption DEF TypeOK
<1> QED
  BY <1>1 DEF Taken, Backlog, Overrun

LEMMA FrameBytes ==
  ASSUME NEW f \in 1..MaxFrames, NEW n \in PayloadLens
  PROVE  LET s == Frame(f, n) IN
         /\ Len(s) = HeaderLen + n /\ HeaderLen + n \in Nat \ {0}
         /\ \A j \in 1..Len(s) : s[j] = [f |-> f, i |-> j, n |-> n]
<1>1. HeaderLen + n \in Nat \ {0}
  BY RingAssumption
<1>2. /\ Frame(f, n) \in Seq(Bytes) /\ DOMAIN Frame(f, n) = 1..(HeaderLen + n)
      /\ \A j \in 1..(HeaderLen + n) : Frame(f, n)[j] = [f |-> f, i |-> j, n |-> n]
  BY FrameType DEF Frame
<1>3. Len(Frame(f, n)) = HeaderLen + n
  BY <1>1, <1>2
<1> QED
  BY <1>1, <1>2, <1>3

\* What Append and Tail do to the bytes of a sequence.
LEMMA AppendTail ==
  ASSUME NEW S, NEW s \in Seq(S), NEW t \in Seq(S), NEW e \in S
  PROVE  /\ Append(s, e) \in Seq(S) /\ Append(s, e) # <<>> /\ Len(Append(s, e)) = Len(s) + 1
         /\ \A j \in 1..Len(s) : Append(s, e)[j] = s[j]
         /\ Append(s, e)[Len(s) + 1] = e
         /\ t # <<>> => /\ Len(t) \in Nat \ {0} /\ Head(t) = t[1]
                        /\ Tail(t) \in Seq(S) /\ Len(Tail(t)) = Len(t) - 1
                        /\ \A j \in 1..(Len(t) - 1) : Tail(t)[j] = t[j + 1]
OBVIOUS

-----------------------------------------------------------------------------
(* The stream: what has been received, then what is on the line.           *)

LEMMA StreamedTransmit == ASSUME TypeOK, Streamed, Transmit PROVE Streamed'
<1>1. PICK n \in PayloadLens : line' = Frame(sent', n)
  BY DEF Transmit
<1>2. sent \in Nat /\ sent' = sent + 1 /\ sent' \in 1..MaxFrames /\ received' = received /\ line = <<>>
  BY RingAssumption DEF TypeOK, Transmit
<1>3. /\ Len(line') = HeaderLen + n /\ HeaderLen + n \in Nat \ {0} /\ line' # <<>>
      /\ \A j \in 1..Len(line') : line'[j] = [f |-> sent', i |-> j, n |-> n]
  BY <1>1, <1>2, FrameBytes
<1>4. line'[1] = [f |-> sent', i |-> 1, n |-> n]
  BY <1>3
<1>5. \A j \in 1..(Len(line') - 1) : Follows(line'[j], line'[j + 1])
  <2> SUFFICES ASSUME NEW j \in 1..(Len(line') - 1) PROVE Follows(line'[j], line'[j + 1])
    OBVIOUS
  <2>1. j \in 1..Len(line') /\ j + 1 \in 1..Len(line') /\ j # HeaderLen + n
    BY <1>3
  <2>2. line'[j] = [f |-> sent', i |-> j, n |-> n] /\ line'[j + 1] = [f |-> sent', i |-> j + 1, n |-> n]
    BY <1>3, <2>1
  <2> QED
    BY <2>1, <2>2 DEF Follows, LastOf, Byte
<1>6. LastOf(line'[Len(line')]) /\ line'[Len(line')].f = sent'
  BY <1>3 DEF LastOf
<1>7. received # <<>> => Follows(received[Len(received)], line'[1])
  BY <1>2, <1>4 DEF Streamed, Follows
<1> QED
  BY <1>2, <1>3, <1>4, <1>5, <1>6, <1>7 DEF Streamed

LEMMA StreamedUsartRx == ASSUME TypeOK, Streamed, UsartRx PROVE Streamed'
<1> DEFINE L == Len(received)
<1>1. /\ line # <<>> /\ line \in Seq(Bytes) /\ received \in Seq(Bytes)
      /\ received' = Append(received, Head(line)) /\ line' = Tail(line) /\ sent' = sent
  BY DEF TypeOK, UsartRx
<1>2. Head(line) \in Bytes /\ Head(line) = line[1] /\ L \in Nat /\ Len(line) \in Nat \ {0}
  BY <1>1, HeadAndTail, AppendTail
<1>3. /\ Len(received') = L + 1 /\ received' # <<>> /\ received'[L + 1] = line[1]
      /\ \A j \in 1..L : received'[j] = received[j]
      /\ Len(line') = Len(line) - 1 /\ line' \in Seq(Bytes)
      /\ \A j \in 1..(Len(line) - 1) : line'[j] = line[j + 1]
  BY <1>1, <1>2, AppendTail
<1>4. received'[1].i = 1
  <2>1. CASE received = <<>>
    BY <1>1, <1>3, <2>1 DEF Streamed
  <2>2. CASE received # <<>>
    <3>1. 1 \in 1..L
      BY <1>1, <1>2, <2>2
    <3> QED
      BY <1>3, <2>2, <3>1 DEF Streamed
  <2> QED
    BY <2>1, <2>2
<1>5. \A j \in 1..(Len(received') - 1) : Follows(received'[j], received'[j + 1])
  <2> SUFFICES ASSUME NEW j \in 1..L PROVE Follows(received'[j], received'[j + 1])
    BY <1>2, <1>3
  <2>1. CASE j = L
    <3>1. received # <<>>
      BY <1>2, <2>1
    <3> QED
      BY <1>1, <1>2, <1>3, <2>1, <3>1 DEF Streamed
  <2>2. CASE j # L
    <3>1. j \in 1..(L - 1) /\ j + 1 \in 1..L
      BY <1>2, <2>2
    <3> QED
      BY <1>3, <3>1 DEF Streamed
  <2> QED
    BY <2>1, <2>2
<1>6. CASE line' = <<>>
  <2>1. Len(line) = 1
    BY <1>2, <1>3, <1>6
  <2>2. LastOf(received'[Len(received')]) /\ received'[Len(received')].f = sent'
    BY <1>1, <1>3, <2>1 DEF Streamed
  <2> QED
    BY <1>3, <1>4, <1>5, <1>6, <2>2 DEF Streamed
<1>7. CASE line' # <<>>
  <2>1. Len(line) - 1 \in Nat \ {0}
    BY <1>2, <1>3, <1>7
  <2>2. line'[1] = line[2] /\ Follows(line[1], line[2])
    BY <1>1, <1>2, <1>3, <2>1 DEF Streamed
  <2>3. \A j \in 1..(Len(line') - 1) : Follows(line'[j], line'[j + 1])
    <3> SUFFICES ASSUME NEW j \in 1..(Len(line') - 1) PROVE Follows(line'[j], line'[j + 1])
      OBVIOUS
    <3>1. /\ j \in 1..(Len(line) - 1) /\ j + 1 \in 1..(Len(line) - 1)
      BY <1>2, <1>3
    <3> QED
      BY <1>1, <1>3, <3>1 DEF Streamed
  <2>4. line'[Len(line')] = line[Len(line)]
    BY <1>2, <1>3, <2>1
  <2>5. LastOf(line'[Len(line')]) /\ line'[Len(line')].f = sent'
    BY <1>1, <2>4 DEF Streamed
  <2> QED
    BY <1>3, <1>4, <1>5, <1>7, <2>2, <2>3, <2>5 DEF Streamed
<1> QED
  BY <1>6, <1>7

-----------------------------------------------------------------------------
(* The ring.                                                               *)

\* Up to a whole ring ahead, places in the ring are slots of their own.
LEMMA SlotFacts ==
  ASSUME TypeOK, NEW d \in 0..(RX_MAX_BUFFER_SIZE - 1)
  PROVE  /\ Slot(d) \in Slots /\ Wrap(Slot(d) + 1) = Slot(d + 1)
         /\ \A e \in 0..(d - 1) : Slot(e) # Slot(d)
<1> DEFINE N == RX_MAX_BUFFER_SIZE
<1>1. N \in Nat /\ N > 1 /\ rxbuffer_start \in 0..(N - 1)
  BY RingAssumption DEF TypeOK, Slots
<1>2. Slot(d) \in Slots
  BY <1>1 DEF Slot, Slots
<1>3. Wrap(Slot(d) + 1) = Slot(d + 1)
  <2>1. CASE Slot(d) # N - 1
    <3>1. Wrap(Slot(d) + 1) = Slot(d) + 1
      BY <1>2, <2>1, WrapUp
    <3> QED
      BY <1>1, <2>1, <3>1 DEF Slot
  <2>2. CASE Slot(d) = N - 1
    <3>1. Wrap(Slot(d) + 1) = 0
      BY <1>2, <2>2, WrapUp
    <3> QED
      BY <1>1, <2>2, <3>1 DEF Slot
  <2> QED
    BY <2>1, <2>2
<1>4. \A e \in 0..(d - 1) : Slot(e) # Slot(d)
  BY <1>1 DEF Slot
<1> QED
  BY <1>2, <1>3, <1>4

\* A step that leaves the ring alone and takes no byte.
LEMMA RingKept ==
  ASSUME RingHolds,
         UNCHANGED <<rxbuffer, rxbuffer_start, rxbuffer_next, received>>,
         Taken' = Taken, TypeOK, TypeOK'
  PROVE  RingHolds'
<1>1. Backlog' = Backlog
  BY DEF Backlog
<1>2. Overrun' <=> Overrun
  BY <1>1, TakenType, TakenTypeNext
<1>3. ASSUME NEW d PROVE Slot(d)' = Slot(d)
  BY DEF Slot
<1> QED
  BY <1>1, <1>2, <1>3 DEF RingHolds, Slot

LEMMA RingUsartRx ==
  ASSUME TypeOK, TypeOK', RingHolds, Taken <= Len(received), UsartRx
  PROVE  RingHolds'
<1> SUFFICES ASSUME ~Overrun' PROVE RingHolds'
  BY DEF RingHolds
<1> DEFINE L == Len(received)
           B == Backlog
<1>1. /\ ~Overrun /\ Taken' = Taken /\ rxbuffer_start' = rxbuffer_start
      /\ rxbuffer' = [rxbuffer EXCEPT ![rxbuffer_next] = Head(line)]
      /\ rxbuffer_next' = Wrap(rxbuffer_next + 1)
      /\ received' = Append(received, Head(line))
  BY DEF UsartRx, Taken
<1>2. /\ L \in Nat /\ Len(received') = L + 1 /\ received'[L + 1] = Head(line)
      /\ \A j \in 1..L : received'[j] = received[j]
  <2>1. Head(line) \in Bytes /\ received \in Seq(Bytes)
    BY HeadAndTail DEF TypeOK, UsartRx
  <2> QED
    BY <1>1, <2>1, AppendTail
<1>3. Taken \in Nat /\ B \in Nat /\ Backlog' = B + 1
  <2>1. Taken \in Nat
    BY TakenType
  <2> QED
    BY <1>1, <1>2, <2>1 DEF Backlog
<1>4. B \in 0..(RX_MAX_BUFFER_SIZE - 1)
  <2>1. Overrun' <=> Len(received') - Taken' > RX_MAX_BUFFER_SIZE
    BY <1>1, <1>2, <1>3, Numbers DEF Overrun, Taken, UsartRx
  <2> QED
    BY <1>1, <1>2, <1>3, <2>1, Numbers DEF Backlog
<1>5. rxbuffer_next = Slot(B) /\ \A d \in 0..(B - 1) : rxbuffer[Slot(d)] = received[Taken + 1 + d]
  BY <1>1 DEF RingHolds
<1>6. \A d \in 0..B : Slot(d) \in Slots
  <2>1. B \in Nat /\ RX_MAX_BUFFER_SIZE \in Nat
    BY <1>3, Numbers
  <2>2. \A d \in 0..B : d \in 0..(RX_MAX_BUFFER_SIZE - 1)
    BY <1>4, <2>1
  <2> QED
    BY <2>2, SlotFacts
<1>7. rxbuffer_next' = Slot(B + 1)
  BY <1>1, <1>4, <1>5, SlotFacts
<1>8. \A d \in 0..B : rxbuffer'[Slot(d)] = received'[Taken + 1 + d]
  <2> SUFFICES ASSUME NEW d \in 0..B PROVE rxbuffer'[Slot(d)] = received'[Taken + 1 + d]
    OBVIOUS
  <2>1. CASE d = B
    <3>1. rxbuffer'[Slot(d)] = Head(line)
      BY <1>1, <1>5, <1>6, <2>1 DEF TypeOK
    <3>2. Taken + 1 + d = L + 1
      BY <1>2, <1>3, <2>1 DEF Backlog
    <3> QED
      BY <1>2, <3>1, <3>2
  <2>2. CASE d # B
    <3>1. d \in 0..(B - 1) /\ Taken + 1 + d \in 1..L
      BY <1>2, <1>3, <2>2 DEF Backlog
    <3>2. Slot(d) # rxbuffer_next
      BY <1>4, <1>5, <3>1, SlotFacts
    <3>3. rxbuffer'[Slot(d)] = rxbuffer[Slot(d)]
      BY <1>1, <1>6, <3>2 DEF TypeOK
    <3> QED
      BY <1>2, <1>5, <3>1, <3>3
  <2> QED
    BY <2>1, <2>2
<1>9. \A d \in Nat : Slot(d)' = Slot(d)
  BY <1>1 DEF Slot
<1>10. rxbuffer_next' = Slot(Backlog)'
  BY <1>3, <1>7, <1>9
<1>11. \A d \in 0..(Backlog' - 1) : rxbuffer'[Slot(d)'] = received'[Taken' + 1 + d]
  <2> SUFFICES ASSUME NEW d \in 0..(Backlog' - 1)
               PROVE  rxbuffer'[Slot(d)'] = received'[Taken' + 1 + d]
    OBVIOUS
  <2>1. d \in 0..B /\ d \in Nat
    BY <1>3
  <2> QED
    BY <1>1, <1>8, <1>9, <2>1
<1> QED
  BY <1>10, <1>11 DEF RingHolds

LEMMA RingTakeByte ==
  ASSUME TypeOK, TypeOK', RingHolds, NeverAhead, TakeByte
  PROVE  /\ RingHolds' /\ Taken \in Nat /\ Taken' = Taken + 1
         /\ Taken < Len(received) /\ rxbuffer[rxbuffer_start] = received[Taken + 1]
<1> DEFINE B == Backlog
<1>1. /\ ~Overrun /\ UNCHANGED <<rxbuffer, rxbuffer_next, received>>
      /\ rxbuffer_start' = Wrap(rxbuffer_start + 1)
      /\ Taken = removed /\ Taken' = Taken + 1 /\ rxbuffer_size # 0
  <2>1. Taken = removed /\ Taken' = removed + 1
    BY Numbers DEF TakeByte, Taken
  <2> QED
    BY <2>1 DEF TakeByte
<1>2. Taken \in Nat /\ Len(received) \in Nat /\ Taken < Len(received)
  BY <1>1, Numbers DEF NeverAhead
<1>3. B \in 1..RX_MAX_BUFFER_SIZE /\ B = Len(received) - Taken /\ Backlog' = B - 1
  BY <1>1, <1>2, TakenType, RingAssumption DEF Backlog
<1>4. rxbuffer_next = Slot(B) /\ \A d \in 0..(B - 1) : rxbuffer[Slot(d)] = received[Taken + 1 + d]
  BY <1>1 DEF RingHolds
<1>5. rxbuffer_start \in Slots /\ Slot(0) = rxbuffer_start
  <2>1. rxbuffer_start \in Slots
    BY DEF TypeOK
  <2> QED
    BY <2>1, RingAssumption DEF Slots, Slot
<1>6. \A d \in 0..(B - 1) : Slot(d)' = Slot(d + 1)
  <2> SUFFICES ASSUME NEW d \in 0..(B - 1) PROVE Slot(d)' = Slot(d + 1)
    OBVIOUS
  <2>3. d \in Nat /\ d + 1 <= RX_MAX_BUFFER_SIZE
    BY <1>3, RingAssumption
  <2>1. RX_MAX_BUFFER_SIZE \in Nat /\ rxbuffer_start \in Nat /\ rxbuffer_start < RX_MAX_BUFFER_SIZE
    BY <1>5, RingAssumption DEF Slots
  <2>2. \/ rxbuffer_start' = rxbuffer_start + 1
        \/ rxbuffer_start = RX_MAX_BUFFER_SIZE - 1 /\ rxbuffer_start' = 0
    BY <1>1, <1>5, WrapUp
  <2> QED
    BY <2>1, <2>2, <2>3 DEF Slot
<1>7. rxbuffer_next' = Slot(Backlog)'
  BY <1>1, <1>3, <1>4, <1>6
<1>8. \A d \in 0..(Backlog' - 1) : rxbuffer'[Slot(d)'] = received'[Taken' + 1 + d]
  <2> SUFFICES ASSUME NEW d \in 0..(B - 2) PROVE rxbuffer[Slot(d + 1)] = received[Taken + 1 + (d + 1)]
    BY <1>1, <1>2, <1>3, <1>6
  <2> QED
    BY <1>3, <1>4
<1>9. rxbuffer[rxbuffer_start] = received[Taken + 1]
  BY <1>2, <1>3, <1>4, <1>5
<1> QED
  BY <1>1, <1>2, <1>7, <1>8, <1>9 DEF RingHolds

LEMMA RingReset == ASSUME TypeOK', SoftReset PROVE RingHolds'
<1>1. Taken' = 0 /\ Len(received') = 0 /\ rxbuffer_start' = 0 /\ rxbuffer_next' = 0
  BY DEF SoftReset, Taken
<1>2. Backlog' = 0 /\ Slot(0)' = 0
  BY <1>1, RingAssumption DEF Backlog, Slot
<1> QED
  BY <1>1, <1>2 DEF RingHolds

-----------------------------------------------------------------------------
(* What ble_process_packet() has read, and what it has handled.            *)

\* A step that leaves all of it alone.
LEMMA ReadingKept ==
  ASSUME UNCHANGED <<hdr, data, received, handled>>, Taken' = Taken,
         Reading, Handled
  PROVE  Reading' /\ Handled'
<1>1. Current' = Current
  BY DEF Current
<1> QED
  BY <1>1 DEF Reading, Handled

\* A byte more has been received.
LEMMA ReadingUsartRx ==
  ASSUME TypeOK, Reading, Handled, UsartRx
  PROVE  Reading' /\ Handled'
<1> DEFINE L == Len(received)
<1>1. UNCHANGED <<hdr, data, handled>> /\ Taken' = Taken /\ Current' = Current
  BY DEF UsartRx, Taken, Current
<1>2. L \in Nat /\ Len(received') = L + 1 /\ \A j \in 1..L : received'[j] = received[j]
  <2>1. Head(line) \in Bytes /\ received \in Seq(Bytes)
    BY HeadAndTail DEF TypeOK, UsartRx
  <2> QED
    BY <2>1, AppendTail DEF UsartRx
<1>3. Taken \in Nat /\ Taken <= L
  BY TakenType DEF Reading
<1>4. hdr # <<>> \/ data # <<>> \/ handled # <<>> =>
        received'[Taken] = received[Taken] /\ received'[1] = received[1]
  <2>1. Taken > 0 => Taken \in 1..L /\ 1 \in 1..L
    BY <1>2, <1>3
  <2> QED
    BY <1>2, <2>1 DEF Reading
<1>5. Reading'
  BY <1>1, <1>2, <1>3, <1>4 DEF Reading
<1>6. Handled'
  BY <1>1, <1>4 DEF Handled
<1> QED
  BY <1>5, <1>6

\* Bytes that are not the last of their frame are followed by the next.
LEMMA NextByte ==
  ASSUME TypeOK, Streamed, NEW j \in 1..(Len(received) - 1)
  PROVE  /\ ~LastOf(received[j]) => received[j + 1] = Byte(received[j], received[j].i + 1)
         /\ LastOf(received[j]) => received[j + 1].f = received[j].f + 1 /\ received[j + 1].i = 1
BY DEF Streamed, Follows

\* The byte uart_rx() takes continues the frame, or begins the next one.
LEMMA ReadingTakeByte ==
  ASSUME TypeOK, Streamed, Lengths, Reading, Handled, TakeByte,
         Taken \in Nat, Taken' = Taken + 1, Taken < Len(received),
         rxbuffer[rxbuffer_start] = received[Taken + 1]
  PROVE  Reading' /\ Handled'
<1> DEFINE b == received[Taken + 1]
           H == Len(hdr)
           D == Len(data)
<1>1. /\ UNCHANGED <<hdr, received, handled>> /\ data' = Append(data, b)
      /\ pc = "rx" /\ D < Wanted
  BY DEF TakeByte, Lengths
<1>2. b \in Cells /\ b.f \in Nat /\ b.i \in Nat /\ b.n \in Nat
      /\ b = [f |-> b.f, i |-> b.i, n |-> b.n]
  <2>1. Len(received) \in Nat /\ Taken + 1 \in 1..Len(received)
    BY DEF TypeOK
  <2>2. b \in Bytes
    BY <2>1 DEF TypeOK
  <2> QED
    BY <2>2, CellType DEF Cells
<1>3. /\ H \in Nat /\ D \in Nat /\ data' # <<>> /\ Len(data') = D + 1 /\ data'[D + 1] = b
      /\ \A j \in 1..D : data'[j] = data[j]
      /\ hdr # <<>> => H = HeaderLen /\ hdr[1].n # 0
      /\ hdr = <<>> => H = 0
      /\ data # <<>> => D > 0
      /\ data = <<>> => D = 0
      /\ HeaderLen \in Nat /\ HeaderLen > 0
  <2>1. data \in Seq(Cells) /\ hdr \in Seq(Cells)
    BY DEF TypeOK
  <2> QED
    BY <1>1, <1>2, <2>1, AppendTail, RingAssumption DEF Lengths
<1>4. CASE hdr = <<>> /\ data = <<>>
  <2>1. Current' = b
    BY <1>1, <1>3, <1>4 DEF Current
  <2>2. b.i = 1 /\ IF handled = <<>> THEN b = received[1]
                   ELSE b.f = handled[Len(handled)][1].f + 1
    <3>1. CASE handled = <<>>
      BY <1>4, <3>1 DEF Handled, Streamed
    <3>2. CASE handled # <<>>
      <4>1. /\ LastOf(received[Taken]) /\ received[Taken].f = handled[Len(handled)][1].f
            /\ Taken > 0
        BY <1>4, <3>2 DEF Handled, Reading
      <4>2. Taken \in 1..(Len(received) - 1)
        BY <4>1 DEF TypeOK
      <4> QED
        BY <3>2, <4>1, <4>2, NextByte
    <3> QED
      BY <3>1, <3>2
  <2>3. b = Byte(b, 1)
    BY <1>2, <2>2 DEF Byte
  <2>4. Reading'
    BY <1>1, <1>3, <1>4, <2>1, <2>3 DEF Reading
  <2>5. Handled'
    BY <1>1, <1>3, <1>4, <2>1, <2>2 DEF Handled
  <2> QED
    BY <2>4, <2>5
<1>5. CASE hdr # <<>> \/ data # <<>>
  <2>1. Current' = Current
    <3>1. CASE hdr # <<>>
      BY <1>1, <3>1 DEF Current
    <3>2. CASE hdr = <<>>
      <4>1. 1 \in 1..D
        BY <1>3, <1>5, <3>2
      <4> QED
        BY <1>1, <1>3, <3>2, <4>1 DEF Current
    <3> QED
      BY <3>1, <3>2
  <2>2. /\ received[Taken] = Byte(Current, H + D) /\ H + D # HeaderLen + Current.n
        /\ Taken > 0
    <3>1. CASE data # <<>>
      <4>1. D \in 1..D /\ received[Taken] = data[D]
        BY <1>3, <3>1 DEF Reading
      <4>2. data[D] = Byte(Current, H + D)
        BY <4>1 DEF Reading
      <4>3. H + D # HeaderLen + Current.n
        <5>1. CASE hdr = <<>>
          <6>1. data[1] \in Cells
            BY <1>3, <4>1 DEF TypeOK
          <6>2. Current.n \in Nat
            BY <5>1, <6>1, CellType DEF Current
          <6> QED
            BY <1>1, <1>3, <5>1, <6>2 DEF Wanted
        <5>2. CASE hdr # <<>>
          <6>1. hdr[1] \in Cells
            BY <1>3, <5>2 DEF TypeOK
          <6>2. Current.n \in Nat /\ Current = hdr[1]
            BY <5>2, <6>1, CellType DEF Current
          <6> QED
            BY <1>1, <1>3, <5>2, <6>2 DEF Wanted
        <5> QED
          BY <5>1, <5>2
      <4> QED
        BY <4>1, <4>2, <4>3, <1>5 DEF Reading
    <3>2. CASE data = <<>>
      <4>1. hdr # <<>> /\ H = HeaderLen /\ D = 0 /\ H \in 1..H
        BY <1>3, <1>5, <3>2
      <4>2. received[Taken] = Byte(Current, H)
        BY <3>2, <4>1 DEF Reading
      <4>3. hdr[1] \in Cells
        BY <4>1 DEF TypeOK
      <4>4. Current.n \in Nat /\ Current.n # 0
        BY <1>3, <4>1, <4>3, CellType DEF Current
      <4> QED
        BY <1>3, <1>5, <4>1, <4>2, <4>4 DEF Reading
    <3> QED
      BY <3>1, <3>2
  <2>3. b = Byte(Current, H + (D + 1))
    <3>1. ~LastOf(received[Taken]) /\ received[Taken].i = H + D
      BY <2>2 DEF LastOf, Byte
    <3>2. Taken \in 1..(Len(received) - 1)
      BY <2>2 DEF TypeOK
    <3>3. b = Byte(received[Taken], H + D + 1)
      BY <3>1, <3>2, NextByte
    <3> QED
      BY <1>3, <2>2, <3>3 DEF Byte
  <2>4. \A j \in 1..Len(data') : data'[j] = Byte(Current, H + j)
    <3> SUFFICES ASSUME NEW j \in 1..(D + 1) PROVE data'[j] = Byte(Current, H + j)
      BY <1>3
    <3>1. CASE j = D + 1
      BY <1>3, <2>3, <3>1
    <3>2. CASE j # D + 1
      <4>1. j \in 1..D
        BY <1>3, <3>2
      <4> QED
        BY <1>3, <4>1 DEF Reading
    <3> QED
      BY <3>1, <3>2
  <2>5. Reading'
    <3>1. \A j \in 1..Len(hdr') : hdr'[j] = Byte(Current', j)
      BY <1>1, <2>1 DEF Reading
    <3>2. received'[Taken'] = data'[Len(data')]
      BY <1>1, <1>3
    <3>3. Taken' <= Len(received') /\ Taken' > 0
      BY <1>1
    <3>4. \A j \in 1..Len(data') : data'[j] = Byte(Current', Len(hdr') + j)
      BY <1>1, <2>1, <2>4
    <3> QED
      BY <1>3, <3>1, <3>2, <3>3, <3>4 DEF Reading
  <2>6. Handled'
    <3>1. IF handled' = <<>> THEN Current' = received'[1]
          ELSE Current'.f = handled'[Len(handled')][1].f + 1
      BY <1>1, <1>5, <2>1 DEF Handled
    <3>2. /\ \A k \in DOMAIN handled' : Whole(handled'[k])
          /\ \A k \in 1..(Len(handled') - 1) : handled'[k + 1][1].f = handled'[k][1].f + 1
          /\ handled' # <<>> => handled'[1][1] = received'[1]
      BY <1>1 DEF Handled
    <3> QED
      BY <1>3, <3>1, <3>2 DEF Handled
  <2> QED
    BY <2>5, <2>6
<1> QED
  BY <1>4, <1>5

\* The last byte of a frame: header and payload together are the frame.
LEMMA WholeFrame ==
  ASSUME TypeOK, Lengths, Reading, pc = "store",
         Len(data) = Wanted, hdr # <<>> \/ data[1].n = 0
  PROVE  LET frame == hdr \o data IN
         /\ Whole(frame) /\ frame[1] = Current
         /\ Taken > 0 /\ LastOf(received[Taken]) /\ received[Taken].f = Current.f
<1> DEFINE frame == hdr \o data
           H == Len(hdr)
           D == Len(data)
<1>1. /\ H \in Nat /\ D \in Nat \ {0} /\ data # <<>>
      /\ hdr \in Seq(Cells) /\ data \in Seq(Cells)
      /\ hdr = <<>> => H = 0
      /\ hdr # <<>> => H = HeaderLen
      /\ HeaderLen \in Nat /\ HeaderLen > 0
  BY RingAssumption DEF TypeOK, Lengths
<1>2. Current \in Cells /\ Current = Byte(Current, 1) /\ Current.n \in Nat
  <2>1. CASE hdr = <<>>
    <3>1. 1 \in 1..D /\ Current = data[1]
      BY <1>1, <2>1 DEF Current
    <3>2. data[1] \in Cells /\ data[1] = Byte(Current, 1)
      BY <1>1, <2>1, <3>1 DEF Reading
    <3> QED
      BY <3>1, <3>2, CellType
  <2>2. CASE hdr # <<>>
    <3>1. 1 \in 1..H /\ Current = hdr[1]
      BY <1>1, <2>2 DEF Current
    <3>2. hdr[1] \in Cells /\ hdr[1] = Byte(Current, 1)
      BY <1>1, <3>1 DEF Reading
    <3> QED
      BY <3>1, <3>2, CellType
  <2> QED
    BY <2>1, <2>2
<1>3. H + D = HeaderLen + Current.n
  BY <1>1, <1>2 DEF Wanted, Current
<1>4. /\ frame \in Seq(Cells) /\ Len(frame) = HeaderLen + Current.n
      /\ \A j \in 1..(HeaderLen + Current.n) : frame[j] = Byte(Current, j)
  <2>1. /\ frame \in Seq(Cells) /\ Len(frame) = H + D
        /\ \A j \in 1..(H + D) : frame[j] = IF j <= H THEN hdr[j] ELSE data[j - H]
    BY <1>1, ConcatProperties
  <2> SUFFICES ASSUME NEW j \in 1..(H + D) PROVE frame[j] = Byte(Current, j)
    BY <1>3, <2>1
  <2>2. CASE j <= H
    <3>1. j \in 1..H
      BY <1>1, <2>2
    <3> QED
      BY <2>1, <2>2, <3>1 DEF Reading
  <2>3. CASE ~(j <= H)
    <3>1. j - H \in 1..D /\ H + (j - H) = j
      BY <1>1, <2>3
    <3> QED
      BY <2>1, <2>3, <3>1 DEF Reading
  <2> QED
    BY <2>2, <2>3
<1>5. frame[1] = Current /\ frame # <<>>
  BY <1>1, <1>2, <1>4
<1>6. frame = Frame(frame[1].f, frame[1].n)
  <2>1. DOMAIN frame = 1..(HeaderLen + Current.n) /\ frame = [j \in DOMAIN frame |-> frame[j]]
    BY <1>4, LenProperties
  <2> QED
    BY <1>4, <1>5, <2>1 DEF Frame, Byte
<1>7. received[Taken] = Byte(Current, H + D) /\ Taken > 0
  <2>1. D \in 1..D
    BY <1>1
  <2> QED
    BY <1>1, <2>1 DEF Reading
<1> QED
  BY <1>3, <1>5, <1>6, <1>7 DEF Whole, LastOf, Byte

\* What follows uart_rx()'s last decrement.
LEMMA ReadingStore ==
  ASSUME TypeOK, Lengths, Reading, Handled, StoreSize
  PROVE  Taken' = Taken /\ Lengths' /\ Reading' /\ Handled'
<1> DEFINE D == Len(data)
<1>1. /\ pc = "store" /\ received' = received /\ removed' = removed + 1
      /\ pc' \in {"rx", "fsm"} /\ Continue
  BY DEF StoreSize, Continue
<1>2. Taken' = Taken
  BY <1>1, Numbers DEF Taken
<1>3. D \in Nat \ {0} /\ data # <<>> /\ data \in Seq(Cells) /\ HeaderLen \in Nat \ {0}
  BY <1>1, RingAssumption DEF TypeOK, Lengths
<1>4. CASE D < Wanted /\ pc' = "rx" /\ UNCHANGED <<hdr, data, handled>>
  <2>1. Lengths'
    BY <1>4 DEF Lengths, Wanted
  <2> QED
    BY <1>1, <1>2, <1>4, <2>1, ReadingKept
<1>5. CASE /\ D = Wanted /\ hdr = <<>> /\ data[1].n # 0
           /\ pc' = "rx" /\ hdr' = data /\ data' = <<>> /\ handled' = handled
  <2>1. Current' = Current /\ D = HeaderLen
    BY <1>3, <1>5 DEF Current, Wanted
  <2>2. data[1].n \in Nat
    <3>1. data[1] \in Cells
      BY <1>3
    <3> QED
      BY <3>1, CellType
  <2>3. Lengths'
    BY <1>3, <1>5, <2>1, <2>2 DEF Lengths, Wanted
  <2>4. /\ \A j \in 1..Len(hdr') : hdr'[j] = Byte(Current', j)
        /\ Taken > 0 /\ received[Taken] = hdr'[Len(hdr')]
    BY <1>3, <1>5, <2>1 DEF Reading
  <2>5. Reading'
    BY <1>1, <1>2, <1>3, <1>5, <2>4 DEF Reading
  <2>6. Handled'
    BY <1>1, <1>3, <1>5, <2>1 DEF Handled
  <2> QED
    BY <1>2, <2>3, <2>5, <2>6
<1>6. CASE /\ D = Wanted /\ (hdr # <<>> \/ data[1].n = 0)
           /\ pc' = "fsm" /\ hdr' = <<>> /\ data' = <<>>
           /\ handled' = Append(handled, hdr \o data)
  <2> DEFINE frame == hdr \o data
             K == Len(handled)
  <2>1. /\ Whole(frame) /\ frame[1] = Current
        /\ Taken > 0 /\ LastOf(received[Taken]) /\ received[Taken].f = Current.f
    BY <1>1, <1>6, WholeFrame
  <2>2. /\ K \in Nat /\ handled' # <<>> /\ Len(handled') = K + 1 /\ handled'[K + 1] = frame
        /\ \A k \in 1..K : handled'[k] = handled[k]
        /\ DOMAIN handled = 1..K /\ DOMAIN handled' = 1..(K + 1)
        /\ handled = <<>> => K = 0
        /\ handled # <<>> => K > 0
    <3>1. frame \in Seq(Cells) /\ handled \in Seq(Seq(Cells))
      BY ConcatProperties DEF TypeOK
    <3> HIDE DEF frame
    <3>2. /\ Append(handled, frame) # <<>> /\ Len(Append(handled, frame)) = K + 1
          /\ \A k \in 1..K : Append(handled, frame)[k] = handled[k]
          /\ Append(handled, frame)[K + 1] = frame
          /\ Append(handled, frame) \in Seq(Seq(Cells))
      BY <3>1, AppendTail
    <3>3. /\ K \in Nat /\ DOMAIN handled = 1..K
          /\ DOMAIN Append(handled, frame) = 1..(K + 1)
      BY <3>1, <3>2, LenProperties
    <3>4. (handled = <<>> => K = 0) /\ (handled # <<>> => K > 0)
      BY <3>1, <3>3, EmptySeq
    <3> QED
      BY <1>6, <3>2, <3>3, <3>4 DEF frame
  <2>3. Lengths'
    BY <1>6 DEF Lengths
  <2>4. Reading'
    BY <1>1, <1>2, <1>6, <2>1 DEF Reading
  <2>5. \A k \in DOMAIN handled' : Whole(handled'[k])
    <3> SUFFICES ASSUME NEW k \in 1..(K + 1) PROVE Whole(handled'[k])
      BY <2>2
    <3>1. CASE k = K + 1
      BY <2>1, <2>2, <3>1
    <3>2. CASE k # K + 1
      <4>1. k \in 1..K
        BY <2>2, <3>2
      <4> QED
        BY <2>2, <4>1 DEF Handled
    <3> QED
      BY <3>1, <3>2
  <2>6. \A k \in 1..(Len(handled') - 1) : handled'[k + 1][1].f = handled'[k][1].f + 1
    <3> SUFFICES ASSUME NEW k \in 1..K PROVE handled'[k + 1][1].f = handled'[k][1].f + 1
      BY <2>2
    <3>1. CASE k = K
      <4>1. Current.f = handled[K][1].f + 1
        BY <1>3, <2>2, <3>1 DEF Handled
      <4> QED
        BY <2>1, <2>2, <3>1, <4>1
    <3>2. CASE k # K
      <4>1. k \in 1..(K - 1) /\ k + 1 \in 1..K
        <5>1. K \in Nat
          BY <2>2
        <5> QED
          BY <3>2, <5>1
      <4> QED
        BY <2>2, <4>1 DEF Handled
    <3> QED
      BY <3>1, <3>2
  <2>7. handled'[1][1] = received'[1]
    <3>1. CASE handled = <<>>
      BY <1>1, <1>3, <2>1, <2>2, <3>1 DEF Handled
    <3>2. CASE handled # <<>>
      <4>1. 1 \in 1..K
        BY <2>2, <3>2
      <4> QED
        BY <1>1, <2>2, <3>2, <4>1 DEF Handled
    <3> QED
      BY <3>1, <3>2
  <2>8. Handled'
    BY <1>1, <1>2, <1>6, <2>1, <2>2, <2>5, <2>6, <2>7 DEF Handled
  <2> QED
    BY <1>2, <2>3, <2>4, <2>8
<1> QED
  BY <1>1, <1>4, <1>5, <1>6 DEF Continue

-----------------------------------------------------------------------------
LEMMA OrderedInit == Init => Ordered
<1> SUFFICES ASSUME Init PROVE Ordered
  OBVIOUS
<1>1. /\ received = <<>> /\ line = <<>> /\ hdr = <<>> /\ data = <<>> /\ handled = <<>>
      /\ pc = "fsm" /\ Taken = 0 /\ Backlog = 0
      /\ rxbuffer_start = 0 /\ rxbuffer_next = 0
  BY DEF Init, Taken, Backlog
<1>2. RingHolds
  BY <1>1, RingAssumption DEF RingHolds, Slot
<1>3. Streamed /\ Lengths
  BY <1>1 DEF Streamed, Lengths
<1>4. Reading /\ Handled
  BY <1>1 DEF Reading, Handled
<1> QED
  BY <1>2, <1>3, <1>4 DEF Ordered

LEMMA OrderedStep == TypeOK /\ TypeOK' /\ NeverAhead /\ Ordered /\ [Next]_vars => Ordered'
<1> SUFFICES ASSUME TypeOK, TypeOK', NeverAhead, Ordered, [Next]_vars PROVE Ordered'
  OBVIOUS
<1> USE DEF Ordered
<1>1. CASE Transmit
  <2>1. /\ UNCHANGED <<rxbuffer, rxbuffer_start, rxbuffer_next, received, hdr, data, handled, pc>>
        /\ Taken' = Taken
    BY <1>1 DEF Transmit, ring, Taken
  <2>2. Lengths'
    BY <2>1 DEF Lengths, Wanted
  <2> QED
    BY <1>1, <2>1, <2>2, StreamedTransmit, RingKept, ReadingKept
<1>2. CASE UsartRx
  <2>1. Lengths'
    BY <1>2 DEF Lengths, Wanted, UsartRx
  <2> QED
    BY <1>2, <2>1, StreamedUsartRx, RingUsartRx, ReadingUsartRx DEF Reading
<1>3. CASE TakeByte
  <2>1. Streamed'
    BY <1>3 DEF TakeByte, Streamed
  <2>2. Lengths'
    <3>1. /\ hdr' = hdr /\ Len(data') = Len(data) + 1 /\ Len(data) \in Nat /\ Wanted' = Wanted
          /\ pc' = "load" /\ Len(data) < Wanted /\ Wanted \in Nat
      <4>1. data \in Seq(Cells) /\ rxbuffer[rxbuffer_start] \in Cells
        BY DEF TypeOK
      <4>2. Len(data') = Len(data) + 1 /\ Len(data) \in Nat
        BY <1>3, <4>1, AppendTail DEF TakeByte
      <4>3. Wanted \in Nat
        <5>1. CASE hdr = <<>>
          BY <5>1, RingAssumption DEF Wanted
        <5>2. CASE hdr # <<>>
          <6>1. hdr[1] \in Cells
            BY <5>2 DEF TypeOK
          <6> QED
            BY <5>2, <6>1, CellType DEF Wanted
        <5> QED
          BY <5>1, <5>2
      <4> QED
        BY <1>3, <4>2, <4>3 DEF TakeByte, Lengths, Wanted
    <3>2. Len(data') \in 1..Wanted'
      BY <3>1
    <3> QED
      BY <3>1, <3>2 DEF Lengths
  <2> QED
    BY <1>3, <2>1, <2>2, RingTakeByte, ReadingTakeByte
<1>4. CASE LoadSize
  <2>1. /\ UNCHANGED <<rxbuffer, rxbuffer_start, rxbuffer_next, received, hdr, data, handled, line, sent>>
        /\ pc = "load" /\ pc' = "store" /\ Taken' = Taken
    BY <1>4 DEF LoadSize, ring, Taken
  <2>2. Lengths' /\ Streamed'
    BY <2>1 DEF Lengths, Wanted, Streamed
  <2> QED
    BY <2>1, <2>2, RingKept, ReadingKept
<1>5. CASE StoreSize
  <2>1. UNCHANGED <<rxbuffer, rxbuffer_start, rxbuffer_next, received, line, sent>>
    BY <1>5 DEF StoreSize
  <2>2. Streamed'
    BY <2>1 DEF Streamed
  <2> QED
    BY <1>5, <2>1, <2>2, RingKept, ReadingStore
<1>6. CASE ProcessPacket \/ Nothing
  <2>1. /\ UNCHANGED <<rxbuffer, rxbuffer_start, rxbuffer_next, received, hdr, data, handled, line, sent>>
        /\ hdr = <<>> /\ data = <<>> /\ pc' \in {"rx", "fsm"} /\ Taken' = Taken
    BY <1>6 DEF ProcessPacket, Nothing, ring, Taken, Lengths
  <2>2. Lengths'
    BY <2>1, RingAssumption DEF Lengths, Wanted
  <2>3. Streamed'
    BY <2>1 DEF Streamed
  <2> QED
    BY <2>1, <2>2, <2>3, RingKept, ReadingKept
<1>7. CASE Incomplete
  <2>1. SoftReset
    BY <1>7 DEF Incomplete
  <2>2. /\ received' = <<>> /\ line' = <<>> /\ hdr' = <<>> /\ data' = <<>> /\ handled' = <<>>
        /\ pc' = "fsm" /\ Taken' = 0
    BY <2>1 DEF SoftReset, Taken
  <2>3. Streamed' /\ Lengths'
    BY <2>2 DEF Streamed, Lengths
  <2>4. Reading' /\ Handled'
    BY <2>2 DEF Reading, Handled
  <2> QED
    BY <2>1, <2>3, <2>4, RingReset
<1>8. CASE UNCHANGED vars
  <2>1. /\ UNCHANGED <<rxbuffer, rxbuffer_start, rxbuffer_next, received, hdr, data, handled, pc, line, sent>>
        /\ Taken' = Taken
    BY <1>8 DEF vars, ring, Taken
  <2>2. Lengths' /\ Streamed'
    BY <2>1 DEF Lengths, Wanted, Streamed
  <2> QED
    BY <2>1, <2>2, RingKept, ReadingKept
<1> QED
  BY <1>1, <1>2, <1>3, <1>4, <1>5, <1>6, <1>7, <1>8 DEF Next, Main

\* For a ring and frames of any size, any number of frames and any
\* interleaving: until the interrupt overwrites a byte that has not been read,
\* the handlers get the module's frames whole, in order and without a gap.
THEOREM FramesStayInOrder == Spec => []FramesInOrder
<1>1. Ordered => FramesInOrder
  BY DEF Ordered, Handled, FramesInOrder
<1> QED
  BY <1>1, RingTypes, NeverReadsAhead, OrderedInit, OrderedStep, PTL DEF Spec
=============================================================================
