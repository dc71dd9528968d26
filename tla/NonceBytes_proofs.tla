-------------------------- MODULE NonceBytes_proofs --------------------------
(***************************************************************************)
(* Theorems about the bytes of nonces, for any length and any odd          *)
(* Byte.MAX_VALUE.                                                         *)
(***************************************************************************)
EXTENDS NonceBytes, TLAPS

-----------------------------------------------------------------------------
(* The order of nonces.                                                    *)

\* Between two nonces that agree up to a byte, differ by one there, and after
\* it have the largest byte and 0, there is none whose bytes are in the range.
CountedOn(x, y, byte) ==
  \E k \in Index :
    /\ x[k] = y[k] + 1
    /\ \A j \in 0..(k - 1) : x[j] = y[j]
    /\ \A j \in (k + 1)..Last : x[j] = 0 /\ y[j] = byte

\* The indices are whole numbers from 0.
LEMMA Indices ==
  /\ NONCE_LEN \in Nat /\ NONCE_LEN \in 1..255 /\ Last \in 0..254
  /\ MAX_VALUE \in Nat /\ Largest \in Nat /\ MAX_VALUE < Largest
  /\ Index \subseteq 0..254 /\ 0 \in Index /\ Last \in Index
<1>1. /\ NONCE_LEN \in 1..255 /\ MAX_VALUE \in Nat
  BY NonceBytesAssumption
<1>2. Last \in 0..254 /\ Largest \in Nat /\ MAX_VALUE < Largest
  BY <1>1 DEF Last, Largest
<1> QED BY <1>1, <1>2 DEF Index

\* Counting on leads to the next nonce (increment_array()).
LEMMA CountedOnIsNext ==
  ASSUME NEW byte \in Nat,
         NEW x \in [Index -> 0..byte], NEW y \in [Index -> 0..byte],
         CountedOn(x, y, byte)
  PROVE  IsNext([Index -> 0..byte], x, y)
<1>1. PICK k \in Index : /\ x[k] = y[k] + 1
                         /\ \A j \in 0..(k - 1) : x[j] = y[j]
                         /\ \A j \in (k + 1)..Last : x[j] = 0 /\ y[j] = byte
  BY DEF CountedOn
<1>2. \A j \in Index : x[j] \in 0..byte /\ y[j] \in 0..byte
  OBVIOUS
<1>3. Greater(x, y)
  BY <1>1, <1>2 DEF Greater
<1>4. ASSUME NEW z \in [Index -> 0..byte], Greater(x, z), Greater(z, y)
      PROVE  FALSE
  <2>1. PICK p \in Index : x[p] > z[p] /\ \A j \in 0..(p - 1) : x[j] = z[j]
    BY <1>4 DEF Greater
  <2>2. PICK q \in Index : z[q] > y[q] /\ \A j \in 0..(q - 1) : z[j] = y[j]
    BY <1>4 DEF Greater
  <2>3. /\ k \in 0..Last /\ p \in 0..Last /\ q \in 0..Last /\ Last \in Nat
        /\ \A j \in 0..Last : x[j] \in 0..byte /\ y[j] \in 0..byte /\ z[j] \in 0..byte
    BY <1>2, Indices DEF Index
  <2>4. CASE p < k
    <3>1. x[p] = y[p]
      BY <1>1, <2>3, <2>4
    <3>2. CASE q < p
      BY <1>1, <2>1, <2>2, <2>3, <2>4, <3>2
    <3>3. CASE q = p
      BY <2>1, <2>2, <2>3, <3>1, <3>3
    <3>4. CASE q > p
      BY <2>1, <2>2, <2>3, <3>1, <3>4
    <3> QED BY <2>3, <3>2, <3>3, <3>4
  <2>5. CASE p > k
    BY <1>1, <2>1, <2>3, <2>5
  <2>6. CASE p = k
    <3>1. CASE q < k
      BY <1>1, <2>1, <2>2, <2>3, <2>6, <3>1
    <3>2. CASE q = k
      BY <1>1, <2>1, <2>2, <2>3, <2>6, <3>2
    <3>3. CASE q > k
      BY <1>1, <2>2, <2>3, <3>3
    <3> QED BY <2>3, <3>1, <3>2, <3>3
  <2> QED BY <2>3, <2>4, <2>5, <2>6
<1> QED BY <1>3, <1>4 DEF IsNext

-----------------------------------------------------------------------------
(* The invariant of the loops.                                             *)

\* What a comparison has passed is alike.
CompareInv ==
  /\ Runs("is_greater_than") =>
       i \in 0..NONCE_LEN /\ \A j \in 0..(i - 1) : a[j] = b[j]
  /\ ComparesOrder

\* What an increment has still to come to is as it was; what it has passed was
\* the byte it carries at, and is 0.
Carried(byte) ==
  \A j \in Index : IF i \in Index /\ j <= i THEN a[j] = b[j] ELSE a[j] = 0 /\ b[j] = byte

LockInv ==
  /\ Runs("increment_array") => i \in Index \cup {255} /\ Carried(Largest)
  /\ Returned("increment_array") => CountedOn(a, b, Largest)
  /\ step = "outside" => Full(b, Largest)

AppInv ==
  /\ Runs("incrementByteArray") => i \in Index /\ Carried(MAX_VALUE)
  /\ Returned("incrementByteArray") /\ b \in AppNonces =>
       IF Full(b, MAX_VALUE) THEN a = Zero
       ELSE a \in AppNonces /\ CountedOn(a, b, MAX_VALUE)

LoopInv == TypeOK /\ CompareInv /\ LockInv /\ AppInv

\* No loop has begun (main.c, Cryptography.java).
LEMMA LoopInvInit == Init => LoopInv
<1> SUFFICES ASSUME Init PROVE LoopInv
  OBVIOUS
<1>1. Zero \in Nonces
  BY Indices DEF Zero, Nonces
<1>2. session \in BOOLEAN
  BY Zenon DEF Init
<1>3. step = "idle" /\ function = "none" /\ a = Zero /\ b = Zero /\ i = 0 /\ result = 0
  BY DEF Init
<1>4. TypeOK
  BY <1>1, <1>2, <1>3 DEF TypeOK
<1>5. CompareInv /\ LockInv /\ AppInv
  BY <1>3 DEF CompareInv, ComparesOrder, LockInv, AppInv, Runs, Returned
<1> QED BY <1>4, <1>5 DEF LoopInv

\* A comparison begins at the first byte (is_greater_than()).
LEMMA CallCompareStep ==
  ASSUME NEW x \in Nonces, NEW y \in Nonces, CallCompare(x, y), session' \in BOOLEAN
  PROVE  LoopInv'
<1>1. TypeOK'
  BY DEF CallCompare, TypeOK, Functions
<1>2. CompareInv'
  BY Indices DEF CallCompare, CompareInv, ComparesOrder, Runs, Returned
<1>3. LockInv' /\ AppInv'
  BY DEF CallCompare, LockInv, AppInv, Runs, Returned
<1> QED BY <1>1, <1>2, <1>3 DEF LoopInv

\* An increment begins at the last byte (increment_array(),
\* incrementByteArray()).
LEMMA CallIncrementStep ==
  ASSUME NEW f \in {"increment_array", "incrementByteArray"}, NEW x \in Nonces,
         CallIncrement(f, x), session' \in BOOLEAN
  PROVE  LoopInv'
<1>1. TypeOK'
  BY Indices DEF CallIncrement, TypeOK, Functions
<1>2. CompareInv'
  BY DEF CallIncrement, CompareInv, ComparesOrder, Runs, Returned
<1>3. i' \in Index /\ Carried(MAX_VALUE)' /\ Carried(Largest)'
  BY Indices DEF CallIncrement, Carried, Index
<1>4. LockInv' /\ AppInv'
  BY <1>3 DEF CallIncrement, LockInv, AppInv, Runs, Returned
<1> QED BY <1>1, <1>2, <1>4 DEF LoopInv

\* The first bytes that differ decide (is_greater_than()).
LEMMA CompareStep ==
  ASSUME LoopInv, Differ \/ Alike \/ End
  PROVE  LoopInv'
<1> USE DEF LoopInv
<1>1. TypeOK'
  BY Indices DEF Differ, Alike, End, TypeOK, Runs, Index, Functions
<1>2. CompareInv'
  <2>1. /\ \A j \in Index : a[j] \in Nat /\ b[j] \in Nat
        /\ i \in Nat /\ \A j \in 0..(i - 1) : a[j] = b[j]
    BY Indices DEF TypeOK, Nonces, CompareInv, Differ, Alike, End
  <2>2. CASE Differ
    <3>1. Greater(a, b) <=> a[i] > b[i]
      <4>1. i \in Index /\ a[i] # b[i]
        BY <2>2 DEF Differ
      <4>2. ASSUME a[i] > b[i] PROVE Greater(a, b)
        BY <2>1, <4>1, <4>2 DEF Greater
      <4>3. ASSUME Greater(a, b) PROVE a[i] > b[i]
        <5>1. PICK k \in Index : a[k] > b[k] /\ \A j \in 0..(k - 1) : a[j] = b[j]
          BY <4>3 DEF Greater
        <5>2. k \in 0..Last /\ i \in 0..Last /\ Last \in Nat
          BY <4>1, Indices DEF Index
        <5>3. ~(k < i)
          BY <2>1, <5>1, <5>2
        <5>4. ~(i < k)
          BY <4>1, <5>1, <5>2
        <5>5. k = i
          BY <5>2, <5>3, <5>4
        <5> QED BY <5>1, <5>5
      <4> QED BY <4>2, <4>3
    <3>2. Greater(a, b)' <=> Greater(a, b)
      BY <2>2 DEF Differ, Greater
    <3> QED BY <2>2, <3>1, <3>2 DEF Differ, CompareInv, ComparesOrder, Runs, Returned
  <2>3. CASE Alike
    <3>1. i \in 0..Last /\ i' = i + 1 /\ a[i] = b[i] /\ a' = a /\ b' = b /\ step' = "running"
      BY <2>3 DEF Alike, Runs, Index
    <3>2. i' \in 0..NONCE_LEN
      BY <3>1, Indices DEF Last
    <3>3. \A j \in 0..(i' - 1) : a'[j] = b'[j]
      BY <2>1, <3>1
    <3> QED BY <3>1, <3>2, <3>3 DEF CompareInv, ComparesOrder, Runs, Returned
  <2>4. CASE End
    <3>1. ~Greater(a, b)
      <4>1. \A k \in Index : a[k] = b[k]
        BY <2>1, <2>4, Indices DEF End, Index, Last
      <4> QED BY <2>1, <4>1 DEF Greater
    <3>2. Greater(a, b)' <=> Greater(a, b)
      BY <2>4 DEF End, Greater
    <3> QED BY <2>4, <3>1, <3>2 DEF End, CompareInv, ComparesOrder, Runs, Returned
  <2> QED BY <2>2, <2>3, <2>4
<1>3. LockInv' /\ AppInv'
  BY DEF Differ, Alike, End, LockInv, AppInv, Runs, Returned
<1> QED BY <1>1, <1>2, <1>3

\* Carried bytes were the largest, up to the one that is counted on
\* (increment_array()).
LEMMA IncrementStep ==
  ASSUME LoopInv, Carry \/ Increment \/ Outside
  PROVE  LoopInv'
<1> USE DEF LoopInv
<1>1. /\ function = "increment_array" /\ function' = function
      /\ step = "running" /\ b' = b /\ session' = session
      /\ i \in Index \cup {255} /\ Carried(Largest)
  BY DEF Carry, Increment, Outside, LockInv, Runs
<1>2. /\ \A j \in Index : a[j] \in 0..Largest
      /\ a \in [Index -> 0..Largest] /\ b \in [Index -> 0..Largest]
      /\ i \in 0..255
  BY DEF TypeOK, Nonces
<1>3. CompareInv' /\ AppInv'
  BY <1>1 DEF CompareInv, ComparesOrder, AppInv, Runs, Returned
<1>4. CASE Carry
  <2>1. i \in Index /\ a' = [a EXCEPT ![i] = 0] /\ i' = (i - 1) % 256 /\ step' = step
        /\ a[i] = Largest /\ result' = result
    BY <1>4 DEF Carry
  <2>2. \A n \in 0..254 : (n - 1) % 256 = IF n = 0 THEN 255 ELSE n - 1
    OBVIOUS
  <2>3. i' = IF i = 0 THEN 255 ELSE i - 1
    BY <2>1, <2>2, Indices
  <2>4. i' \in Index \cup {255} /\ i' \in 0..255
    BY <2>1, <2>3, Indices DEF Index
  <2>5. TypeOK'
    BY <1>1, <1>2, <2>1, <2>4, Indices DEF TypeOK, Nonces
  <2>6. Carried(Largest)'
    <3> SUFFICES ASSUME NEW j \in Index
                 PROVE  IF i' \in Index /\ j <= i' THEN a'[j] = b[j]
                        ELSE a'[j] = 0 /\ b[j] = Largest
      BY <1>1 DEF Carried
    <3>1. IF j <= i THEN a[j] = b[j] ELSE a[j] = 0 /\ b[j] = Largest
      BY <1>1, <2>1 DEF Carried
    <3>2. j \in 0..254 /\ i \in 0..254 /\ 255 \notin Index
      BY <2>1, Indices
    <3>3. CASE i = 0
      BY <1>2, <2>1, <2>3, <3>1, <3>2, <3>3
    <3>4. CASE i # 0
      <4>1. i' \in Index /\ i' = i - 1
        BY <2>3, <2>4, <3>2, <3>4
      <4> QED BY <1>2, <2>1, <3>1, <3>2, <4>1
    <3> QED BY <3>3, <3>4
  <2> QED BY <1>1, <1>3, <2>1, <2>4, <2>5, <2>6 DEF LockInv, Runs, Returned
<1>5. CASE Increment
  <2>1. i \in Index /\ a' = [a EXCEPT ![i] = a[i] + 1] /\ step' = "returned"
        /\ i' = i /\ a[i] # Largest /\ result' = result
    BY <1>5 DEF Increment
  <2>2. TypeOK'
    BY <1>1, <1>2, <2>1, Indices DEF TypeOK, Nonces
  <2>3. CountedOn(a', b, Largest)
    <3>1. /\ a'[i] = b[i] + 1
          /\ \A j \in 0..(i - 1) : a'[j] = b[j]
          /\ \A j \in (i + 1)..Last : a'[j] = 0 /\ b[j] = Largest
      <4>1. i \in 0..Last /\ Last \in Nat
        BY <2>1, Indices DEF Index
      <4>2. \A j \in 0..Last :
              IF j <= i THEN a[j] = b[j] ELSE a[j] = 0 /\ b[j] = Largest
        BY <1>1, <2>1 DEF Carried, Index
      <4>3. \A j \in 0..Last : a'[j] = IF j = i THEN a[i] + 1 ELSE a[j]
        BY <1>2, <2>1 DEF Index
      <4> QED BY <4>1, <4>2, <4>3
    <3> QED BY <2>1, <3>1 DEF CountedOn
  <2>4. CountedOn(a, b, Largest)'
    BY <1>1, <2>3 DEF CountedOn
  <2> QED BY <1>1, <1>3, <2>1, <2>2, <2>4 DEF LockInv, Runs, Returned
<1>6. CASE Outside
  <2>1. i \notin Index /\ a' = a /\ step' = "outside" /\ i' = i /\ result' = result
    BY <1>6 DEF Outside
  <2>2. TypeOK'
    BY <1>1, <2>1 DEF TypeOK
  <2>3. Full(b, Largest)'
    BY <1>1, <2>1 DEF Carried, Full
  <2> QED BY <1>1, <1>3, <2>1, <2>2, <2>3 DEF LockInv, Runs, Returned
<1> QED BY <1>4, <1>5, <1>6

\* Carried bytes were Byte.MAX_VALUE, up to the one that is counted on, and so
\* all are within it again (incrementByteArray()).
LEMMA AppIncrementStep ==
  ASSUME LoopInv, AppCarry \/ AppIncrement
  PROVE  LoopInv'
<1> USE DEF LoopInv
<1>1. /\ function = "incrementByteArray" /\ function' = function
      /\ step = "running" /\ b' = b /\ result' = result /\ session' = session
      /\ i \in Index /\ Carried(MAX_VALUE)
  BY DEF AppCarry, AppIncrement, AppInv, Runs
<1>2. /\ \A j \in Index : a[j] \in 0..Largest
      /\ a \in [Index -> 0..Largest] /\ b \in [Index -> 0..Largest]
      /\ i \in 0..255
  BY DEF TypeOK, Nonces
<1>3. CompareInv' /\ LockInv'
  BY <1>1 DEF AppCarry, AppIncrement, CompareInv, ComparesOrder, LockInv, Runs, Returned
<1>4. i \in 0..Last /\ Last \in Nat /\ Index = 0..Last
  BY <1>1, Indices DEF Index
<1>5. \A j \in Index : IF j <= i THEN a[j] = b[j] ELSE a[j] = 0 /\ b[j] = MAX_VALUE
  BY <1>1 DEF Carried
<1>6. CASE AppCarry
  <2>1. /\ a' = [a EXCEPT ![i] = 0] /\ a[i] = MAX_VALUE
        /\ IF i > 0 THEN i' = i - 1 /\ step' = step ELSE step' = "returned" /\ i' = i
    BY <1>6 DEF AppCarry
  <2>2. \A j \in Index : a'[j] = IF j = i THEN 0 ELSE a[j]
    BY <1>2, <2>1
  <2>3. i' \in Index
    BY <1>4, <2>1
  <2>4. TypeOK'
    BY <1>1, <1>2, <2>1, <2>3, Indices DEF TypeOK, Nonces
  <2>5. CASE i > 0
    <3>1. Carried(MAX_VALUE)'
      <4> SUFFICES ASSUME NEW j \in Index
                   PROVE  IF i' \in Index /\ j <= i' THEN a'[j] = b[j]
                          ELSE a'[j] = 0 /\ b[j] = MAX_VALUE
        BY <1>1 DEF Carried
      <4> QED BY <1>4, <1>5, <2>1, <2>2, <2>3, <2>5
    <3> QED BY <1>1, <1>3, <2>1, <2>3, <2>4, <2>5, <3>1 DEF AppInv, Runs, Returned
  <2>6. CASE ~(i > 0)
    <3>1. Full(b, MAX_VALUE)
      BY <1>4, <1>5, <2>1, <2>6 DEF Full
    <3>2. a' = Zero
      <4>1. \A j \in Index : a'[j] = 0
        BY <1>4, <1>5, <2>2, <2>6
      <4>2. a' \in [Index -> 0..Largest]
        BY <2>4 DEF TypeOK, Nonces
      <4> QED BY <4>1, <4>2 DEF Zero
    <3>3. Full(b, MAX_VALUE)'
      BY <1>1, <3>1 DEF Full
    <3>4. a' = Zero'
      BY <3>2 DEF Zero
    <3> QED BY <1>1, <1>3, <2>1, <2>4, <2>6, <3>3, <3>4 DEF AppInv, Runs, Returned
  <2> QED BY <2>5, <2>6
<1>7. CASE AppIncrement
  <2>1. /\ a' = [a EXCEPT ![i] = IF a[i] = Largest THEN 0 ELSE a[i] + 1]
        /\ a[i] # MAX_VALUE /\ step' = "returned" /\ i' = i
    BY <1>7 DEF AppIncrement
  <2>2. \A j \in Index :
          a'[j] = IF j = i THEN IF a[i] = Largest THEN 0 ELSE a[i] + 1 ELSE a[j]
    BY <1>2, <2>1
  <2>3. TypeOK'
    <3>1. (IF a[i] = Largest THEN 0 ELSE a[i] + 1) \in 0..Largest
      BY <1>1, <1>2, Indices
    <3> QED BY <1>1, <1>2, <2>1, <3>1 DEF TypeOK, Nonces
  <2>4. ASSUME b \in AppNonces
        PROVE  ~Full(b, MAX_VALUE) /\ a' \in AppNonces /\ CountedOn(a', b, MAX_VALUE)
    <3>1. /\ \A j \in Index : b[j] \in 0..MAX_VALUE
          /\ a[i] = b[i] /\ a[i] # Largest
      BY <1>1, <1>4, <1>5, <2>4, Indices DEF AppNonces
    <3>2. ~Full(b, MAX_VALUE)
      BY <1>1, <2>1, <3>1 DEF Full
    <3>3. a'[i] = b[i] + 1 /\ b[i] + 1 \in 0..MAX_VALUE
      BY <1>1, <2>1, <2>2, <3>1, Indices
    <3>4. \A j \in Index : a'[j] \in 0..MAX_VALUE
      BY <1>4, <1>5, <2>2, <3>1, <3>3, Indices
    <3>5. a' \in AppNonces
      BY <1>2, <2>1, <3>4 DEF AppNonces
    <3>6. CountedOn(a', b, MAX_VALUE)
      <4>1. /\ \A j \in 0..(i - 1) : a'[j] = b[j]
            /\ \A j \in (i + 1)..Last : a'[j] = 0 /\ b[j] = MAX_VALUE
        BY <1>4, <1>5, <2>2
      <4> QED BY <1>1, <3>3, <4>1 DEF CountedOn
    <3> QED BY <3>2, <3>5, <3>6
  <2>5. AppInv'
    <3> SUFFICES ASSUME b' \in AppNonces'
                 PROVE  ~Full(b, MAX_VALUE)' /\ (a \in AppNonces)' /\ CountedOn(a, b, MAX_VALUE)'
      BY <2>1 DEF AppInv, Runs, Returned
    <3>1. b \in AppNonces
      BY <1>1 DEF AppNonces
    <3> QED BY <1>1, <2>4, <3>1 DEF Full, AppNonces, CountedOn
  <2> QED BY <1>3, <2>3, <2>5
<1> QED BY <1>6, <1>7

\* The loops keep the invariant, and so do calls (main.c, Cryptography.java).
LEMMA LoopsStep == LoopInv /\ [Loops]_vars => LoopInv'
<1> SUFFICES ASSUME LoopInv, [Loops]_vars PROVE LoopInv'
  OBVIOUS
<1>1. CASE Loops
  BY <1>1, CompareStep, IncrementStep, AppIncrementStep DEF Loops
<1>2. CASE UNCHANGED vars
  BY <1>2 DEF vars, LoopInv, TypeOK, CompareInv, ComparesOrder, LockInv, AppInv, Runs,
              Returned, Carried, CountedOn, Full, Greater
<1> QED BY <1>1, <1>2

LEMMA LoopInvHolds == Spec => []LoopInv
<1>1. ASSUME LoopInv, [Next]_vars PROVE LoopInv'
  <2>1. CASE Call
    <3>1. session' \in BOOLEAN
      BY <1>1, <2>1 DEF Call, LoopInv, TypeOK
    <3> QED BY <2>1, <3>1, CallCompareStep, CallIncrementStep DEF Call
  <2>2. CASE Turn
    <3>1. PICK f \in {"increment_array", "incrementByteArray"} : CallIncrement(f, a)
      BY <2>2 DEF Turn
    <3>2. a \in Nonces
      BY <1>1 DEF LoopInv, TypeOK
    <3>3. session' \in BOOLEAN
      BY <2>2 DEF Turn
    <3> QED BY <3>1, <3>2, <3>3, CallIncrementStep
  <2> QED BY <1>1, <2>1, <2>2, LoopsStep DEF Next
<1> QED BY <1>1, LoopInvInit, PTL DEF Spec

\* The loops stay within their arrays and their bytes, but for the lock's at
\* the last number (is_greater_than(), increment_array(), incrementByteArray()).
THEOREM ByteTypes == Spec => []TypeOK
<1>1. LoopInv => TypeOK
  BY DEF LoopInv
<1> QED BY <1>1, LoopInvHolds, PTL

\* The lock takes exactly later nonces for newer (is_greater_than()).
THEOREM ComparisonsOrder == Spec => []ComparesOrder
<1>1. LoopInv => ComparesOrder
  BY DEF LoopInv, CompareInv
<1> QED BY <1>1, LoopInvHolds, PTL

\* The lock counts to the next nonce, and past the array's end after the last
\* (increment_array()).
THEOREM LockCountsOn == Spec => []LockCounts
<1>1. LoopInv => LockCounts
  <2> SUFFICES ASSUME LoopInv PROVE LockCounts
    OBVIOUS
  <2>1. ASSUME Returned("increment_array") PROVE IsNext(Nonces, a, b)
    BY <2>1, CountedOnIsNext, Indices DEF LoopInv, LockInv, TypeOK, Nonces
  <2> QED BY <2>1 DEF LoopInv, LockInv, LockCounts
<1> QED BY <1>1, LoopInvHolds, PTL

\* The app counts to the next nonce of signed bytes (incrementByteArray()).
THEOREM AppCountsOn == Spec => []AppCounts
<1>1. LoopInv => AppCounts
  <2> SUFFICES ASSUME LoopInv, Returned("incrementByteArray"), b \in AppNonces,
                      ~Full(b, MAX_VALUE)
               PROVE  IsNext(AppNonces, a, b)
    BY DEF AppCounts, LoopInv, AppInv
  <2>1. a \in AppNonces /\ CountedOn(a, b, MAX_VALUE)
    BY DEF LoopInv, AppInv
  <2> QED BY <2>1, CountedOnIsNext, Indices DEF AppNonces
<1> QED BY <1>1, LoopInvHolds, PTL

-----------------------------------------------------------------------------
(* A session.                                                              *)

\* The lock counts on from nonces whose last byte is even, the app from odd
\* ones: Byte.MAX_VALUE, where the app carries, is odd.
SessionInv ==
  /\ step = "idle" => ~session /\ function = "none" /\ a = Zero
  /\ session =>
       /\ a \in AppNonces /\ b \in AppNonces
       /\ step \in {"running", "returned"}
       /\ function \in {"increment_array", "incrementByteArray"}
       /\ Runs("increment_array") => i = Last /\ b[Last] % 2 = 0
       /\ Runs("incrementByteArray") => b[Last] % 2 = 1
       /\ Returned("increment_array") => a[Last] % 2 = 1 /\ CountedOn(a, b, MAX_VALUE)
       /\ Returned("incrementByteArray") => a[Last] % 2 = 0

\* A session begins at 0 (setSessionKey(), process_ticket_msg()).
LEMMA SessionInvInit == Init => SessionInv
BY DEF Init, SessionInv

\* The last bytes of the app's nonces.
LEMMA LastByte ==
  ASSUME NEW x \in AppNonces
  PROVE  /\ x \in Nonces /\ x[Last] \in 0..MAX_VALUE
         /\ x[Last] % 2 = 0 => x[Last] # MAX_VALUE /\ (x[Last] + 1) % 2 = 1
         /\ x[Last] % 2 = 1 => (x[Last] + 1) % 2 = 0
<1>1. x[Last] \in 0..MAX_VALUE /\ x \in Nonces
  BY Indices DEF AppNonces, Nonces
<1>2. \A n \in Nat : /\ n % 2 = 0 => (n + 1) % 2 = 1
                     /\ n % 2 = 1 => (n + 1) % 2 = 0
  OBVIOUS
<1>3. x[Last] \in Nat
  BY <1>1, Indices
<1> QED BY <1>1, <1>2, <1>3, NonceBytesAssumption

\* Whose turn it is counts on from the nonce of the other's (Cryptography.java,
\* main.c).
LEMMA SessionTurn ==
  ASSUME SessionInv, Turn
  PROVE  SessionInv'
<1>1. /\ a' = a /\ b' = a /\ i' = Last /\ step' = "running" /\ session' = TRUE
      /\ function' = IF function = "increment_array" THEN "incrementByteArray"
                     ELSE "increment_array"
      /\ step = "idle" \/ (step = "returned" /\ session)
  BY DEF Turn, CallIncrement
<1>2. a \in AppNonces /\ (function # "increment_array" => a[Last] % 2 = 0)
                      /\ (function = "increment_array" => a[Last] % 2 = 1)
  <2>1. CASE step = "idle"
    <3>1. Zero \in AppNonces /\ Zero[Last] = 0 /\ 0 % 2 = 0
      BY Indices DEF Zero, AppNonces
    <3>2. a = Zero /\ function = "none"
      BY <2>1 DEF SessionInv
    <3> QED BY <3>1, <3>2
  <2>2. CASE step = "returned" /\ session
    BY <2>2 DEF SessionInv, Returned
  <2> QED BY <1>1, <2>1, <2>2
<1>3. (a \in AppNonces)' /\ (b \in AppNonces)'
  BY <1>1, <1>2 DEF AppNonces, Index, Last
<1>4. Last' = Last
  BY DEF Last
<1>5. CASE function = "increment_array"
  <2>1. /\ function' = "incrementByteArray" /\ b'[Last'] % 2 = 1
    BY <1>1, <1>2, <1>4, <1>5
  <2> QED BY <1>1, <1>3, <2>1 DEF SessionInv, Runs, Returned
<1>6. CASE function # "increment_array"
  <2>1. /\ function' = "increment_array" /\ b'[Last'] % 2 = 0 /\ i' = Last'
    BY <1>1, <1>2, <1>4, <1>6
  <2> QED BY <1>1, <1>3, <2>1 DEF SessionInv, Runs, Returned
<1> QED BY <1>5, <1>6

\* The lock's byte is even, below Byte.MAX_VALUE, and so it does not carry
\* (increment_array()).
LEMMA SessionLock ==
  ASSUME SessionInv, session, Carry \/ Increment \/ Outside, LoopInv
  PROVE  SessionInv'
<1>1. /\ function = "increment_array" /\ function' = function /\ b' = b
      /\ i = Last /\ b[Last] % 2 = 0 /\ Carried(Largest)
      /\ a \in AppNonces /\ b \in AppNonces /\ step = "running"
  BY DEF SessionInv, Carry, Increment, Outside, LoopInv, LockInv, Runs
<1>2. /\ b[Last] \in 0..MAX_VALUE /\ b[Last] # MAX_VALUE /\ (b[Last] + 1) % 2 = 1
  BY <1>1, LastByte
<1>3. \A j \in Index : a[j] = b[j]
  BY <1>1, Indices DEF Carried, Index
<1>4. a = b
  BY <1>1, <1>3 DEF AppNonces
<1>5. Increment
  <2>1. MAX_VALUE # 2 * MAX_VALUE + 1 /\ \A n \in 0..MAX_VALUE : n # 2 * MAX_VALUE + 1
    BY NonceBytesAssumption
  <2>2. i \in Index /\ a[i] # Largest
    BY <1>1, <1>2, <1>4, <2>1, Indices DEF Largest
  <2>3. ~Carry /\ ~Outside
    BY <2>2 DEF Carry, Outside
  <2> QED BY <2>3
<1>6. a' = [b EXCEPT ![Last] = b[Last] + 1] /\ step' = "returned"
  BY <1>1, <1>4, <1>5 DEF Increment
<1>7. a' \in AppNonces /\ a'[Last] = b[Last] + 1 /\ \A j \in Index \ {Last} : a'[j] = b[j]
  BY <1>1, <1>2, <1>6, Indices DEF AppNonces
<1>8. CountedOn(a', b, MAX_VALUE)
  <2>1. \A j \in 0..(Last - 1) : a'[j] = b[j]
    BY <1>7, Indices DEF Index
  <2>2. (Last + 1)..Last = {}
    BY Indices
  <2> QED BY <1>7, <2>1, <2>2, Indices DEF CountedOn
<1>9. CountedOn(a, b, MAX_VALUE)'
  BY <1>1, <1>8 DEF CountedOn
<1>10. a'[Last] % 2 = 1
  BY <1>2, <1>7
<1>11. (a \in AppNonces)' /\ (b \in AppNonces)'
  BY <1>1, <1>7 DEF AppNonces
<1> QED BY <1>1, <1>6, <1>9, <1>10, <1>11 DEF SessionInv, Runs, Returned, Last

\* The app's byte is odd: counted on, or carried, it is even
\* (incrementByteArray()).
LEMMA SessionApp ==
  ASSUME SessionInv, session, AppCarry \/ AppIncrement, LoopInv
  PROVE  SessionInv'
<1>1. /\ function = "incrementByteArray" /\ function' = function /\ b' = b
      /\ b[Last] % 2 = 1 /\ Carried(MAX_VALUE) /\ i \in Index
      /\ a \in AppNonces /\ b \in AppNonces /\ step = "running"
  BY DEF SessionInv, AppCarry, AppIncrement, LoopInv, AppInv, Runs
<1>2. b[Last] \in 0..MAX_VALUE /\ (b[Last] + 1) % 2 = 0
  BY <1>1, LastByte
<1>3. \A j \in Index : a[j] \in 0..MAX_VALUE
  BY <1>1 DEF AppNonces
<1>4. i \in 0..Last /\ Last \in Index /\ Last \in Nat
  BY <1>1, Indices DEF Index
<1>5. IF i = Last THEN a[Last] = b[Last] ELSE a[Last] = 0
  BY <1>1, <1>4 DEF Carried
<1>6. CASE AppCarry
  <2>1. /\ a' = [a EXCEPT ![i] = 0]
        /\ step' = "running" \/ step' = "returned"
    BY <1>1, <1>6 DEF AppCarry
  <2>2. a' \in AppNonces /\ a'[Last] = 0
    BY <1>1, <1>4, <1>5, <2>1, Indices DEF AppNonces
  <2>3. 0 % 2 = 0
    OBVIOUS
  <2>4. (a \in AppNonces)' /\ (b \in AppNonces)' /\ a'[Last] % 2 = 0
    BY <1>1, <2>2, <2>3 DEF AppNonces
  <2> QED BY <1>1, <2>1, <2>4 DEF SessionInv, Runs, Returned, Last
<1>7. CASE AppIncrement
  <2>1. a[i] # Largest /\ a[i] # MAX_VALUE /\ a[i] \in 0..MAX_VALUE
    BY <1>1, <1>3, <1>7, Indices DEF AppIncrement
  <2>2. a' = [a EXCEPT ![i] = a[i] + 1] /\ step' = "returned"
    BY <1>7, <2>1 DEF AppIncrement
  <2>3. a' \in AppNonces
    BY <1>1, <1>3, <2>1, <2>2, Indices DEF AppNonces
  <2>4. a'[Last] = IF i = Last THEN b[Last] + 1 ELSE 0
    BY <1>1, <1>4, <1>5, <2>2 DEF AppNonces
  <2>5. 0 % 2 = 0
    OBVIOUS
  <2>6. a'[Last] % 2 = 0
    BY <1>2, <2>4, <2>5
  <2>7. (a \in AppNonces)' /\ (b \in AppNonces)'
    BY <1>1, <2>3 DEF AppNonces
  <2> QED BY <1>1, <2>2, <2>6, <2>7 DEF SessionInv, Runs, Returned, Last
<1> QED BY <1>6, <1>7

LEMMA SessionInvHolds == Spec => []SessionInv
<1>1. LoopInv /\ SessionInv /\ [Next]_vars => SessionInv'
  <2> SUFFICES ASSUME LoopInv, SessionInv, [Next]_vars PROVE SessionInv'
    OBVIOUS
  <2>1. CASE Call
    <3>1. ~session' /\ step' = "running"
      BY <2>1 DEF Call, CallCompare, CallIncrement, SessionInv
    <3> QED BY <3>1 DEF SessionInv
  <2>2. CASE Loops
    <3>1. session' = session /\ step = "running" /\ step' # "idle"
      BY <2>2 DEF Loops, Differ, Alike, End, Carry, Increment, Outside, AppCarry,
                  AppIncrement, Runs
    <3>2. CASE session
      <4>1. ~Differ /\ ~Alike /\ ~End
        BY <3>2 DEF SessionInv, Differ, Alike, End, Runs
      <4> QED BY <2>2, <3>2, <4>1, SessionLock, SessionApp DEF Loops
    <3>3. CASE ~session
      BY <3>1, <3>3 DEF SessionInv
    <3> QED BY <3>2, <3>3
  <2>3. CASE UNCHANGED vars
    BY <2>3 DEF vars, SessionInv, Runs, Returned, CountedOn
  <2> QED BY <2>1, <2>2, <2>3, SessionTurn DEF Next
<1> QED BY <1>1, SessionInvInit, LoopInvHolds, PTL DEF Spec

\* In a session app and lock count in one sequence, the app's (increment_array(),
\* incrementByteArray()).
THEOREM CountingIsOne == Spec => []OneCounting
<1>1. LoopInv /\ SessionInv => OneCounting
  <2> SUFFICES ASSUME LoopInv, SessionInv, session, step = "returned",
                      ~Full(b, MAX_VALUE)
               PROVE  IsNext(AppNonces, a, b)
    BY DEF OneCounting, SessionInv
  <2>1. a \in AppNonces /\ b \in AppNonces
    BY DEF SessionInv
  <2>2. CountedOn(a, b, MAX_VALUE)
    BY DEF SessionInv, LoopInv, AppInv, Returned
  <2> QED BY <2>1, <2>2, CountedOnIsNext, Indices DEF AppNonces
<1> QED BY <1>1, SessionInvHolds, LoopInvHolds, PTL
=============================================================================
