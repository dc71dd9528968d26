----------------------------- MODULE NonceBytes -----------------------------
(***************************************************************************)
(* The bytes of a nonce: how the lock compares two of them and counts on   *)
(* (main.c), and how the app does (Tools.java).  The first byte is the     *)
(* most significant one on either side, as it is in the server's           *)
(* to_bytes(24, 'big').                                                    *)
(*                                                                         *)
(* The app's bytes are signed: it carries at Byte.MAX_VALUE, half the      *)
(* largest byte of the lock.  The two count alike only because of the      *)
(* turns they take in a session.                                           *)
(***************************************************************************)
EXTENDS Integers

CONSTANTS
  NONCE_LEN,   \* bytes of a nonce: 24
  MAX_VALUE    \* Byte.MAX_VALUE: 127

\* The length fits the lock's loop counter of 8 bits.
ASSUME NonceBytesAssumption ==
  /\ NONCE_LEN \in 1..255
  /\ MAX_VALUE \in Nat /\ MAX_VALUE % 2 = 1

Last == NONCE_LEN - 1
Index == 0..Last
Largest == 2 * MAX_VALUE + 1
Nonces == [Index -> 0..Largest]
AppNonces == [Index -> 0..MAX_VALUE]
Zero == [k \in Index |-> 0]

VARIABLES
  function,  \* the function that was called
  step,      \* "idle", "running", "returned"; "outside", past the array's end
  a, b,      \* its arrays; b of an increment is what it was called with
  i,         \* the loop's counter
  result,    \* of the comparison
  session    \* the calls are those of a session, one after the other
vars == <<function, step, a, b, i, result, session>>

Functions == {"is_greater_than", "increment_array", "incrementByteArray"}

\* The types: no byte overflows, and a loop that goes on is within its arrays.
TypeOK ==
  /\ function \in Functions \cup {"none"}
  /\ step \in {"idle", "running", "returned", "outside"}
  /\ a \in Nonces /\ b \in Nonces
  /\ i \in 0..255 /\ result \in {0, 1} /\ session \in BOOLEAN
  /\ step = "running" /\ function = "incrementByteArray" => i \in Index

Init ==
  /\ function = "none" /\ step = "idle"
  /\ a = Zero /\ b = Zero /\ i = 0 /\ result = 0 /\ session = FALSE

Runs(f) == step = "running" /\ function = f
Returned(f) == step = "returned" /\ function = f

-----------------------------------------------------------------------------
(* is_greater_than(): nonces of tickets and requests, from the first byte. *)

CallCompare(x, y) ==
  /\ function' = "is_greater_than" /\ step' = "running"
  /\ a' = x /\ b' = y /\ i' = 0 /\ result' = 0

Differ ==
  /\ Runs("is_greater_than") /\ i \in Index /\ a[i] # b[i]
  /\ step' = "returned" /\ result' = IF a[i] > b[i] THEN 1 ELSE 0
  /\ UNCHANGED <<function, a, b, i, session>>
Alike ==
  /\ Runs("is_greater_than") /\ i \in Index /\ a[i] = b[i]
  /\ i' = i + 1
  /\ UNCHANGED <<function, step, a, b, result, session>>
\* Mutant: equal arrays pass for greater ones.
EndAtLeast ==
  /\ Runs("is_greater_than") /\ i = NONCE_LEN
  /\ step' = "returned" /\ result' = 1
  /\ UNCHANGED <<function, a, b, i, session>>
End ==
  /\ Runs("is_greater_than") /\ i = NONCE_LEN
  /\ step' = "returned" /\ result' = 0
  /\ UNCHANGED <<function, a, b, i, session>>

-----------------------------------------------------------------------------
(* increment_array() and incrementByteArray(): from the last byte.         *)

CallIncrement(f, x) ==
  /\ function' = f /\ step' = "running"
  /\ a' = x /\ b' = x /\ i' = Last /\ result' = 0

\* Mutant: the carry is lost.
CarryLost ==
  /\ Runs("increment_array") /\ i \in Index /\ a[i] = Largest
  /\ a' = [a EXCEPT ![i] = 0] /\ step' = "returned"
  /\ UNCHANGED <<function, b, i, result, session>>
\* i >= 0 always holds: below 0 the counter wraps.
Carry ==
  /\ Runs("increment_array") /\ i \in Index /\ a[i] = Largest
  /\ a' = [a EXCEPT ![i] = 0] /\ i' = (i - 1) % 256
  /\ UNCHANGED <<function, step, b, result, session>>
Increment ==
  /\ Runs("increment_array") /\ i \in Index /\ a[i] # Largest
  /\ a' = [a EXCEPT ![i] = @ + 1] /\ step' = "returned"
  /\ UNCHANGED <<function, b, i, result, session>>
\* What is changed there is not the nonce; nothing more is said of it.
Outside ==
  /\ Runs("increment_array") /\ i \notin Index
  /\ step' = "outside"
  /\ UNCHANGED <<function, a, b, i, result, session>>

\* Mutant: incrementAtIndex() does not go on.
AppCarryLost ==
  /\ Runs("incrementByteArray") /\ a[i] = MAX_VALUE
  /\ a' = [a EXCEPT ![i] = 0] /\ step' = "returned"
  /\ UNCHANGED <<function, b, i, result, session>>
AppCarry ==
  /\ Runs("incrementByteArray") /\ a[i] = MAX_VALUE
  /\ a' = [a EXCEPT ![i] = 0]
  /\ IF i > 0 THEN i' = i - 1 /\ UNCHANGED step
              ELSE step' = "returned" /\ UNCHANGED i
  /\ UNCHANGED <<function, b, result, session>>
\* Mutant: a byte grows past its range.
AppIncrementWide ==
  /\ Runs("incrementByteArray") /\ a[i] # MAX_VALUE
  /\ a' = [a EXCEPT ![i] = @ + 1] /\ step' = "returned"
  /\ UNCHANGED <<function, b, i, result, session>>
\* The byte -1 becomes 0 without a carry.
AppIncrement ==
  /\ Runs("incrementByteArray") /\ a[i] # MAX_VALUE
  /\ a' = [a EXCEPT ![i] = IF @ = Largest THEN 0 ELSE @ + 1] /\ step' = "returned"
  /\ UNCHANGED <<function, b, i, result, session>>

-----------------------------------------------------------------------------
Loops ==
  \/ Differ \/ Alike \/ End
  \/ Carry \/ Increment \/ Outside
  \/ AppCarry \/ AppIncrement

\* Any call: tickets and requests bring nonces of any bytes.
Call ==
  /\ step = "idle" /\ UNCHANGED session
  /\ \/ \E x, y \in Nonces : CallCompare(x, y)
     \/ \E f \in {"increment_array", "incrementByteArray"}, x \in Nonces :
          CallIncrement(f, x)

\* A session: from 0, the lock counts on for its answer to the ticket, the app
\* for a request, the lock for its answer, and so on.
Turn ==
  /\ step = "idle" \/ (step = "returned" /\ session)
  /\ session' = TRUE
  /\ CallIncrement(IF function = "increment_array" THEN "incrementByteArray"
                                                   ELSE "increment_array", a)

Next == Call \/ Turn \/ Loops
Spec == Init /\ [][Next]_vars
-----------------------------------------------------------------------------
Greater(x, y) ==
  \E k \in Index : x[k] > y[k] /\ \A j \in 0..(k - 1) : x[j] = y[j]
\* x is the least element of S that is greater than y.
IsNext(S, x, y) ==
  /\ x \in S /\ Greater(x, y)
  /\ \A z \in S : ~(Greater(x, z) /\ Greater(z, y))
Full(x, byte) == \A k \in Index : x[k] = byte

\* The lock takes a nonce for newer exactly if it comes later in the order of
\* the numbers; equal ones are not newer (is_greater_than()).
ComparesOrder == Returned("is_greater_than") => (result = 1 <=> Greater(a, b))

\* The lock counts to the next number of all; it goes past the array's end at
\* the last number only (increment_array()).
LockCounts ==
  /\ Returned("increment_array") => IsNext(Nonces, a, b)
  /\ step = "outside" => Full(b, Largest)

\* The app counts to the next number without a byte above Byte.MAX_VALUE, and
\* so it stays among them; at the last one it starts again, from 0
\* (incrementByteArray()).
AppCounts ==
  Returned("incrementByteArray") /\ b \in AppNonces =>
    IF Full(b, MAX_VALUE) THEN a = Zero ELSE IsNext(AppNonces, a, b)

\* In a session both count to the next of the app's numbers, so that one
\* counter describes both, although they carry at different bytes: the lock
\* never comes to carry, nor the app to a byte above Byte.MAX_VALUE
\* (increment_array(), incrementByteArray()).
OneCounting ==
  session =>
    /\ a \in AppNonces /\ step # "outside"
    /\ step = "returned" /\ ~Full(b, MAX_VALUE) => IsNext(AppNonces, a, b)
=============================================================================
