-------------------------------- MODULE Lock --------------------------------
(***************************************************************************)
(* What the lock promises, without its module, its buffer and its states:  *)
(* three counters, and what it does only when one of them grows.           *)
(* LockFirmware implements it; Server and AppSession rely on it.           *)
(*                                                                         *)
(* A ticket is named by its nonce, which also names the session key it     *)
(* carries.                                                                *)
(***************************************************************************)
EXTENDS Naturals

CONSTANT Nonces      \* nonces a message may carry, all positive

NoKey == 0

VARIABLES
  master,     \* the newest ticket ever stored
  key,        \* the key of the session
  nonce,      \* the last nonce used in it
  opened,     \* tickets that opened a session
  rotated,    \* <<key, nonce>> of the requests that turned the motor
  sealed      \* <<key, nonce>> under which the lock encrypted
vars == <<master, key, nonce, opened, rotated, sealed>>

Init ==
  /\ master = 0 /\ key = NoKey /\ nonce = 0
  /\ opened = {} /\ rotated = {} /\ sealed = {}

\* A newer ticket is stored, whether it opens a session or not.
Store(n) ==
  /\ n > master /\ master' = n
  /\ UNCHANGED <<key, nonce, opened, rotated, sealed>>

\* The ticket stored last opens a session, once.
Open ==
  /\ master # 0 /\ \A n \in opened : n < master
  /\ key' = master /\ nonce' = 1
  /\ opened' = opened \cup {master} /\ sealed' = sealed \cup {<<master, 1>>}
  /\ UNCHANGED <<master, rotated>>

\* A newer nonce of the session is taken, with or without a rotation.
Take(n) ==
  /\ key \in opened /\ n > nonce /\ nonce' = n
  /\ UNCHANGED <<master, key, opened, rotated, sealed>>
Rotate(n) ==
  /\ key \in opened /\ n > nonce /\ nonce' = n
  /\ rotated' = rotated \cup {<<key, n>>}
  /\ UNCHANGED <<master, key, opened, sealed>>

\* The lock answers, under the next nonce.
Respond ==
  /\ key \in opened /\ nonce' = nonce + 1
  /\ sealed' = sealed \cup {<<key, nonce + 1>>}
  /\ UNCHANGED <<master, key, opened, rotated>>

\* A restart ends the session.
Forget ==
  /\ key' = NoKey /\ nonce' = 0
  /\ UNCHANGED <<master, opened, rotated, sealed>>

Next ==
  \/ \E n \in Nonces : Store(n) \/ Take(n) \/ Rotate(n)
  \/ Open \/ Respond \/ Forget

Spec == Init /\ [][Next]_vars
=============================================================================
