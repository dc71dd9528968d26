---------------------------- MODULE Server_proofs ----------------------------
(***************************************************************************)
(* For any number of users and requests: the types of Server, that only    *)
(* administrators change who has access, and that who lost access stays    *)
(* out.                                                                    *)
(***************************************************************************)
EXTENDS Server, TLAPS

-----------------------------------------------------------------------------
(* What every step relies on besides TypeOK.                               *)

\* The ids of the table start after those of the first two rows, and the lock
\* counts in natural numbers.
Counters == nextId \in Nat /\ nextId > 2 /\ master \in Nat

\* Only a request for a ticket has an answer that carries something.
Replies == \A u \in Users : req[u].at = "reply" => req[u].op = "ticket"

\* Whoever is an administrator has been one, and a lock without users is
\* remembered.
Remembered ==
  /\ \A u \in Users : accesses[u].is_admin => u \in everAdmin
  /\ ~HasUsers => emptied

\* A request past its check is an administrator's, or the lock has been
\* without users.  A revocation by a user who had no access at its check is
\* not past it yet: it may only find a row of its own, which it cannot name.
Authorized ==
  \A u \in Users :
    /\ req[u].at = "write" /\ req[u].op \in {"grant", "revoke", "clear"}
         => emptied \/ u \in everAdmin
    /\ req[u].at = "read" /\ req[u].op = "revoke"
         => u \in everAdmin \/ (req[u].id \in 1..(nextId - 1) /\ accesses[u].id # req[u].id)

Inv == TypeOK /\ Counters /\ Replies /\ Remembered /\ Authorized

-----------------------------------------------------------------------------
(* The records and the functions the steps build.                          *)

\* A step of the request of one user leaves the others' alone.
LEMMA EndRequest ==
  ASSUME TypeOK, Counters, NEW u \in Users, End(u)
  PROVE  /\ req' \in [Users -> Requests]
         /\ req'[u] = NoRequest
         /\ \A v \in Users : v # u => req'[v] = req[v]
<1>1. NoRequest \in Requests
  BY DEF NoRequest, Requests, Counters
<1> QED
  BY <1>1 DEF End, TypeOK

LEMMA AskRequest ==
  ASSUME TypeOK, Counters, NEW u \in Users, NEW r \in Requests, Ask(u, r)
  PROVE  /\ req' \in [Users -> Requests]
         /\ req'[u] = r
         /\ \A v \in Users : v # u => req'[v] = req[v]
BY DEF Ask, TypeOK

\* The rows of a table that has grown are still of its type.
LEMMA RequestsGrow ==
  ASSUME Counters, NEW r \in Requests, nextId' \in Nat, nextId' >= nextId
  PROVE  r \in Requests'
BY DEF Requests, Counters

\* What the lock counts never goes back.
LEMMA MasterGrows ==
  ASSUME Counters, (\E n \in Nat : L!Store(n)) \/ L!Open \/ L!Forget
  PROVE  master' \in Nat /\ master' >= master
BY DEF Counters, L!Store, L!Open, L!Forget

-----------------------------------------------------------------------------
(* The initial state.                                                      *)

LEMMA InvInit == Init => Inv
<1> SUFFICES ASSUME Init PROVE Inv
  OBVIOUS
<1> USE ServerAssumption
<1>1. nextId = 3 /\ master = 0
  BY DEF Init, L!Init
<1>2. accesses \in [Users -> [id : 0..(nextId - 1), is_admin : BOOLEAN]]
  BY <1>1 DEF Init, NoRow
<1>3. \A u, v \in Users : u # v /\ HasAccess(u) => accesses[u].id # accesses[v].id
  BY DEF Init, HasAccess, NoRow
<1>4. \A u \in Users : req[u] = NoRequest
  BY DEF Init
<1>5. req \in [Users -> Requests]
  BY <1>1 DEF Init, NoRequest, Requests
<1>6. TypeOK
  <2>1. ticket \in [Users -> Nat] /\ left \in 0..MaxRequests /\ counter \in Nat
    BY DEF Init
  <2>2. logs \subseteq Users /\ served \subseteq Users /\ everAdmin \subseteq Users
    BY DEF Init
  <2>3. current \in Users \cup {NoOne} /\ emptied \in BOOLEAN
    BY DEF Init
  <2> QED
    BY <1>2, <1>3, <1>5, <2>1, <2>2, <2>3 DEF TypeOK
<1>7. Remembered
  BY DEF Init, Remembered, HasUsers, HasAccess, NoRow
<1> QED
  BY <1>1, <1>4, <1>6, <1>7 DEF Inv, Counters, Replies, Authorized, NoRequest

-----------------------------------------------------------------------------
(* Requests that arrive, fail or are answered: the table stays as it is.   *)

\* The parts of Inv that speak of the table and its history.
LEMMA TableKept ==
  ASSUME Inv, UNCHANGED <<database, history>>
  PROVE  /\ accesses' \in [Users -> [id : 0..(nextId' - 1), is_admin : BOOLEAN]]
         /\ \A u, v \in Users : u # v /\ HasAccess(u)' => accesses'[u].id # accesses'[v].id
         /\ counter' \in Nat /\ logs' \subseteq Users
         /\ nextId' = nextId /\ everAdmin' \subseteq Users /\ emptied' \in BOOLEAN
         /\ Remembered'
BY DEF Inv, TypeOK, Remembered, HasUsers, HasAccess, database, history

\* The rest, for a step of the request of u that does not write.
LEMMA RequestStep ==
  ASSUME Inv, NEW u \in Users, UNCHANGED <<database, current, served, history>>,
         req' \in [Users -> Requests], \A v \in Users : v # u => req'[v] = req[v],
         ticket' \in [Users -> Nat], left' \in 0..MaxRequests,
         master' \in Nat,
         req'[u].at = "reply" => req'[u].op = "ticket",
         req'[u].at = "write" /\ req'[u].op \in {"grant", "revoke", "clear"}
           => emptied \/ u \in everAdmin,
         req'[u].at = "read" /\ req'[u].op = "revoke"
           => u \in everAdmin \/ (req'[u].id \in 1..(nextId - 1) /\ accesses[u].id # req'[u].id)
  PROVE  Inv'
<1>1. nextId' = nextId /\ UNCHANGED <<accesses, everAdmin, emptied>>
  BY DEF database, history
<1>2. Requests' = Requests
  BY <1>1 DEF Requests
<1>3. TypeOK'
  BY <1>2, TableKept DEF Inv, TypeOK
<1>4. Counters' /\ Replies'
  BY <1>1 DEF Inv, Counters, Replies
<1>5. Authorized'
  BY <1>1 DEF Inv, Authorized
<1> QED
  BY <1>3, <1>4, <1>5, TableKept DEF Inv

LEMMA InvAsk ==
  ASSUME Inv, NEW u \in Users, AskTicket(u) \/ AskOther(u)
  PROVE  Inv'
<1>1. PICK op \in {"ticket", "rename", "clear", "log", "clearlogs", "grant", "revoke"},
           who \in Users \cup {NoOne}, id \in 0..nextId :
        Ask(u, Request(op, who, id))
  BY DEF AskTicket, AskOther, Inv, Counters
<1>2. Request(op, who, id) \in Requests
  BY DEF Request, Requests
<1>3. left' \in 0..MaxRequests
  BY ServerAssumption DEF AskTicket, AskOther, Inv, TypeOK
<1>4. /\ req' \in [Users -> Requests]
      /\ req'[u] = Request(op, who, id)
      /\ \A v \in Users : v # u => req'[v] = req[v]
  BY <1>1, <1>2, AskRequest DEF Inv
<1>5. req'[u].at = "check"
  BY <1>4 DEF Request
<1>6. UNCHANGED <<database, ticket, current, served, history, lock>>
  BY <1>1 DEF Ask
<1> QED
  BY <1>3, <1>4, <1>5, <1>6, RequestStep DEF Inv, TypeOK, Counters, lock

LEMMA InvEnd ==
  ASSUME Inv, NEW u \in Users, End(u), UNCHANGED <<database, current, served, history>>,
         ticket' \in [Users -> Nat], left' \in 0..MaxRequests, master' \in Nat
  PROVE  Inv'
<1>1. /\ req' \in [Users -> Requests]
      /\ req'[u] = NoRequest
      /\ \A v \in Users : v # u => req'[v] = req[v]
  BY EndRequest DEF Inv
<1>2. req'[u].at = "end"
  BY <1>1 DEF NoRequest
<1> QED
  BY <1>1, <1>2, RequestStep

LEMMA InvReplyFail ==
  ASSUME Inv, NEW u \in Users, Reply(u) \/ Fail(u)
  PROVE  Inv'
<1>1. CASE Reply(u)
  <2>1. ticket' \in [Users -> Nat]
    BY <1>1 DEF Reply, Inv, TypeOK, Requests
  <2> QED
    BY <1>1, <2>1, InvEnd DEF Reply, Inv, TypeOK, Counters, lock
<1>2. CASE Fail(u)
  <2>1. left' \in 0..MaxRequests
    BY <1>2, ServerAssumption DEF Fail, Inv, TypeOK
  <2> QED
    BY <1>2, <2>1, InvEnd DEF Fail, Inv, TypeOK, Counters, lock
<1> QED
  BY <1>1, <1>2

\* The check: an administrator's request, or one without access to a row that
\* belongs to somebody else.
LEMMA InvCheck ==
  ASSUME Inv, NEW u \in Users, Check(u)
  PROVE  Inv'
<1>1. CASE ~Permitted(u)
  BY <1>1, InvEnd DEF Check, Inv, TypeOK, Counters, lock
<1>2. CASE Permitted(u)
  <2>1. /\ req[u].at = "check" /\ req[u] \in Requests
        /\ \E step \in {"read", "write"} :
              /\ req' = [req EXCEPT ![u].at = step]
              /\ step = "read" => req[u].op \in {"ticket", "rename", "revoke"}
              /\ step = "write" => req[u].op \notin {"ticket", "rename", "revoke"}
    BY <1>2 DEF Check, GoTo, Inv, TypeOK
  <2>2. /\ req' \in [Users -> Requests]
        /\ \A v \in Users : v # u => req'[v] = req[v]
        /\ req'[u].op = req[u].op /\ req'[u].id = req[u].id
        /\ \/ req'[u].at = "read" /\ req[u].op \in {"ticket", "rename", "revoke"}
           \/ req'[u].at = "write" /\ req[u].op \notin {"ticket", "rename", "revoke"}
    BY <2>1 DEF Inv, TypeOK, Requests
  <2>3. req[u].op \in {"grant", "clear"} => emptied \/ u \in everAdmin
    BY <1>2 DEF Permitted, IsAdmin, Inv, Remembered
  <2>4. req[u].op = "revoke"
          => u \in everAdmin \/ (req[u].id \in 1..(nextId - 1) /\ accesses[u].id # req[u].id)
    <3>1. SUFFICES ASSUME req[u].op = "revoke", ~HasAccess(u)
                   PROVE  req[u].id \in 1..(nextId - 1) /\ accesses[u].id # req[u].id
      BY <1>2 DEF Permitted, IsAdmin, Inv, Remembered
    <3>2. PICK v \in Users : HasAccess(v) /\ accesses[v].id = req[u].id
      BY <1>2, <3>1 DEF Permitted
    <3>3. accesses[v].id \in 0..(nextId - 1) /\ nextId \in Nat
      BY DEF Inv, TypeOK, Counters
    <3> QED
      BY <3>1, <3>2, <3>3 DEF HasAccess
  <2> QED
    BY <1>2, <2>2, <2>3, <2>4, RequestStep DEF Check, Inv, TypeOK, Counters, lock
<1> QED
  BY <1>1, <1>2

\* The row: an administrator's, or it would have to be one's own.
LEMMA InvRead ==
  ASSUME Inv, NEW u \in Users, Read(u)
  PROVE  Inv'
<1>1. CASE End(u)
  BY <1>1, InvEnd DEF Read, Inv, TypeOK, Counters, lock
<1>2. CASE ~End(u)
  <2>1. /\ req[u].at = "read" /\ req[u] \in Requests
        /\ req' = [req EXCEPT ![u].at = "write", ![u].nonce = counter]
    BY <1>2 DEF Read, Inv, TypeOK
  <2>2. /\ req' \in [Users -> Requests]
        /\ \A v \in Users : v # u => req'[v] = req[v]
        /\ req'[u].op = req[u].op /\ req'[u].at = "write"
    BY <2>1 DEF Inv, TypeOK, Requests
  <2>3. req[u].op \in {"ticket", "rename", "revoke"}
    BY <1>2 DEF Read
  <2>4. req[u].op = "revoke" => u \in everAdmin
    <3>1. SUFFICES ASSUME req[u].op = "revoke", u \notin everAdmin
                   PROVE  FALSE
      OBVIOUS
    <3>2. accesses[u].id # req[u].id
      BY <2>1, <3>1 DEF Inv, Authorized
    <3>3. ~IsAdmin(u)
      BY <3>1 DEF IsAdmin, Inv, Remembered
    <3> QED
      BY <1>2, <3>1, <3>2, <3>3 DEF Read
  <2> QED
    BY <1>2, <2>2, <2>3, <2>4, RequestStep DEF Read, Inv, TypeOK, Counters, lock
<1> QED
  BY <1>1, <1>2

-----------------------------------------------------------------------------
(* Writes.                                                                 *)

\* What the request writes and how it goes on.
LEMMA WriteKinds ==
  ASSUME Inv, NEW u \in Users, Write(u)
  PROVE  /\ nextId' \in Nat /\ nextId' >= nextId /\ counter' \in Nat /\ logs' \subseteq Users
         /\ req' \in [Users -> Requests]
         /\ \A v \in Users : v # u => req'[v] = req[v]
         /\ req'[u].at \in {"end", "reply"}
         /\ req'[u].at = "reply" => req'[u].op = "ticket"
<1>1. nextId \in Nat /\ counter \in Nat /\ logs \subseteq Users /\ req[u] \in Requests
  BY DEF Inv, TypeOK, Counters
<1>2. req[u].nonce \in Nat
  BY <1>1 DEF Requests
<1>3. CASE SaveTicket(u)
  BY <1>1, <1>2, <1>3 DEF SaveTicket, Inv, TypeOK, Requests
<1>4. CASE End(u)
  <2>1. req'[u].at = "end"
    BY <1>4, EndRequest DEF Inv, NoRequest
  <2>2. SaveName(u) \/ InsertAccess(u) \/ DeleteAccess(u) \/ DeleteAccesses(u)
          \/ WriteLogs(u) => counter' \in Nat /\ logs' \subseteq Users /\ nextId' \in {nextId, nextId + 1}
    BY <1>1, <1>2 DEF SaveName, InsertAccess, DeleteAccess, DeleteAccesses, WriteLogs
  <2>3. counter' \in Nat /\ logs' \subseteq Users /\ nextId' \in {nextId, nextId + 1}
    BY <1>1, <1>2, <2>2 DEF Write, SaveTicket
  <2> QED
    BY <1>1, <1>4, <2>1, <2>3, EndRequest DEF Inv
<1>5. SaveTicket(u) \/ End(u)
  BY DEF Write, SaveName, InsertAccess, DeleteAccess, DeleteAccesses, WriteLogs
<1> QED
  BY <1>3, <1>4, <1>5

\* The table: every row is one that was there, none, or a new one with an id
\* of its own.
LEMMA WriteRows ==
  ASSUME Inv, NEW u \in Users, Write(u)
  PROVE  /\ accesses' \in [Users -> [id : 0..(nextId' - 1), is_admin : BOOLEAN]]
         /\ \A v, w \in Users : v # w /\ HasAccess(v)' => accesses'[v].id # accesses'[w].id
         /\ \A v \in Users : accesses'[v].id \in {accesses[v].id, 0, nextId}
<1> DEFINE Row(n) == [id : 0..(n - 1), is_admin : BOOLEAN]
<1>1. nextId \in Nat /\ nextId > 2 /\ accesses \in [Users -> Row(nextId)]
  BY DEF Inv, TypeOK, Counters
<1>2. \A v, w \in Users : v # w /\ accesses[v].id # 0 => accesses[v].id # accesses[w].id
  BY DEF Inv, TypeOK, HasAccess
<1>3. NoRow \in Row(nextId) /\ NoRow.id = 0
  BY <1>1 DEF NoRow
<1>4. CASE UNCHANGED <<accesses, nextId>>
  BY <1>1, <1>2, <1>4 DEF HasAccess
<1>5. CASE InsertAccess(u) /\ ~HasAccess(req[u].who)
  <2> DEFINE row == [id |-> nextId, is_admin |-> req[u].id = 1]
  <2>1. /\ accesses' = [accesses EXCEPT ![req[u].who] = row]
        /\ nextId' = nextId + 1
    BY <1>5 DEF InsertAccess
  <2>2. row \in Row(nextId + 1) /\ row.id = nextId /\ Row(nextId) \subseteq Row(nextId + 1)
    BY <1>1
  <2>3. accesses' \in [Users -> Row(nextId + 1)]
    BY <1>1, <2>1, <2>2
  <2>4. \A v \in Users : accesses[v].id < nextId
    BY <1>1
  <2>5. \A v \in Users : accesses'[v] = IF v = req[u].who THEN row ELSE accesses[v]
    BY <1>1, <2>1
  <2> QED
    BY <1>1, <1>2, <2>1, <2>2, <2>3, <2>4, <2>5 DEF HasAccess
<1>6. CASE DeleteAccess(u) \/ DeleteAccesses(u)
  <2>1. /\ nextId' = nextId /\ accesses' \in [Users -> Row(nextId)]
        /\ \A v \in Users : accesses'[v] \in {accesses[v], NoRow}
    BY <1>1, <1>3, <1>6 DEF DeleteAccess, DeleteAccesses
  <2> QED
    BY <1>1, <1>2, <1>3, <2>1 DEF HasAccess
<1> QED
  BY <1>4, <1>5, <1>6 DEF Write, SaveTicket, SaveName, InsertAccess, WriteLogs

LEMMA InvWrite ==
  ASSUME Inv, NEW u \in Users, Write(u)
  PROVE  Inv'
<1>1. TypeOK'
  <2>1. Requests \subseteq Requests'
    BY WriteKinds, RequestsGrow DEF Inv
  <2>2. req' \in [Users -> Requests']
    BY <2>1, WriteKinds
  <2> QED
    BY <2>2, WriteKinds, WriteRows DEF Write, Inv, TypeOK
<1>2. Counters' /\ Replies'
  BY WriteKinds DEF Inv, Counters, Replies, Write, lock
<1>3. Remembered'
  BY DEF Inv, Remembered, Write, HasUsers, HasAccess
<1>4. everAdmin \subseteq everAdmin' /\ (emptied => emptied')
  BY DEF Write
<1>5. Authorized'
  <2>1. SUFFICES ASSUME NEW v \in Users, v # u
                 PROVE  /\ req[v].at = "write" /\ req[v].op \in {"grant", "revoke", "clear"}
                             => emptied' \/ v \in everAdmin'
                        /\ req[v].at = "read" /\ req[v].op = "revoke"
                             => v \in everAdmin'
                                \/ (req[v].id \in 1..(nextId' - 1) /\ accesses'[v].id # req[v].id)
    BY WriteKinds DEF Authorized
  <2>2. accesses'[v].id \in {accesses[v].id, 0, nextId}
    BY WriteRows
  <2> QED
    BY <1>4, <2>2, WriteKinds DEF Inv, Authorized, Counters
<1> QED
  BY <1>1, <1>2, <1>3, <1>5 DEF Inv

-----------------------------------------------------------------------------
(* The phone at the lock, and the invariant.                               *)

\* Steps of the lock and the phone leave the server alone.
LEMMA InvLock ==
  ASSUME Inv, UNCHANGED <<database, req, history>>,
         ticket' \in [Users -> Nat], current' \in Users \cup {NoOne},
         served' \subseteq Users, left' \in 0..MaxRequests, master' \in Nat
  PROVE  Inv'
<1>1. nextId' = nextId /\ UNCHANGED <<accesses, everAdmin, emptied>>
  BY DEF database, history
<1>2. Requests' = Requests
  BY <1>1 DEF Requests
<1>3. TypeOK'
  BY <1>2, TableKept DEF Inv, TypeOK
<1>4. Counters' /\ Replies' /\ Authorized'
  BY <1>1 DEF Inv, Counters, Replies, Authorized
<1> QED
  BY <1>3, <1>4, TableKept DEF Inv

LEMMA InvPhone ==
  ASSUME Inv, (\E u \in Users : Deliver(u)) \/ OpenSession \/ Restart
  PROVE  Inv'
<1>1. ASSUME NEW u \in Users, Deliver(u) PROVE Inv'
  <2>1. ticket[u] \in Nat /\ ticket' \in [Users -> Nat]
    BY <1>1 DEF Deliver, Inv, TypeOK
  <2>2. master' \in Nat /\ current' \in Users \cup {NoOne}
    BY <1>1, <2>1, MasterGrows DEF Deliver, Inv, TypeOK, Counters, lock
  <2> QED
    BY <1>1, <2>1, <2>2, InvLock DEF Deliver, Inv, TypeOK
<1>2. CASE OpenSession
  <2>1. master' \in Nat /\ current \in Users
    BY <1>2, MasterGrows DEF OpenSession, Inv, TypeOK
  <2> QED
    BY <1>2, <2>1, InvLock DEF OpenSession, Inv, TypeOK
<1>3. CASE Restart
  <2>1. master' \in Nat /\ left' \in 0..MaxRequests
    BY <1>3, MasterGrows, ServerAssumption DEF Restart, Inv, TypeOK
  <2> QED
    BY <1>3, <2>1, InvLock DEF Restart, Inv, TypeOK
<1> QED
  BY <1>1, <1>2, <1>3

LEMMA InvStep == Inv /\ [Next]_vars => Inv'
<1> SUFFICES ASSUME Inv, [Next]_vars PROVE Inv'
  OBVIOUS
<1>1. CASE UNCHANGED vars
  BY <1>1, InvLock DEF vars, lock, Inv, TypeOK, Counters
<1>2. CASE Next
  BY <1>2, InvAsk, InvCheck, InvRead, InvWrite, InvReplyFail, InvPhone DEF Next, Serve
<1> QED
  BY <1>1, <1>2

LEMMA Invariance == Spec => []Inv
BY InvInit, InvStep, PTL DEF Spec

-----------------------------------------------------------------------------
(* What the server promises.                                               *)

\* Every variable keeps its type: two users never share the id of a row, and no
\* row has an id that is still to be given out, whoever asks for what at the
\* same time (LockAccess, models.py).
THEOREM RowsApart == Spec => []TypeOK
<1>1. Inv => TypeOK
  BY DEF Inv
<1> QED
  BY <1>1, Invariance, PTL

\* The rows of a lock are inserted and deleted only by requests of users who
\* have been its administrators, although the check of a request and its write
\* are apart, or after the lock has been without users (permissions.py).
THEOREM AdminsWrite == Spec => WritesByAdmins
<1>1. Inv /\ [Next]_vars
        => [accesses' # accesses =>
              \/ emptied
              \/ \E u \in everAdmin : /\ req[u].op \in {"grant", "revoke", "clear"}
                                      /\ req'[u].op = "none"]_vars
  <2> SUFFICES ASSUME Inv, Next, accesses' # accesses, ~emptied
               PROVE  \E u \in everAdmin : /\ req[u].op \in {"grant", "revoke", "clear"}
                                            /\ req'[u].op = "none"
    BY DEF vars, database
  <2>1. PICK u \in Users : Write(u)
    BY DEF Next, Serve, AskTicket, AskOther, Ask, Check, Read, Reply, Fail, Deliver,
       OpenSession, Restart, database
  <2>2. InsertAccess(u) \/ DeleteAccess(u) \/ DeleteAccesses(u)
    BY <2>1 DEF Write, SaveTicket, SaveName, WriteLogs
  <2>3. req[u].op \in {"grant", "revoke", "clear"} /\ req[u].at = "write" /\ End(u)
    BY <2>1, <2>2 DEF Write, InsertAccess, DeleteAccess, DeleteAccesses
  <2>4. u \in everAdmin
    BY <2>3 DEF Inv, Authorized
  <2>5. req'[u].op = "none"
    BY <2>3, EndRequest DEF Inv, NoRequest
  <2> QED
    BY <2>3, <2>4, <2>5
<1> QED
  BY <1>1, Invariance, PTL DEF Spec, WritesByAdmins

\* The lock never goes back behind a ticket, whatever the step.
LEMMA MasterNeverBack ==
  ASSUME Inv, Next
  PROVE  master' >= master /\ master \in Nat /\ master' \in Nat
<1>1. master \in Nat
  BY DEF Inv, Counters
<1>2. ASSUME NEW u \in Users, AskTicket(u) \/ AskOther(u) \/ Serve(u) \/ Fail(u)
      PROVE  master' = master
  BY <1>2 DEF AskTicket, AskOther, Ask, Serve, Check, Read, Write, Reply, Fail, lock
<1>3. ASSUME NEW u \in Users, Deliver(u) PROVE master' >= master /\ master' \in Nat
  <2>1. ticket[u] \in Nat
    BY DEF Inv, TypeOK
  <2> QED
    BY <1>1, <1>3, <2>1, MasterGrows DEF Deliver, Inv, lock
<1>4. CASE OpenSession \/ Restart
  BY <1>1, <1>4, MasterGrows DEF OpenSession, Restart, Inv
<1> QED
  BY <1>1, <1>2, <1>3, <1>4 DEF Next

\* Who has no access gets no ticket past the check, and the one on the phone
\* is never newer than the lock.
LEMMA StaysShutOut ==
  ASSUME Inv, Next, NEW u \in Users, ShutOut(u), ~HasAccess(u)'
  PROVE  ShutOut(u)'
<1>1. /\ ~HasAccess(u) /\ current # u /\ ticket[u] <= master
      /\ ~(req[u].op = "ticket" /\ req[u].at # "check")
  BY DEF ShutOut
<1>2. master' >= master /\ master \in Nat /\ master' \in Nat /\ ticket[u] \in Nat
  BY MasterNeverBack DEF Inv, TypeOK
<1>3. ASSUME NEW v \in Users, AskTicket(v) \/ AskOther(v) \/ Check(v) \/ Read(v) \/ Fail(v)
      PROVE  ~(req'[u].op = "ticket" /\ req'[u].at # "check")
  <2>1. CASE v # u
    BY <1>1, <1>3, <2>1 DEF AskTicket, AskOther, Ask, Check, Read, Fail, End, GoTo, Inv, TypeOK
  <2>2. CASE v = u /\ (AskTicket(u) \/ AskOther(u))
    BY <2>2 DEF AskTicket, AskOther, Ask, Request, Inv, TypeOK
  <2>3. CASE End(u)
    BY <2>3, EndRequest DEF Inv, NoRequest
  <2>4. CASE v = u /\ Check(u) /\ ~End(u)
    <3>1. req[u].op # "ticket"
      BY <1>1, <2>4 DEF Check, Permitted
    <3>2. req'[u].op = req[u].op
      BY <2>4 DEF Check, GoTo, Inv, TypeOK, Requests
    <3> QED
      BY <3>1, <3>2
  <2>5. CASE v = u /\ Read(u) /\ ~End(u)
    <3>1. req[u].op # "ticket"
      BY <1>1, <2>5 DEF Read
    <3>2. req'[u].op = req[u].op
      BY <2>5 DEF Read, Inv, TypeOK, Requests
    <3> QED
      BY <3>1, <3>2
  <2> QED
    BY <1>3, <2>1, <2>2, <2>3, <2>4, <2>5 DEF Fail
<1>4. ASSUME NEW v \in Users, AskTicket(v) \/ AskOther(v) \/ Check(v) \/ Read(v) \/ Fail(v)
      PROVE  ShutOut(u)'
  <2>1. UNCHANGED <<ticket, current>>
    BY <1>4 DEF AskTicket, AskOther, Ask, Check, Read, Fail
  <2> QED
    BY <1>1, <1>2, <1>3, <1>4, <2>1 DEF ShutOut
<1>5. ASSUME NEW v \in Users, Write(v) PROVE ShutOut(u)'
  <2>1. UNCHANGED <<ticket, current>> /\ req[v].at = "write"
    BY <1>5 DEF Write
  <2>2. ~(req'[u].op = "ticket" /\ req'[u].at # "check")
    <3>1. CASE v # u
      BY <1>1, <1>5, <3>1, WriteKinds
    <3>2. CASE v = u
      <4>1. ~SaveTicket(u)
        BY <1>1, <2>1, <3>2 DEF SaveTicket
      <4>2. End(u)
        BY <1>5, <3>2, <4>1 DEF Write, SaveName, InsertAccess, DeleteAccess, DeleteAccesses, WriteLogs
      <4> QED
        BY <4>2, EndRequest DEF Inv, NoRequest
    <3> QED
      BY <3>1, <3>2
  <2> QED
    BY <1>1, <1>2, <2>1, <2>2 DEF ShutOut
<1>6. ASSUME NEW v \in Users, Reply(v) PROVE ShutOut(u)'
  <2>1. v # u
    BY <1>1, <1>6 DEF Reply, Inv, Replies
  <2>2. req'[u] = req[u] /\ ticket'[u] = ticket[u] /\ current' = current
    BY <1>6, <2>1, EndRequest DEF Reply, Inv, TypeOK
  <2> QED
    BY <1>1, <1>2, <2>2 DEF ShutOut
<1>7. ASSUME NEW v \in Users, Deliver(v) PROVE ShutOut(u)'
  <2>1. current' # u
    BY <1>1, <1>2, <1>7 DEF Deliver
  <2>2. req' = req /\ ticket'[u] \in {0, ticket[u]}
    BY <1>7 DEF Deliver, Inv, TypeOK
  <2> QED
    BY <1>1, <1>2, <2>1, <2>2 DEF ShutOut
<1>8. CASE OpenSession \/ Restart
  <2>1. current' # u
    BY <1>8, ServerAssumption DEF OpenSession, Restart
  <2> QED
    BY <1>1, <1>2, <1>8, <2>1 DEF ShutOut, OpenSession, Restart
<1> QED
  BY <1>3, <1>4, <1>5, <1>6, <1>7, <1>8 DEF Next, Serve

\* A user who lost access stays shut out until it is granted again, whatever
\* concurrent requests and renames do to the counter (views.py, main.c).
THEOREM RevocationHolds == Spec => RevokedStaysOut
<1>1. Inv /\ [Next]_vars
        => [\A u \in Users : ShutOut(u) /\ ~HasAccess(u)' => ShutOut(u)']_vars
  BY StaysShutOut
<1> QED
  BY <1>1, Invariance, PTL DEF Spec, RevokedStaysOut
=============================================================================
