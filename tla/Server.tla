------------------------------- MODULE Server -------------------------------
(***************************************************************************)
(* The web server's requests about one lock, and the lock that takes the   *)
(* tickets it issues.                                                      *)
(*                                                                         *)
(* Django commits every statement by itself (no ATOMIC_REQUESTS), so that  *)
(* a request is a sequence of queries between which others may run: the    *)
(* permission check, the read of a row, the write.  A user has at most one *)
(* request in progress.                                                    *)
(***************************************************************************)
EXTENDS Naturals, FiniteSets

CONSTANTS
  Users,
  Owner,         \* the first administrator
  Asker,         \* a user with access who asks again until the lock opens
  MaxRequests    \* bound: other requests, failures and restarts of the lock

NoOne == "no one"

ASSUME ServerAssumption ==
  /\ {Owner, Asker} \subseteq Users /\ Owner # Asker /\ NoOne \notin Users
  /\ MaxRequests \in Nat

NoRow == [id |-> 0, is_admin |-> FALSE]
NoRequest == [op |-> "none", at |-> "end", who |-> NoOne, id |-> 0, nonce |-> 0]

VARIABLES
  accesses,    \* LockAccess: the row of each user on the lock, or NoRow
  nextId,      \* the next id of that table
  counter,     \* Esloq: the column `nonce` of the lock's row
  logs,        \* Log: the users with entries for the lock
  req,         \* the request of each user
  ticket,      \* the ticket each user's phone holds, 0 if none
  current,     \* whose ticket the lock has stored and not yet opened
  served,      \* users for whom the lock has opened a session
  everAdmin,   \* users who have been administrators
  emptied,     \* the lock has been without users
  left         \* what is left of MaxRequests
database == <<accesses, nextId, counter, logs>>
history == <<everAdmin, emptied>>

VARIABLES master, key, nonce, opened, rotated, sealed
lock == <<master, key, nonce, opened, rotated, sealed>>
vars == <<database, req, ticket, current, served, history, left, lock>>

L == INSTANCE Lock WITH Nonces <- Nat

Init ==
  /\ accesses = [u \in Users |->
        CASE u = Owner -> [id |-> 1, is_admin |-> TRUE]
          [] u = Asker -> [id |-> 2, is_admin |-> FALSE]
          [] OTHER -> NoRow]
  /\ nextId = 3 /\ counter = 0 /\ logs = {}
  /\ req = [u \in Users |-> NoRequest]
  /\ ticket = [u \in Users |-> 0]
  /\ current = NoOne /\ served = {}
  /\ everAdmin = {Owner} /\ emptied = FALSE
  /\ left = MaxRequests
  /\ L!Init

-----------------------------------------------------------------------------
(* permissions.py *)

HasAccess(u) == accesses[u].id # 0
IsAdmin(u) == HasAccess(u) /\ accesses[u].is_admin
HasUsers == \E u \in Users : HasAccess(u)

\* Mutant: nobody looks whether a user has access to the lock.
PermittedUnchecked(u) ==
  LET op == req[u].op IN
  \/ op \in {"ticket", "log"}
  \/ op \in {"rename", "clear", "clearlogs"} /\ IsAdmin(u)
  \/ op = "grant" /\ (HasUsers => IsAdmin(u))
  \/ op = "revoke" /\ IsAdmin(u)

\* Mutant: the lock's users may all write.
PermittedMembers(u) ==
  LET op == req[u].op IN
  \/ op \in {"ticket", "log"} /\ HasAccess(u)
  \/ op \in {"rename", "clear", "clearlogs"} /\ IsAdmin(u)
  \/ op = "grant" /\ (HasUsers => HasAccess(u))
  \/ op = "revoke" /\ IsAdmin(u)

\* The queries of the permission classes, and of LockTicketViewSet.retrieve().
\* Who has no access at all passes the check of a DELETE and gets a 404 later.
Permitted(u) ==
  LET op == req[u].op IN
  \/ op \in {"ticket", "log"} /\ HasAccess(u)
  \/ op \in {"rename", "clear", "clearlogs"} /\ IsAdmin(u)
  \/ op = "grant" /\ (HasUsers => IsAdmin(u))
  \/ /\ op = "revoke"
     /\ \E v \in Users : HasAccess(v) /\ accesses[v].id = req[u].id
     /\ HasAccess(u) => IsAdmin(u)

-----------------------------------------------------------------------------
(* views.py, serializers.py: the queries of a request *)

\* A request arrives.  Only the Asker's tickets are not counted.
Ask(u, r) ==
  /\ req[u].op = "none"
  /\ req' = [req EXCEPT ![u] = r]
  /\ UNCHANGED <<database, ticket, current, served, history, lock>>

Request(op, who, id) ==
  [op |-> op, at |-> "check", who |-> who, id |-> id, nonce |-> 0]

AskTicket(u) ==
  /\ ticket[u] = 0 /\ current # u
  /\ Ask(u, Request("ticket", NoOne, 0))
  /\ IF u = Asker THEN u \notin served /\ UNCHANGED left
                  ELSE left > 0 /\ left' = left - 1

AskOther(u) ==
  /\ left > 0 /\ left' = left - 1
  /\ \/ \E op \in {"rename", "clear", "log", "clearlogs"} :
          Ask(u, Request(op, NoOne, 0))
     \/ \E v \in Users, admin \in {0, 1} : Ask(u, Request("grant", v, admin))
     \/ \E id \in 1..(nextId - 1) : Ask(u, Request("revoke", NoOne, id))

End(u) == req' = [req EXCEPT ![u] = NoRequest]
GoTo(u, step) == req' = [req EXCEPT ![u].at = step]

\* 403 or 404, or on to the next query.
Check(u) ==
  /\ req[u].at = "check"
  /\ IF ~Permitted(u) THEN End(u)
     ELSE IF req[u].op \in {"ticket", "rename", "revoke"} THEN GoTo(u, "read")
     ELSE GoTo(u, "write")
  /\ UNCHANGED <<database, ticket, current, served, history, left, lock>>

\* Esloq.objects.get(), and get_object() on the view's queryset.
Read(u) ==
  /\ req[u].at = "read"
  /\ LET found ==
           \/ req[u].op = "ticket"
           \/ req[u].op = "rename" /\ HasAccess(u)
           \/ /\ req[u].op = "revoke"
              /\ \E v \in Users :
                   /\ HasAccess(v) /\ accesses[v].id = req[u].id
                   /\ v = u \/ IsAdmin(u)
     IN IF found THEN req' = [req EXCEPT ![u].at = "write", ![u].nonce = counter]
                 ELSE End(u)
  /\ UNCHANGED <<database, ticket, current, served, history, left, lock>>

\* Mutant: the counter is not raised.
SaveTicketSame(u) ==
  /\ req[u].op = "ticket" /\ counter' = req[u].nonce
  /\ req' = [req EXCEPT ![u].at = "reply"]
  /\ UNCHANGED <<accesses, nextId, logs>>

\* getlockticket(): save() writes every column of the row read before.
SaveTicket(u) ==
  /\ req[u].op = "ticket" /\ counter' = req[u].nonce + 1
  /\ req' = [req EXCEPT ![u].at = "reply", ![u].nonce = @ + 1]
  /\ UNCHANGED <<accesses, nextId, logs>>

\* LockSerializer.update(): the name, and the nonce read before.
SaveName(u) ==
  /\ req[u].op = "rename" /\ counter' = req[u].nonce
  /\ End(u) /\ UNCHANGED <<accesses, nextId, logs>>

\* Mutant: ids are given out again.
InsertAccessSameId(u) ==
  /\ req[u].op = "grant" /\ End(u)
  /\ accesses' = [accesses EXCEPT
       ![req[u].who] = [id |-> nextId - 1, is_admin |-> req[u].id = 1]]
  /\ UNCHANGED <<nextId, counter, logs>>

\* POST of a lock access; the table has one row for a user and a lock.
InsertAccess(u) ==
  /\ req[u].op = "grant" /\ End(u)
  /\ IF HasAccess(req[u].who) THEN UNCHANGED <<accesses, nextId>>
     ELSE /\ accesses' = [accesses EXCEPT
               ![req[u].who] = [id |-> nextId, is_admin |-> req[u].id = 1]]
          /\ nextId' = nextId + 1
  /\ UNCHANGED <<counter, logs>>

\* DELETE of a lock access: the row with the id found before, if it is there.
DeleteAccess(u) ==
  /\ req[u].op = "revoke" /\ End(u)
  /\ accesses' = [v \in Users |->
       IF accesses[v].id = req[u].id THEN NoRow ELSE accesses[v]]
  /\ UNCHANGED <<nextId, counter, logs>>

\* LockLockAccessesViewSet.destroy()
DeleteAccesses(u) ==
  /\ req[u].op = "clear" /\ End(u)
  /\ accesses' = [v \in Users |-> NoRow]
  /\ UNCHANGED <<nextId, counter, logs>>

\* POST of a log, and LockLogsViewSet.destroy()
WriteLogs(u) ==
  /\ req[u].op \in {"log", "clearlogs"} /\ End(u)
  /\ logs' = IF req[u].op = "log" THEN logs \cup {u} ELSE {}
  /\ UNCHANGED <<accesses, nextId, counter>>

Write(u) ==
  /\ req[u].at = "write"
  /\ SaveTicket(u) \/ SaveName(u) \/ InsertAccess(u) \/ DeleteAccess(u)
       \/ DeleteAccesses(u) \/ WriteLogs(u)
  /\ everAdmin' = everAdmin \cup {v \in Users : accesses'[v].is_admin}
  /\ emptied' = (emptied \/ \A v \in Users : accesses'[v].id = 0)
  /\ UNCHANGED <<ticket, current, served, left, lock>>

\* The response with the ticket reaches the phone.
Reply(u) ==
  /\ req[u].at = "reply" /\ End(u)
  /\ ticket' = [ticket EXCEPT ![u] = req[u].nonce]
  /\ UNCHANGED <<database, current, served, history, left, lock>>

\* A query or the connection fails: what was written stays.
Fail(u) ==
  /\ left > 0 /\ left' = left - 1
  /\ req[u].op # "none" /\ End(u)
  /\ UNCHANGED <<database, ticket, current, served, history, lock>>

-----------------------------------------------------------------------------
(* The phone at the lock *)

\* The phone writes its ticket.  The lock stores a newer nonce only.
Deliver(u) ==
  /\ ticket[u] # 0 /\ current = NoOne
  /\ IF ticket[u] > master THEN L!Store(ticket[u]) /\ current' = u
                           ELSE UNCHANGED <<current, lock>>
  /\ ticket' = [ticket EXCEPT ![u] = 0]
  /\ UNCHANGED <<database, req, served, history, left>>

OpenSession ==
  /\ current # NoOne /\ L!Open
  /\ served' = served \cup {current} /\ current' = NoOne
  /\ UNCHANGED <<database, req, ticket, history, left>>

\* The lock loses power: the ticket stored and not opened is lost.
Restart ==
  /\ left > 0 /\ left' = left - 1
  /\ L!Forget /\ current' = NoOne
  /\ UNCHANGED <<database, req, ticket, served, history>>

-----------------------------------------------------------------------------
Serve(u) == Check(u) \/ Read(u) \/ Write(u) \/ Reply(u)

Next ==
  \/ \E u \in Users : AskTicket(u) \/ AskOther(u) \/ Serve(u) \/ Fail(u)
                        \/ Deliver(u)
  \/ OpenSession \/ Restart

Spec == Init /\ [][Next]_vars

\* The Asker asks again, the server serves it, and its phone is at the lock.
FairSpec ==
  /\ Spec
  /\ WF_vars(AskTicket(Asker)) /\ WF_vars(Serve(Asker))
  /\ WF_vars(Deliver(Asker)) /\ WF_vars(OpenSession)

-----------------------------------------------------------------------------
Requests ==
  [op : {"none", "ticket", "rename", "grant", "revoke", "clear", "log", "clearlogs"},
   at : {"end", "check", "read", "write", "reply"},
   who : Users \cup {NoOne}, id : 0..nextId, nonce : Nat]

\* The type invariant; two users never share the id of a row, and no row has
\* an id that is still to be given out (LockAccess, models.py).
TypeOK ==
  /\ accesses \in [Users -> [id : 0..(nextId - 1), is_admin : BOOLEAN]]
  /\ \A u, v \in Users : u # v /\ HasAccess(u) => accesses[u].id # accesses[v].id
  /\ counter \in Nat /\ logs \subseteq Users
  /\ req \in [Users -> Requests] /\ ticket \in [Users -> Nat]
  /\ current \in Users \cup {NoOne}
  /\ served \subseteq Users /\ everAdmin \subseteq Users
  /\ emptied \in BOOLEAN /\ left \in 0..MaxRequests

\* Whatever requests pass their checks before a change and write after it, the
\* rows of a lock that always had users are inserted and deleted only by
\* requests of users who have been its administrators (permissions.py).
WritesByAdmins ==
  [][accesses' # accesses =>
       \/ emptied
       \/ \E u \in everAdmin : /\ req[u].op \in {"grant", "revoke", "clear"}
                               /\ req'[u].op = "none"]_vars

\* u has no access, none of its requests is past the check, and the lock is
\* past the ticket it holds.
ShutOut(u) ==
  /\ ~HasAccess(u) /\ current # u /\ ticket[u] <= master
  /\ ~(req[u].op = "ticket" /\ req[u].at # "check")

\* A user who lost access stays shut out, whatever becomes of the counter of
\* the server, until an administrator grants access again: the tickets issued
\* before are no use once the lock has taken a newer one (views.py, main.c).
RevokedStaysOut ==
  [][\A u \in Users : ShutOut(u) /\ ~HasAccess(u)' => ShutOut(u)']_vars

\* Concurrent requests and renames put the counter back, so that the lock
\* refuses a ticket; a user with access who asks again gets in nevertheless.
AskerServed == HasAccess(Asker) ~> (Asker \in served \/ ~HasAccess(Asker))
=============================================================================
