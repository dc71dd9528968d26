-------------------------- MODULE AppSession_proofs --------------------------
(***************************************************************************)
(* For any number of tickets, presses and faults: the types of AppSession, *)
(* that the app and the lock never encrypt under the same nonce of a key,  *)
(* that a button that can be pressed belongs to the session the lock has   *)
(* open, that the app never writes past the lock's buffer, and that the    *)
(* time-out of an attempt to connect ends with it.                         *)
(***************************************************************************)
EXTENDS AppSession, FiniteSetTheorems, TLAPS

-----------------------------------------------------------------------------
(* Queues: broadcasts, messages and answers.                               *)

\* A member of S is in the queue, and at most one is.
Has(q, S) == \E i \in 1..Len(q) : q[i] \in S
Once(q, S) == \A i, j \in 1..Len(q) : q[i] \in S /\ q[j] \in S => i = j

Intents ==
  {"ready", "ticketOk", "done", "disconnected", "error", "notFound", "connectivity"}
Ends == {"disconnected", "error"}
Enabling == {"ticketOk", "done"}

\* What a link brought about is followed by its end; what the time-out brought
\* about is not preceded by an answer.
Followed(q, S) ==
  \A i \in 1..Len(q) : q[i] \in S => \E j \in (i + 1)..Len(q) : q[j] \in Ends
Behind(q) ==
  \A i \in 1..Len(q) : q[i] = "notFound" => \A j \in 1..(i - 1) : q[j] \notin Enabling

-----------------------------------------------------------------------------
(* What holds whatever has crossed.                                        *)

\* The lock: a session is one of a ticket, and its nonce bounds those under
\* its key.
Numbered ==
  /\ master \in {NoKey} \cup tickets /\ nonce \in Nat /\ buffered \in Nat
  /\ opened \subseteq tickets /\ \A n \in opened : n <= master
  /\ key \in {NoKey} \cup opened
  /\ serving \in {"open", "turning"} => key # NoKey
  /\ sealed \subseteq opened \X Nat
  /\ \A n \in Nat : <<key, n>> \in sealed => n <= nonce

\* The app: its nonce bounds those under its key, one for each press.
Drawn ==
  /\ appKey \in {NoKey} \cup tickets
  /\ appSealed \subseteq tickets \X Nat
  /\ \A n \in Nat : <<appKey, n>> \in appSealed => n <= appNonce
  /\ IsFiniteSet(appSealed) /\ Cardinality(appSealed) = presses
  /\ button \/ Has(intents, Enabling) => appKey # NoKey

\* Messages are tickets of the server and requests the app has sealed; answers
\* are of a session.
Message(m, given, drawn) ==
  IF m.kind = "ticket" THEN m.nonce \in given ELSE <<m.key, m.nonce>> \in drawn
Reply(a, known) == a.key \in known /\ a.code \in Enabling
Addressed ==
  /\ \A i \in 1..Len(air) : Message(air[i], tickets, appSealed)
  /\ \A i \in 1..Len(answers) : Reply(answers[i], opened)
  /\ decoding # NoAnswer => Reply(decoding, opened)

\* The link as the app, the radio and the lock know it.
Linked ==
  /\ link = "none" => gatt # "connected"
  /\ link = "up" => gatt \in {"connecting", "connected"}
  /\ link \in {"found", "ready"} => gatt = "connected"
  /\ gatt # "none" \/ intents # <<>> => bound
  /\ link # "none" => ~gone /\ serving # "none" /\ ~Has(intents, Ends)
  /\ gone => serving # "none"
  /\ serving # "none" => link # "none" \/ gone
  /\ serving = "none" => air = <<>> /\ buffered = 0
  /\ answers # <<>> => link = "ready"
  /\ decoding # NoAnswer => link = "ready" \/ ~bound \/ "link" \in crossed

\* The time-out belongs to an attempt to connect, until the process ends.
Timed == timer => gatt = "connecting" \/ (gatt = "idle" /\ Has(intents, {"error"}))

\* Broadcasts: at most one key is asked for on a link, and its end comes last.
\* So it does after an answer, and the time-out finds no answer, unless one was
\* still being decoded when the screen was opened again.
Broadcast ==
  /\ Once(intents, Ends) /\ Once(intents, {"ready"})
  /\ link = "ready" \/ Followed(intents, {"ready"})
InOrder ==
  /\ link = "ready" \/ Followed(intents, Enabling)
  /\ Behind(intents)
  /\ gatt = "none" \/ timer => ~button /\ ~Has(intents, Enabling)
  /\ Has(intents, {"notFound"}) => ~button
Ordered == "link" \notin crossed => InOrder

\* A key is asked for once on each link, and links are lost by faults.
Counted ==
  /\ pending + orphans <= faults + 1
  /\ link # "ready" \/ Has(intents, {"ready"}) => pending + orphans <= faults
  /\ link # "ready" /\ Has(intents, {"ready"}) => pending + orphans + 1 <= faults

Base ==
  /\ TypeOK /\ Numbered /\ Drawn /\ Addressed /\ Linked /\ Timed /\ Broadcast /\ Ordered
  /\ Counted

-----------------------------------------------------------------------------
(* What holds as long as no connection is begun too early.                 *)

\* Until the lock has opened a session, a button is only enabled behind the
\* dialog.
Shield == button => dialog
Shielded ==
  "link" \notin crossed =>
    /\ gatt = "connecting" /\ link = "none" =>
         ~Has(intents, {"disconnected"}) /\ (Shield \/ Has(intents, {"error"}))
    /\ serving \in {"connected", "opening"} =>
         /\ Shield /\ ~Has(intents, Enabling)
         /\ answers = <<>> /\ decoding = NoAnswer

\* The turn under key k is the app's, the message's, the lock's or the answer's.
Armed == (button /\ ~dialog) \/ Has(intents, Enabling)
RequestsOf(k) == [kind : {"request"}, key : {k}, nonce : Nat]
AnswersOf(k) == [key : {k}, nonce : Nat, code : {"none", "ticketOk", "done"}]
Turn(k, place) ==
  \/ place = "app" /\ k = appKey /\ Armed
  \/ place = "air" /\ Has(air, RequestsOf(k))
  \/ place = "lock" /\ serving = "turning" /\ k = key
  \/ place = "back" /\ Has(answers, AnswersOf(k))
  \/ place = "decode" /\ decoding # NoAnswer /\ k = decoding.key
Places == {"app", "air", "lock", "back", "decode"}
Exclusive(k) == \A p, r \in Places : Turn(k, p) /\ Turn(k, r) => p = r
Alone == Once(intents, Enabling) /\ (button /\ ~dialog => ~Has(intents, Enabling))
InTurns ==
  /\ \A k \in tickets :
       Exclusive(k) /\ Once(air, RequestsOf(k)) /\ Once(answers, AnswersOf(k))
  /\ Alone

\* Whoever has the turn under a key, the other has encrypted nothing above its
\* nonce.
UpTo(used, k, n) == \A i \in Nat : <<k, i>> \in used => i <= n
Ahead ==
  /\ Armed => UpTo(sealed, appKey, appNonce)
  /\ \A i \in 1..Len(air) :
       air[i].kind = "request" => UpTo(appSealed, air[i].key, air[i].nonce)
  /\ serving = "turning" => UpTo(appSealed, key, nonce)
  /\ \A i \in 1..Len(answers) : UpTo(sealed, answers[i].key, answers[i].nonce)
  /\ decoding # NoAnswer => UpTo(sealed, decoding.key, decoding.nonce)

\* Nothing was sealed under a key before its session opens.
Unused(used, k) == \A i \in Nat : <<k, i>> \notin used
Unopened ==
  /\ serving = "opening" => Unused(appSealed, master)
  /\ serving = "connected" =>
       \A i \in 1..Len(air) : air[i].kind = "ticket" => Unused(appSealed, air[i].nonce)

Apart ==
  "link" \notin crossed =>
    appSealed \cap sealed = {} /\ InTurns /\ Ahead /\ Unopened

\* The turns alternate: with an answer it is at an odd nonce, with a request at
\* an even one.
Odd(n) == n % 2 = 1
Even(n) == n % 2 = 0
Alternate ==
  /\ \A s \in sealed : Odd(s[2])
  /\ \A k \in opened, n \in Nat : <<k, n>> \in appSealed => Even(n)
  /\ \A i \in 1..Len(answers) : Odd(answers[i].nonce)
  /\ decoding # NoAnswer => Odd(decoding.nonce)
  /\ Armed /\ appKey \in opened => Odd(appNonce)
  /\ serving = "turning" => Even(nonce)
Alternating == "link" \notin crossed => Alternate

-----------------------------------------------------------------------------
(* What holds as long as nothing crosses.                                  *)

\* A key is asked for once on a link that is ready, and not before.
Asked ==
  /\ link \in {"up", "found"} \/ (link = "none" /\ ~Has(intents, Ends)) => pending = 0
  /\ link = "ready" => pending = 0 \/ (pending = 1 /\ ~Has(intents, {"ready"}))

\* Until it comes, nothing is written.
Awaited ==
  link \in {"up", "found"} \/ (link = "ready" /\ (pending = 1 \/ Has(intents, {"ready"})))
    => serving = "connected" /\ air = <<>>

\* One message at a time: the ticket before the session, requests in it.
OneMessage ==
  /\ buffered = 0 /\ serving # "overrun" /\ Len(air) <= 1
  /\ air # <<>> => serving = IF air[1].kind = "ticket" THEN "connected" ELSE "open"

\* With an answer on its way, and when the app has it, the lock is at rest at
\* its nonce.
AtRest(k, n) == serving = "open" /\ air = <<>> /\ key = k /\ nonce = n
Settled ==
  link = "ready" =>
    /\ answers # <<>> =>
         /\ Len(answers) = 1 /\ AtRest(answers[1].key, answers[1].nonce)
         /\ decoding = NoAnswer
    /\ decoding # NoAnswer => AtRest(decoding.key, decoding.nonce) /\ answers = <<>>
    /\ Armed => AtRest(appKey, appNonce) /\ answers = <<>> /\ decoding = NoAnswer

Phases == crossed = {} => Asked /\ Awaited /\ OneMessage /\ Settled

\* The inductive invariant.
AppInv == Base /\ Shielded /\ Apart /\ Alternating /\ Phases

-----------------------------------------------------------------------------
(* Facts about queues.                                                     *)

LEMMA Appended ==
  ASSUME NEW T, NEW q \in Seq(T), NEW x \in T
  PROVE  /\ Append(q, x) \in Seq(T) /\ Append(q, x) # <<>>
         /\ \A S : Has(Append(q, x), S) <=> Has(q, S) \/ x \in S
         /\ \A S : Once(q, S) /\ ~(x \in S /\ Has(q, S)) => Once(Append(q, x), S)
<1> DEFINE r == Append(q, x)
<1>1. /\ r \in Seq(T) /\ Len(r) = Len(q) + 1 /\ Len(q) \in Nat
      /\ \A i \in 1..Len(q) : r[i] = q[i]
      /\ r[Len(q) + 1] = x
  OBVIOUS
<1> HIDE DEF r
<1>2. ASSUME NEW S PROVE Has(r, S) <=> Has(q, S) \/ x \in S
  BY <1>1 DEF Has
<1>3. ASSUME NEW S, Once(q, S), ~(x \in S /\ Has(q, S)) PROVE Once(r, S)
  BY <1>1, <1>3 DEF Once, Has
<1>4. r # <<>>
  BY <1>1
<1> QED
  BY <1>1, <1>2, <1>3, <1>4 DEF r

LEMMA Dropped ==
  ASSUME NEW T, NEW q \in Seq(T), q # <<>>
  PROVE  /\ Tail(q) \in Seq(T) /\ Head(q) \in T /\ Len(Tail(q)) = Len(q) - 1
         /\ \A S : Has(q, S) <=> Head(q) \in S \/ Has(Tail(q), S)
         /\ \A S : Once(q, S) => Once(Tail(q), S) /\ ~(Head(q) \in S /\ Has(Tail(q), S))
<1> DEFINE r == Tail(q)
<1>1. /\ r \in Seq(T) /\ Len(r) = Len(q) - 1 /\ Len(q) \in Nat \ {0} /\ Len(r) \in Nat
      /\ \A i \in 1..Len(r) : r[i] = q[i + 1]
      /\ Head(q) = q[1] /\ q[1] \in T
  OBVIOUS
<1> HIDE DEF r
<1>2. \A i \in 2..Len(q) : i - 1 \in 1..Len(r) /\ r[i - 1] = q[i]
  BY <1>1
<1>3. ASSUME NEW S PROVE Has(q, S) <=> Head(q) \in S \/ Has(r, S)
  <2>1. ASSUME NEW i \in 1..Len(q), q[i] \in S PROVE Head(q) \in S \/ Has(r, S)
    BY <1>1, <1>2, <2>1 DEF Has
  <2>2. ASSUME NEW i \in 1..Len(r), r[i] \in S PROVE Has(q, S)
    BY <1>1, <2>2 DEF Has
  <2> QED
    BY <1>1, <2>1, <2>2 DEF Has
<1>4. ASSUME NEW S, Once(q, S) PROVE Once(r, S) /\ ~(Head(q) \in S /\ Has(r, S))
  <2>1. ASSUME NEW i \in 1..Len(r), NEW j \in 1..Len(r), r[i] \in S, r[j] \in S PROVE i = j
    <3>1. i + 1 \in 1..Len(q) /\ j + 1 \in 1..Len(q) /\ i \in Nat /\ j \in Nat
      BY <1>1
    <3>2. i + 1 = j + 1
      BY <1>1, <1>4, <2>1, <3>1 DEF Once
    <3> QED
      BY <3>1, <3>2
  <2>2. ASSUME Head(q) \in S, NEW i \in 1..Len(r), r[i] \in S PROVE FALSE
    <3>1. i + 1 \in 1..Len(q) /\ i \in Nat /\ 1 \in 1..Len(q) /\ i >= 1
      BY <1>1
    <3>2. i + 1 = 1
      BY <1>1, <1>4, <2>2, <3>1 DEF Once
    <3> QED
      BY <3>1, <3>2
  <2> QED
    BY <2>1, <2>2 DEF Once, Has
<1> QED
  BY <1>1, <1>3, <1>4 DEF r

LEMMA Cut ==
  ASSUME NEW T, NEW q \in Seq(T), NEW r \in {q, SubSeq(q, 1, Len(q) - 1)}
  PROVE  /\ r \in Seq(T) /\ Len(r) <= Len(q) /\ \A i \in 1..Len(r) : r[i] = q[i]
         /\ \A S : Has(r, S) => Has(q, S)
         /\ \A S : Once(q, S) => Once(r, S)
<1>1. r \in Seq(T) /\ Len(r) <= Len(q) /\ Len(r) \in Nat /\ Len(q) \in Nat
      /\ \A i \in 1..Len(r) : r[i] = q[i]
  <2>1. CASE r = q
    BY <2>1
  <2>2. CASE r = SubSeq(q, 1, Len(q) - 1)
    <3>1. CASE q = <<>>
      BY <2>2, <3>1
    <3>2. CASE q # <<>>
      BY <2>2, <3>2
    <3> QED
      BY <3>1, <3>2
  <2> QED
    BY <2>1, <2>2
<1>2. 1..Len(r) \subseteq 1..Len(q)
  BY <1>1
<1> QED
  BY <1>1, <1>2 DEF Has, Once

LEMMA Nothing ==
  /\ \A S : ~Has(<<>>, S) /\ Once(<<>>, S)
  /\ (\A S : Followed(<<>>, S)) /\ Behind(<<>>)
BY DEF Has, Once, Followed, Behind

\* The order of broadcasts.
LEMMA OrderAppended ==
  ASSUME NEW q \in Seq(Intents), NEW x \in Intents
  PROVE  /\ \A S : x \in Ends /\ x \notin S => Followed(Append(q, x), S)
         /\ \A S : x \notin S /\ Followed(q, S) => Followed(Append(q, x), S)
         /\ x # "notFound" /\ Behind(q) => Behind(Append(q, x))
         /\ ~Has(q, Enabling) => Behind(Append(q, x))
<1> DEFINE r == Append(q, x)
<1>1. /\ Len(r) = Len(q) + 1 /\ Len(q) \in Nat
      /\ \A i \in 1..Len(q) : r[i] = q[i]
      /\ r[Len(q) + 1] = x
  OBVIOUS
<1> HIDE DEF r
<1>2. ASSUME NEW S, x \in Ends, x \notin S PROVE Followed(r, S)
  <2>1. \A i \in 1..Len(r) : r[i] \in S => Len(r) \in (i + 1)..Len(r)
    BY <1>1, <1>2
  <2> QED
    BY <1>1, <1>2, <2>1 DEF Followed
<1>3. ASSUME NEW S, x \notin S, Followed(q, S) PROVE Followed(r, S)
  <2> SUFFICES ASSUME NEW i \in 1..Len(r), r[i] \in S
               PROVE  \E j \in (i + 1)..Len(r) : r[j] \in Ends
    BY DEF Followed
  <2>1. i \in 1..Len(q)
    BY <1>1, <1>3
  <2>2. PICK j \in (i + 1)..Len(q) : q[j] \in Ends
    BY <1>1, <1>3, <2>1 DEF Followed
  <2> QED
    BY <1>1, <2>1, <2>2
<1>4. ASSUME x # "notFound", Behind(q) PROVE Behind(r)
  <2> SUFFICES ASSUME NEW i \in 1..Len(r), r[i] = "notFound", NEW j \in 1..(i - 1)
               PROVE  r[j] \notin Enabling
    BY DEF Behind
  <2>1. i \in 1..Len(q) /\ j \in 1..Len(q)
    BY <1>1, <1>4
  <2> QED
    BY <1>1, <1>4, <2>1 DEF Behind
<1>5. ASSUME ~Has(q, Enabling) PROVE Behind(r)
  <2> SUFFICES ASSUME NEW i \in 1..Len(r), r[i] = "notFound", NEW j \in 1..(i - 1)
               PROVE  r[j] \notin Enabling
    BY DEF Behind
  <2>1. j \in 1..Len(q)
    BY <1>1
  <2> QED
    BY <1>1, <1>5, <2>1 DEF Has
<1> QED
  BY <1>2, <1>3, <1>4, <1>5 DEF r

LEMMA OrderDropped ==
  ASSUME NEW q \in Seq(Intents), q # <<>>
  PROVE  /\ \A S : Followed(q, S) => Followed(Tail(q), S)
         /\ \A S : Followed(q, S) /\ Head(q) \in S => Has(Tail(q), Ends)
         /\ Behind(q) => Behind(Tail(q))
         /\ Behind(q) /\ Head(q) \in Enabling => ~Has(Tail(q), {"notFound"})
<1> DEFINE r == Tail(q)
<1>1. /\ Len(r) = Len(q) - 1 /\ Len(q) \in Nat \ {0} /\ Len(r) \in Nat
      /\ \A i \in 1..Len(r) : r[i] = q[i + 1]
      /\ Head(q) = q[1]
  OBVIOUS
<1> HIDE DEF r
<1>2. ASSUME NEW S, Followed(q, S) PROVE Followed(r, S)
  <2> SUFFICES ASSUME NEW i \in 1..Len(r), r[i] \in S
               PROVE  \E j \in (i + 1)..Len(r) : r[j] \in Ends
    BY DEF Followed
  <2>1. i + 1 \in 1..Len(q) /\ q[i + 1] = r[i]
    BY <1>1
  <2>2. PICK j \in (i + 2)..Len(q) : q[j] \in Ends
    BY <1>1, <1>2, <2>1 DEF Followed
  <2>3. j - 1 \in (i + 1)..Len(r) /\ r[j - 1] = q[j]
    BY <1>1, <2>2
  <2> QED
    BY <2>2, <2>3
<1>3. ASSUME NEW S, Followed(q, S), Head(q) \in S PROVE Has(r, Ends)
  <2>1. PICK j \in 2..Len(q) : q[j] \in Ends
    BY <1>1, <1>3 DEF Followed
  <2>2. j - 1 \in 1..Len(r) /\ r[j - 1] = q[j]
    BY <1>1, <2>1
  <2> QED
    BY <2>1, <2>2 DEF Has
<1>4. ASSUME Behind(q) PROVE Behind(r)
  <2> SUFFICES ASSUME NEW i \in 1..Len(r), r[i] = "notFound", NEW j \in 1..(i - 1)
               PROVE  r[j] \notin Enabling
    BY DEF Behind
  <2>1. i + 1 \in 1..Len(q) /\ j + 1 \in 1..((i + 1) - 1) /\ j \in 1..Len(r)
    BY <1>1
  <2> QED
    BY <1>1, <1>4, <2>1 DEF Behind
<1>5. ASSUME Behind(q), Head(q) \in Enabling PROVE ~Has(r, {"notFound"})
  <2> SUFFICES ASSUME NEW i \in 1..Len(r), r[i] = "notFound" PROVE FALSE
    BY DEF Has
  <2>1. i + 1 \in 1..Len(q) /\ 1 \in 1..((i + 1) - 1) /\ q[i + 1] = "notFound"
    BY <1>1
  <2> QED
    BY <1>1, <1>5, <2>1 DEF Behind
<1> QED
  BY <1>2, <1>3, <1>4, <1>5 DEF r

LEMMA NotFollowed ==
  ASSUME NEW q \in Seq(Intents), NEW S, Followed(q, S), ~Has(q, Ends)
  PROVE  ~Has(q, S)
<1>1. \A i \in 1..Len(q) : q[i] \notin S
  <2> SUFFICES ASSUME NEW i \in 1..Len(q), q[i] \in S PROVE FALSE
    OBVIOUS
  <2>1. PICK j \in (i + 1)..Len(q) : q[j] \in Ends
    BY DEF Followed
  <2>2. j \in 1..Len(q)
    BY <2>1
  <2> QED
    BY <2>1, <2>2 DEF Has
<1> QED
  BY <1>1 DEF Has

-----------------------------------------------------------------------------
(* What the app and the lock do not touch.                                 *)

\* The actions of the app and the radio, and those of the lock.
Radio ==
  LinkUp \/ OnConnected \/ OnServicesDiscovered \/ OnDescriptorWrite \/ LinkLost \/ ConnectFails
Screen ==
  \/ OnBindService \/ OnUnbindService \/ ConnectTimeout \/ Connectivity
  \/ OnReceive \/ SessionKeyLost
Crashes == OnError \/ OnSessionKeyCrash \/ PressCrash

LEMMA Steps ==
  ASSUME Next
  PROVE  Radio \/ Screen \/ Crashes \/ Binder \/ Firmware \/ Restart \/ OnSessionKey \/ Press
BY DEF Next, Ui, Radio, Screen, Crashes

\* What only the lock changes.
LEMMA LockKept ==
  ASSUME Radio \/ Screen \/ Crashes \/ Binder \/ OnSessionKey \/ Press
  PROVE  /\ UNCHANGED <<master, key, nonce, opened, rotated, sealed, buffered>>
         /\ serving' = serving \/ (LinkUp /\ serving = "none" /\ serving' = "connected")
<1> USE DEF lock, device
<1>1. CASE Radio
  BY <1>1 DEF Radio, LinkUp, OnConnected, OnServicesDiscovered, OnDescriptorWrite,
     LinkLost, ConnectFails, ReportEnd
<1>2. CASE Screen
  BY <1>2 DEF Screen, OnBindService, OnUnbindService, ConnectTimeout, Connectivity, OnReceive,
     SessionKeyLost
<1>3. CASE Crashes
  BY <1>3 DEF Crashes, OnError, OnSessionKeyCrash, PressCrash, Crash
<1>4. CASE Binder
  BY <1>4 DEF Binder, SetSessionNonce, Decrypt
<1>5. CASE OnSessionKey \/ Press
  BY <1>5 DEF OnSessionKey, Press
<1> QED
  BY <1>1, <1>2, <1>3, <1>4, <1>5

\* What only the server's answers and presses change.
LEMMA TicketsKept ==
  ASSUME Radio \/ Screen \/ Binder \/ Firmware \/ Restart \/ OnError \/ OnSessionKeyCrash \/ Press
  PROVE  UNCHANGED tickets
<1> USE DEF history
<1>1. CASE Radio
  BY <1>1 DEF Radio, LinkUp, OnConnected, OnServicesDiscovered, OnDescriptorWrite,
     LinkLost, ConnectFails, ReportEnd
<1>2. CASE Screen
  BY <1>2 DEF Screen, OnBindService, OnUnbindService, ConnectTimeout, Connectivity, OnReceive,
     SessionKeyLost, OnAnswered, OnReconnect, OnReady
<1>3. CASE OnError \/ OnSessionKeyCrash
  BY <1>3 DEF OnError, OnSessionKeyCrash
<1>4. CASE Binder
  BY <1>4 DEF Binder, SetSessionNonce, Decrypt
<1>5. CASE Firmware
  BY <1>5 DEF Firmware, TakeTicket, OpenTicket, TakeRequest, AnswerRequest, Buffer, SeeLinkLost
<1>6. CASE Restart \/ Press
  BY <1>6 DEF Restart, Press
<1> QED
  BY <1>1, <1>2, <1>3, <1>4, <1>5, <1>6

\* What has crossed: a connection begun for a broadcast of the connectivity or
\* of the end of the last link, or with an answer still being decoded.
LEMMA CrossedGrows ==
  ASSUME Next
  PROVE  /\ crossed \subseteq crossed'
         /\ \/ crossed' = crossed \/ (OnReceive /\ OnReconnect(Head(intents)))
            \/ OnBindService /\ (decoding # NoAnswer => "link" \in crossed')
<1> USE DEF history
<1>1. CASE Radio \/ Binder \/ Firmware \/ Restart \/ OnSessionKey \/ Press
  BY <1>1 DEF Radio, LinkUp, OnConnected, OnServicesDiscovered, OnDescriptorWrite, LinkLost,
     ConnectFails, Binder, SetSessionNonce, Decrypt, Firmware, TakeTicket, OpenTicket, TakeRequest,
     AnswerRequest, Buffer, SeeLinkLost, Restart, OnSessionKey, Press
<1>2. CASE Screen
  BY <1>2 DEF Screen, OnBindService, OnUnbindService, ConnectTimeout, Connectivity, OnReceive,
     SessionKeyLost, OnAnswered, OnReconnect, OnReady, Crossing
<1>3. CASE Crashes
  BY <1>3 DEF Crashes, OnError, OnSessionKeyCrash, PressCrash
<1> QED
  BY <1>1, <1>2, <1>3, Steps

\* The message the lock takes.
LEMMA Arrived ==
  ASSUME TypeOK, air # <<>>
  PROVE  /\ 1 \in 1..Len(air) /\ Received = air[1] /\ air[1] \in Messages
         /\ air[1].nonce \in Nat /\ air[1].key \in 0..MaxTickets
<1>1. 1 \in 1..Len(air) /\ air[1] \in Messages /\ Received = air[1]
  BY DEF TypeOK, Received
<1> QED
  BY <1>1 DEF Messages

-----------------------------------------------------------------------------
(* Numbered.                                                               *)

LEMMA NumberedStep == ASSUME Base, Next PROVE Numbered'
<1> USE DEF Base, NoKey
<1>1. CASE Radio \/ Screen \/ Binder \/ Crashes \/ Press \/ OnSessionKey
  <2>1. tickets \subseteq tickets'
    <3>1. CASE PressCrash
      BY <3>1 DEF PressCrash
    <3>2. CASE OnSessionKey
      BY <3>2 DEF OnSessionKey
    <3> QED
      BY <1>1, <3>1, <3>2, TicketsKept DEF Crashes
  <2> QED
    BY <1>1, <2>1, LockKept DEF Numbered
<1>2. CASE Restart
  <2>1. key' = 0 /\ nonce' = 0 /\ UNCHANGED <<master, opened, rotated, sealed>>
    BY <1>2 DEF Restart, L!Forget, L!NoKey
  <2>2. serving' = "none" /\ buffered' = 0 /\ tickets' = tickets
    BY <1>2 DEF Restart
  <2>3. \A n \in Nat : <<key', n>> \notin sealed'
    <3>1. 0 \notin opened
      BY DEF Numbered, TypeOK
    <3> QED
      BY <2>1, <3>1 DEF Numbered
  <2> QED
    BY <2>1, <2>2, <2>3 DEF Numbered
<1>3. CASE TakeTicket
  <2>1. UNCHANGED <<nonce, key, opened, sealed, tickets, buffered>>
    BY <1>3 DEF TakeTicket, L!Store, lock, history
  <2>2. master' = master \/ (master' = air[1].nonce /\ master' > master /\ air # <<>>
                             /\ air[1].kind = "ticket")
    BY <1>3 DEF TakeTicket, L!Store, lock, Received
  <2>3. master' \in {0} \cup tickets /\ master' >= master
    <3>2. master' \in {0} \cup tickets
      BY <2>2, Arrived DEF Numbered, Addressed, Message
    <3>3. master \in Nat /\ master' \in Nat
      BY <3>2 DEF Numbered, TypeOK
    <3> QED
      BY <2>2, <3>2, <3>3
  <2>4. \A n \in opened : n <= master'
    <3>1. master \in Nat /\ master' \in Nat /\ \A n \in opened : n \in Nat
      BY <2>3 DEF Numbered, TypeOK
    <3> QED
      BY <2>3, <3>1 DEF Numbered
  <2>5. serving' \in {serving, "opening"}
    BY <1>3 DEF TakeTicket
  <2> QED
    BY <2>1, <2>3, <2>4, <2>5 DEF Numbered
<1>4. CASE OpenTicket
  <2>1. /\ key' = master /\ nonce' = 1 /\ master # 0 /\ master' = master
        /\ \A n \in opened : n < master
        /\ opened' = opened \cup {master} /\ sealed' = sealed \cup {<<master, 1>>}
        /\ UNCHANGED <<tickets, buffered>>
    BY <1>4 DEF OpenTicket, L!Open, history
  <2>2. \A n \in Nat : <<key', n>> \in sealed' => n = 1
    <3>1. master \notin opened
      BY <2>1 DEF Numbered, TypeOK
    <3> QED
      BY <2>1, <3>1 DEF Numbered
  <2>3. master \in tickets /\ master \in Nat
    BY <2>1 DEF Numbered, TypeOK
  <2>4. opened' \subseteq tickets' /\ \A n \in opened' : n <= master'
    BY <2>1, <2>3 DEF Numbered
  <2>5. sealed' \subseteq opened' \X Nat
    BY <2>1 DEF Numbered
  <2>6. key' \in opened' /\ key' # 0
    BY <2>1
  <2>7. \A n \in Nat : <<key', n>> \in sealed' => n <= nonce'
    BY <2>1, <2>2
  <2>8. nonce' \in Nat /\ buffered' \in Nat /\ master' \in {0} \cup tickets'
    BY <2>1 DEF Numbered
  <2> QED
    BY <2>4, <2>5, <2>6, <2>7, <2>8 DEF Numbered
<1>5. CASE TakeRequest
  <2>1. UNCHANGED <<master, key, opened, sealed, tickets, buffered>>
    BY <1>5 DEF TakeRequest, L!Rotate, L!Take, lock, history
  <2>2. nonce' = nonce \/ (nonce' = air[1].nonce /\ nonce' > nonce /\ air # <<>>)
    BY <1>5 DEF TakeRequest, L!Rotate, L!Take, lock, Received
  <2>3. serving' \in {"open", "turning"} /\ serving = "open"
    BY <1>5 DEF TakeRequest
  <2>4. nonce' \in Nat /\ nonce' >= nonce
    BY <2>2, Arrived DEF Numbered
  <2> QED
    BY <2>1, <2>3, <2>4 DEF Numbered
<1>6. CASE AnswerRequest
  <2>1. /\ nonce' = nonce + 1 /\ sealed' = sealed \cup {<<key, nonce + 1>>}
        /\ UNCHANGED <<master, key, opened, tickets, buffered>> /\ key \in opened
        /\ serving = "turning"
    BY <1>6 DEF AnswerRequest, L!Respond, history
  <2>2. \A n \in Nat : <<key', n>> \in sealed' => n <= nonce'
    BY <2>1 DEF Numbered
  <2> QED
    BY <2>1, <2>2 DEF Numbered
<1>7. CASE Buffer \/ SeeLinkLost
  <2>1. UNCHANGED <<master, key, nonce, opened, sealed, tickets>>
        /\ serving' \in {serving, "overrun", "none"}
    BY <1>7 DEF Buffer, SeeLinkLost, lock, history
  <2>2. buffered' \in Nat
    BY <1>7 DEF Buffer, SeeLinkLost, Length, TICKET_LEN, REQUEST_LEN, Numbered
  <2> QED
    BY <2>1, <2>2 DEF Numbered
<1> QED
  BY <1>1, <1>2, <1>3, <1>4, <1>5, <1>6, <1>7, Steps DEF Firmware

-----------------------------------------------------------------------------
(* Drawn.                                                                  *)

LEMMA Typed ==
  ASSUME TypeOK
  PROVE  /\ intents \in Seq(Intents) /\ air \in Seq(Messages) /\ answers \in Seq(Answers)
         /\ decoding \in Answers
BY DEF TypeOK, Intents

\* What OnReceive() takes from the queue.
LEMMA Taken ==
  ASSUME TypeOK, OnReceive
  PROVE  /\ intents # <<>> /\ intents' = Tail(intents) /\ Head(intents) \in Intents
         /\ intents' \in Seq(Intents)
         /\ \A S : Has(intents, S) <=> Head(intents) \in S \/ Has(intents', S)
         /\ \A S : Once(intents, S) =>
              Once(intents', S) /\ ~(Head(intents) \in S /\ Has(intents', S))
<1>1. intents # <<>> /\ intents' = Tail(intents)
  BY DEF OnReceive
<1> QED
  BY <1>1, Typed, Dropped

\* A broadcast of something else than an answer enables nothing.
LEMMA NotEnabling ==
  ASSUME TypeOK, NEW x \in Intents \ Enabling, intents' = Append(intents, x)
  PROVE  Has(intents', Enabling) <=> Has(intents, Enabling)
BY Typed, Appended

LEMMA Plain == {"ready", "disconnected", "error", "notFound", "connectivity"} = Intents \ Enabling
BY DEF Intents, Enabling

\* Answers alone enable the buttons.
LEMMA NewlyEnabled ==
  ASSUME TypeOK, Next, button' \/ Has(intents', Enabling)
  PROVE  \/ button \/ Has(intents, Enabling)
         \/ Decrypt /\ decoding # NoAnswer /\ decoding.key = appKey
<1> USE DEF app
<1>1. CASE Radio
  <2>1. CASE OnDescriptorWrite
    BY <2>1, NotEnabling, Plain DEF OnDescriptorWrite
  <2>2. CASE LinkLost \/ ConnectFails
    <3>1. PICK x \in {"disconnected", "error"} : intents' = Append(intents, x)
      BY <2>2 DEF LinkLost, ConnectFails, ReportEnd
    <3> QED
      BY <2>2, <3>1, NotEnabling, Plain DEF LinkLost, ConnectFails
  <2> QED
    BY <1>1, <2>1, <2>2 DEF Radio, LinkUp, OnConnected, OnServicesDiscovered
<1>2. CASE OnReceive
  <2>1. CASE Head(intents) \in Enabling
    BY <1>2, <2>1, Taken
  <2>2. CASE Head(intents) \notin Enabling
    <3>1. button' => button
      BY <1>2, <2>2 DEF OnReceive, OnAnswered, OnReconnect, OnReady, Enabling
    <3> QED
      BY <1>2, <3>1, Taken
  <2> QED
    BY <2>1, <2>2
<1>3. CASE ConnectTimeout
  <2>1. button' = button
    BY <1>3 DEF ConnectTimeout
  <2>2. \/ intents' = Append(intents, "notFound")
        \/ intents' = Append(Append(intents, "notFound"), "disconnected")
    BY <1>3, Typed DEF ConnectTimeout
  <2>3. Has(intents', Enabling) => Has(intents, Enabling)
    <3>1. /\ Append(intents, "notFound") \in Seq(Intents)
          /\ Has(Append(intents, "notFound"), Enabling) <=> Has(intents, Enabling)
      BY Typed, Appended, Plain
    <3>2. "disconnected" \in Intents \ Enabling
      BY Plain
    <3>3. Has(Append(Append(intents, "notFound"), "disconnected"), Enabling)
            <=> Has(Append(intents, "notFound"), Enabling)
      BY <3>1, <3>2, Appended
    <3> QED
      BY <2>2, <3>1, <3>3
  <2> QED
    BY <2>1, <2>3
<1>4. CASE Connectivity
  BY <1>4, NotEnabling, Plain DEF Connectivity
<1>5. CASE OnBindService \/ OnUnbindService \/ SessionKeyLost
  BY <1>5, Nothing DEF OnBindService, OnUnbindService, SessionKeyLost
<1>6. CASE Crashes
  BY <1>6, Nothing DEF Crashes, OnError, OnSessionKeyCrash, PressCrash, Crash
<1>7. CASE SetSessionNonce \/ Firmware
  BY <1>7 DEF SetSessionNonce, Firmware, TakeTicket, OpenTicket, TakeRequest, AnswerRequest,
     Buffer, SeeLinkLost
<1>8. CASE Decrypt
  BY <1>8 DEF Decrypt
<1>9. CASE Restart
  BY <1>9, NotEnabling, Plain DEF Restart, ReportEnd
<1>10. CASE OnSessionKey \/ Press
  BY <1>10 DEF OnSessionKey, Press
<1> QED
  BY <1>1, <1>2, <1>3, <1>4, <1>5, <1>6, <1>7, <1>8, <1>9, <1>10, Steps DEF Screen, Binder

LEMMA DrawnStep == ASSUME Base, Next PROVE Drawn'
<1> USE DEF NoKey
<1>1. /\ appKey \in {0} \cup tickets /\ appSealed \subseteq tickets \X Nat
      /\ \A n \in Nat : <<appKey, n>> \in appSealed => n <= appNonce
      /\ IsFiniteSet(appSealed) /\ Cardinality(appSealed) = presses
      /\ button \/ Has(intents, Enabling) => appKey # 0
      /\ 0 \notin tickets /\ appNonce \in Nat /\ presses \in Nat
  BY DEF Base, Drawn, TypeOK
<1>2. ASSUME appKey' = appKey, appSealed' = appSealed, presses' = presses, tickets' = tickets,
             appNonce' \in Nat, appNonce' >= appNonce
      PROVE  Drawn'
  <2>1. button' \/ Has(intents', Enabling) => appKey' # 0
    <3>1. decoding # NoAnswer => decoding.key # 0
      BY <1>1 DEF Base, Addressed, Reply, Numbered
    <3> QED
      BY <1>1, <1>2, <3>1, NewlyEnabled DEF Base
  <2>2. \A n \in Nat : <<appKey', n>> \in appSealed' => n <= appNonce'
    BY <1>1, <1>2
  <2> QED
    BY <1>1, <1>2, <2>1, <2>2 DEF Drawn
<1>3. ASSUME appKey' = 0, appSealed' = appSealed, presses' = presses, tickets' = tickets,
             button' = FALSE, intents' = <<>>
      PROVE  Drawn'
  BY <1>1, <1>3, Nothing DEF Drawn
<1>4. CASE Radio \/ Screen \/ Decrypt \/ Firmware \/ Restart
  <2>1. UNCHANGED <<appKey, appNonce>>
    BY <1>4 DEF Radio, LinkUp, OnConnected, OnServicesDiscovered, OnDescriptorWrite,
       LinkLost, ConnectFails, ReportEnd,
       Screen, OnBindService, OnUnbindService, ConnectTimeout, Connectivity, OnReceive,
       SessionKeyLost, Decrypt, Firmware, TakeTicket, OpenTicket, TakeRequest, AnswerRequest,
       Buffer, SeeLinkLost, Restart, crypto
  <2>2. UNCHANGED <<appSealed, presses>>
    BY <1>4 DEF Radio, LinkUp, OnConnected, OnServicesDiscovered, OnDescriptorWrite,
       LinkLost, ConnectFails, ReportEnd,
       Screen, OnBindService, OnUnbindService, ConnectTimeout, Connectivity, OnReceive,
       SessionKeyLost, Decrypt, Firmware, TakeTicket, OpenTicket, TakeRequest, AnswerRequest,
       Buffer, SeeLinkLost, Restart, history, OnAnswered, OnReconnect, OnReady
  <2>3. UNCHANGED tickets
    BY <1>4, TicketsKept DEF Binder
  <2> QED
    BY <1>1, <1>2, <2>1, <2>2, <2>3
<1>5. CASE SetSessionNonce
  <2>1. UNCHANGED <<appKey, appSealed, presses, tickets>>
    BY <1>5 DEF SetSessionNonce, history
  <2>2. appNonce' = appNonce \/ (answers # <<>> /\ appNonce' = Head(answers).nonce
                                   /\ appNonce' > appNonce)
    BY <1>5 DEF SetSessionNonce
  <2>3. answers # <<>> => Head(answers).nonce \in Nat
    <3>1. answers # <<>> => Head(answers) \in Answers
      BY Typed, Dropped DEF Base
    <3> QED
      BY <3>1 DEF Answers
  <2> QED
    BY <1>1, <1>2, <2>1, <2>2, <2>3
<1>6. CASE OnError \/ OnSessionKeyCrash
  BY <1>3, <1>6 DEF OnError, OnSessionKeyCrash, Crash, history
<1>7. CASE PressCrash \/ Press
  <2>1. /\ appSealed' = appSealed \cup {<<appKey, appNonce + 1>>}
        /\ presses' = presses + 1 /\ button /\ tickets' = tickets
    BY <1>7 DEF PressCrash, Press, AuthEncrypt
  <2>2. <<appKey, appNonce + 1>> \notin appSealed
    BY <1>1
  <2>3. IsFiniteSet(appSealed') /\ Cardinality(appSealed') = presses'
    BY <1>1, <2>1, <2>2, FS_AddElement
  <2>4. appKey \in tickets
    BY <1>1, <2>1
  <2>5. appSealed' \subseteq tickets' \X Nat
    BY <1>1, <2>1, <2>4
  <2>6. CASE Press
    <3>1. appKey' = appKey /\ appNonce' = appNonce + 1
      BY <2>6 DEF Press, AuthEncrypt
    <3>2. \A n \in Nat : <<appKey', n>> \in appSealed' => n <= appNonce'
      BY <1>1, <2>1, <3>1
    <3> QED
      BY <1>1, <2>1, <2>3, <2>4, <2>5, <3>1, <3>2 DEF Drawn
  <2>7. CASE PressCrash
    <3>1. appKey' = 0 /\ button' = FALSE /\ intents' = <<>>
      BY <2>7 DEF PressCrash, Crash
    <3>2. \A n \in Nat : <<appKey', n>> \notin appSealed'
      BY <1>1, <2>1, <2>5, <3>1
    <3> QED
      BY <2>1, <2>3, <2>4, <2>5, <3>1, <3>2, Nothing DEF Drawn
  <2> QED
    BY <1>7, <2>6, <2>7
<1>8. CASE OnSessionKey
  <2>1. PICK n \in 1..MaxTickets \ tickets : tickets' = tickets \cup {n} /\ SetSessionKey(n)
    BY <1>8 DEF OnSessionKey
  <2>2. appKey' = n /\ appNonce' = 0 /\ UNCHANGED <<appSealed, presses>>
    BY <1>8, <2>1 DEF OnSessionKey, SetSessionKey
  <2>3. \A i \in Nat : <<appKey', i>> \notin appSealed'
    BY <1>1, <2>1, <2>2
  <2>4. appKey' # 0 /\ appKey' \in tickets' /\ appSealed' \subseteq tickets' \X Nat
    BY <1>1, <2>1, <2>2
  <2> QED
    BY <1>1, <2>2, <2>3, <2>4 DEF Drawn
<1> QED
  BY <1>4, <1>5, <1>6, <1>7, <1>8, Steps DEF Crashes, Binder

-----------------------------------------------------------------------------
(* What is added to the queues, and what is not.                           *)

\* r is left of q.
Part(r, q, T) ==
  /\ r \in Seq(T) /\ Len(r) <= Len(q)
  /\ \A i \in 1..Len(r) : \E j \in 1..Len(q) : r[i] = q[j]
  /\ \A S : Has(r, S) => Has(q, S)
  /\ \A S : Once(q, S) => Once(r, S)

LEMMA Left ==
  ASSUME NEW T, NEW q \in Seq(T)
  PROVE  /\ Part(q, q, T) /\ Part(<<>>, q, T)
         /\ \A r \in {q, SubSeq(q, 1, Len(q) - 1)} : Part(r, q, T)
         /\ q # <<>> => Part(Tail(q), q, T)
<1>1. \A r \in {q, SubSeq(q, 1, Len(q) - 1)} : Part(r, q, T)
  <2> SUFFICES ASSUME NEW r \in {q, SubSeq(q, 1, Len(q) - 1)} PROVE Part(r, q, T)
    OBVIOUS
  <2>1. /\ r \in Seq(T) /\ Len(r) <= Len(q) /\ \A i \in 1..Len(r) : r[i] = q[i]
        /\ \A S : Has(r, S) => Has(q, S)
        /\ \A S : Once(q, S) => Once(r, S)
    BY Cut
  <2>2. Len(q) \in Nat /\ Len(r) \in Nat
    BY <2>1
  <2>3. \A i \in 1..Len(r) : i \in 1..Len(q)
    BY <2>1, <2>2
  <2> QED
    BY <2>1, <2>3 DEF Part
<1>2. Part(<<>>, q, T)
  BY Nothing DEF Part
<1>3. ASSUME q # <<>> PROVE Part(Tail(q), q, T)
  <2>1. /\ Tail(q) \in Seq(T) /\ Len(Tail(q)) = Len(q) - 1 /\ Len(q) \in Nat
        /\ \A i \in 1..Len(Tail(q)) : Tail(q)[i] = q[i + 1]
    BY <1>3
  <2>2. \A i \in 1..Len(Tail(q)) : i + 1 \in 1..Len(q)
    BY <2>1
  <2>3. \A S : (Has(Tail(q), S) => Has(q, S)) /\ (Once(q, S) => Once(Tail(q), S))
    BY <1>3, Dropped
  <2> QED
    BY <2>1, <2>2, <2>3 DEF Part
<1> QED
  BY <1>1, <1>2, <1>3

\* Messages are sent with a session key and with a press.
LEMMA AirKept ==
  ASSUME TypeOK, Radio \/ Screen \/ Crashes \/ Binder \/ Firmware \/ Restart
  PROVE  Part(air', air, Messages)
<1> USE Typed, Left DEF device
<1>1. CASE Radio
  BY <1>1 DEF Radio, LinkUp, OnConnected, OnServicesDiscovered, OnDescriptorWrite,
     LinkLost, ConnectFails, ReportEnd,
     LinkEnds
<1>2. CASE Screen
  <2>1. CASE OnUnbindService \/ ConnectTimeout
    BY <2>1 DEF OnUnbindService, ConnectTimeout, LinkEnds, LinkStays
  <2> QED
    BY <1>2, <2>1 DEF Screen, OnBindService, Connectivity, OnReceive, SessionKeyLost
<1>3. CASE Crashes
  BY <1>3 DEF Crashes, OnError, OnSessionKeyCrash, PressCrash, Crash, LinkEnds
<1>4. CASE Binder
  BY <1>4 DEF Binder, SetSessionNonce, Decrypt
<1>5. CASE Firmware
  <2>1. air' = air \/ (air # <<>> /\ air' = Tail(air))
    BY <1>5 DEF Firmware, TakeTicket, OpenTicket, TakeRequest, AnswerRequest, Buffer, SeeLinkLost
  <2> QED
    BY <2>1
<1>6. CASE Restart
  BY <1>6 DEF Restart
<1> QED
  BY <1>1, <1>2, <1>3, <1>4, <1>5, <1>6

LEMMA TicketSent ==
  ASSUME Base, OnSessionKey
  PROVE  \E m \in Messages :
           /\ m.kind = "ticket" /\ m.nonce = appKey' /\ m.key = appKey'
           /\ air' = IF link \in {"found", "ready"} THEN Append(air, m) ELSE air
           /\ appKey' \in 1..MaxTickets \ tickets /\ tickets' = tickets \cup {appKey'}
           /\ appNonce' = 0
<1>1. PICK n \in 1..MaxTickets \ tickets :
        /\ tickets' = tickets \cup {n} /\ SetSessionKey(n)
        /\ WriteCharacteristic("ticket", n)
  BY DEF OnSessionKey
<1> DEFINE m == [kind |-> "ticket", key |-> n, nonce |-> n]
<1>2. m \in Messages
  BY AppSessionAssumption DEF Messages
<1> QED
  BY <1>1, <1>2 DEF SetSessionKey, WriteCharacteristic

LEMMA RequestSent ==
  ASSUME Base, Press
  PROVE  /\ appKey' = appKey /\ appNonce' = appNonce + 1 /\ appKey \in tickets
         /\ appSealed' = appSealed \cup {<<appKey, appNonce + 1>>}
         /\ \E m \in Messages :
              /\ m.kind = "request" /\ m.nonce = appNonce' /\ m.key = appKey
              /\ air' = IF link \in {"found", "ready"} THEN Append(air, m) ELSE air
<1>1. /\ appKey' = appKey /\ appNonce' = appNonce + 1
      /\ appSealed' = appSealed \cup {<<appKey, appNonce + 1>>}
      /\ WriteCharacteristic("request", appNonce') /\ button
  BY DEF Press, AuthEncrypt
<1> DEFINE m == [kind |-> "request", key |-> appKey, nonce |-> appNonce + 1]
<1>2. m \in Messages
  BY DEF Messages, Base, TypeOK
<1>3. appKey \in tickets
  BY <1>1 DEF Base, Drawn, NoKey
<1> QED
  BY <1>1, <1>2, <1>3 DEF WriteCharacteristic

\* Answers are sent when a ticket is opened and when a request is answered.
LEMMA AnswersKept ==
  ASSUME TypeOK, Next, ~OpenTicket, ~AnswerRequest
  PROVE  Part(answers', answers, Answers)
<1> USE Typed, Left DEF device
<1>1. CASE Radio
  BY <1>1 DEF Radio, LinkUp, OnConnected, OnServicesDiscovered, OnDescriptorWrite,
     LinkLost, ConnectFails, ReportEnd,
     LinkEnds
<1>2. CASE Screen
  BY <1>2 DEF Screen, OnBindService, OnUnbindService, ConnectTimeout, Connectivity, OnReceive,
     SessionKeyLost, LinkEnds, LinkStays
<1>3. CASE Crashes
  BY <1>3 DEF Crashes, OnError, OnSessionKeyCrash, PressCrash, Crash, LinkEnds
<1>4. CASE Binder
  BY <1>4 DEF Binder, SetSessionNonce, Decrypt
<1>5. CASE Firmware
  BY <1>5 DEF Firmware, TakeTicket, OpenTicket, TakeRequest, AnswerRequest, Buffer, SeeLinkLost
<1>6. CASE Restart \/ OnSessionKey \/ Press
  BY <1>6 DEF Restart, OnSessionKey, Press
<1> QED
  BY <1>1, <1>2, <1>3, <1>4, <1>5, <1>6, Steps

LEMMA Answered ==
  ASSUME Base, OpenTicket \/ AnswerRequest
  PROVE  /\ key' \in opened' /\ nonce' \in Nat /\ opened \subseteq opened'
         /\ sealed' = sealed \cup {<<key', nonce'>>}
         /\ \E a \in Answers :
              /\ a.key = key' /\ a.nonce = nonce' /\ a.code \in Enabling
              /\ answers' = IF link = "ready" /\ ~gone THEN Append(answers, a) ELSE answers
<1>1. CASE OpenTicket
  <2>1. /\ key' = master /\ nonce' = 1 /\ master # NoKey
        /\ opened' = opened \cup {master} /\ sealed' = sealed \cup {<<master, 1>>}
        /\ Answer(master, 1, "ticketOk")
    BY <1>1 DEF OpenTicket, L!Open, NoKey
  <2> DEFINE a == [key |-> master, nonce |-> 1, code |-> "ticketOk"]
  <2>2. a \in Answers /\ a.code \in Enabling
    BY <2>1 DEF Answers, Base, Numbered, TypeOK, Enabling, NoKey
  <2> QED
    BY <2>1, <2>2 DEF Answer
<1>2. CASE AnswerRequest
  <2>1. /\ key' = key /\ nonce' = nonce + 1 /\ key \in opened /\ opened' = opened
        /\ sealed' = sealed \cup {<<key, nonce + 1>>} /\ nonce \in Nat
        /\ Answer(key, nonce + 1, "done")
    BY <1>2 DEF AnswerRequest, L!Respond, Base, Numbered
  <2> DEFINE a == [key |-> key, nonce |-> nonce + 1, code |-> "done"]
  <2>2. a \in Answers /\ a.code \in Enabling
    BY <2>1 DEF Answers, Base, Numbered, TypeOK, Enabling, NoKey
  <2> QED
    BY <2>1, <2>2 DEF Answer
<1> QED
  BY <1>1, <1>2

\* What is taken for decoding.
LEMMA Decoded ==
  ASSUME TypeOK, Next
  PROVE  \/ decoding' = decoding
         \/ decoding' = NoAnswer
         \/ SetSessionNonce /\ decoding' = Head(answers) /\ answers # <<>>
              /\ Head(answers).nonce > appNonce /\ appNonce' = Head(answers).nonce
<1> USE DEF crypto
<1>1. CASE Radio
  BY <1>1 DEF Radio, LinkUp, OnConnected, OnServicesDiscovered, OnDescriptorWrite,
     LinkLost, ConnectFails, ReportEnd
<1>2. CASE Screen
  BY <1>2 DEF Screen, OnBindService, OnUnbindService, ConnectTimeout, Connectivity, OnReceive,
     SessionKeyLost
<1>3. CASE Crashes
  BY <1>3 DEF Crashes, OnError, OnSessionKeyCrash, PressCrash, Crash
<1>4. CASE Binder
  BY <1>4 DEF Binder, SetSessionNonce, Decrypt
<1>5. CASE Firmware
  BY <1>5 DEF Firmware, TakeTicket, OpenTicket, TakeRequest, AnswerRequest, Buffer, SeeLinkLost
<1>6. CASE Restart \/ OnSessionKey \/ Press
  BY <1>6 DEF Restart, OnSessionKey, Press
<1> QED
  BY <1>1, <1>2, <1>3, <1>4, <1>5, <1>6, Steps

-----------------------------------------------------------------------------
(* Addressed.                                                              *)

\* What the app encrypts under: at a press alone.
LEMMA SealedKept ==
  ASSUME Radio \/ Screen \/ Binder \/ Firmware \/ Restart \/ OnError \/ OnSessionKeyCrash
           \/ OnSessionKey
  PROVE  UNCHANGED appSealed
<1> USE DEF history
<1>1. CASE Radio
  BY <1>1 DEF Radio, LinkUp, OnConnected, OnServicesDiscovered, OnDescriptorWrite,
     LinkLost, ConnectFails, ReportEnd
<1>2. CASE Screen
  BY <1>2 DEF Screen, OnBindService, OnUnbindService, ConnectTimeout, Connectivity, OnReceive,
     SessionKeyLost, OnAnswered, OnReconnect, OnReady
<1>3. CASE OnError \/ OnSessionKeyCrash
  BY <1>3 DEF OnError, OnSessionKeyCrash
<1>4. CASE Binder
  BY <1>4 DEF Binder, SetSessionNonce, Decrypt
<1>5. CASE Firmware
  BY <1>5 DEF Firmware, TakeTicket, OpenTicket, TakeRequest, AnswerRequest, Buffer, SeeLinkLost
<1>6. CASE Restart \/ OnSessionKey
  BY <1>6 DEF Restart, OnSessionKey
<1> QED
  BY <1>1, <1>2, <1>3, <1>4, <1>5, <1>6

\* What the lock has opened and sealed: nothing but its answers adds to it.
LEMMA OpenedKept ==
  ASSUME Next, ~OpenTicket, ~AnswerRequest
  PROVE  UNCHANGED <<opened, sealed>>
<1>1. CASE Firmware
  BY <1>1 DEF Firmware, TakeTicket, TakeRequest, Buffer, SeeLinkLost, L!Store, L!Rotate, L!Take, lock
<1>2. CASE Restart
  BY <1>2 DEF Restart, L!Forget
<1> QED
  BY <1>1, <1>2, Steps, LockKept

LEMMA Grown ==
  ASSUME Base, Next
  PROVE  tickets \subseteq tickets' /\ appSealed \subseteq appSealed' /\ opened \subseteq opened'
<1>1. tickets \subseteq tickets' /\ appSealed \subseteq appSealed'
  <2>1. CASE OnSessionKey
    BY <2>1, SealedKept DEF OnSessionKey
  <2>2. CASE Press \/ PressCrash
    BY <2>2, TicketsKept DEF Press, PressCrash, AuthEncrypt
  <2> QED
    BY <2>1, <2>2, Steps, SealedKept, TicketsKept DEF Crashes
<1>2. opened \subseteq opened'
  BY Answered, OpenedKept
<1> QED
  BY <1>1, <1>2

LEMMA AddressedStep == ASSUME Base, Next PROVE Addressed'
<1> USE Grown
<1>1. /\ \A i \in 1..Len(air) : Message(air[i], tickets, appSealed)
      /\ \A i \in 1..Len(answers) : Reply(answers[i], opened)
      /\ decoding # NoAnswer => Reply(decoding, opened)
      /\ TypeOK
  BY DEF Base, Addressed
<1>2. \A i \in 1..Len(air') : Message(air'[i], tickets', appSealed')
  <2>1. \A i \in 1..Len(air) : Message(air[i], tickets', appSealed')
    BY <1>1 DEF Message
  <2>2. CASE Part(air', air, Messages)
    BY <2>1, <2>2 DEF Part
  <2>3. ASSUME NEW m \in Messages, air' = Append(air, m), Message(m, tickets', appSealed')
        PROVE  \A i \in 1..Len(air') : Message(air'[i], tickets', appSealed')
    <3>1. /\ Len(air') = Len(air) + 1 /\ Len(air) \in Nat
          /\ \A i \in 1..Len(air) : air'[i] = air[i]
          /\ air'[Len(air) + 1] = m
      BY <2>3, <1>1, Typed
    <3> QED
      BY <2>1, <2>3, <3>1
  <2>4. CASE OnSessionKey
    BY <2>1, <2>3, <2>4, TicketSent DEF Message
  <2>5. CASE Press
    <3>1. PICK m \in Messages :
            /\ m.kind = "request" /\ m.nonce = appNonce' /\ m.key = appKey
            /\ air' = IF link \in {"found", "ready"} THEN Append(air, m) ELSE air
      BY <2>5, RequestSent
    <3>2. Message(m, tickets', appSealed')
      BY <2>5, <3>1, RequestSent DEF Message
    <3> QED
      BY <2>1, <2>3, <3>1, <3>2
  <2> QED
    BY <1>1, <2>2, <2>4, <2>5, Steps, AirKept
<1>3. \A i \in 1..Len(answers') : Reply(answers'[i], opened')
  <2>1. \A i \in 1..Len(answers) : Reply(answers[i], opened')
    BY <1>1 DEF Reply
  <2>2. CASE Part(answers', answers, Answers)
    BY <2>1, <2>2 DEF Part
  <2>3. CASE OpenTicket \/ AnswerRequest
    <3>1. PICK a \in Answers :
            /\ a.key = key' /\ a.nonce = nonce' /\ a.code \in Enabling
            /\ answers' = IF link = "ready" /\ ~gone THEN Append(answers, a) ELSE answers
      BY <2>3, Answered
    <3>2. Reply(a, opened')
      BY <2>3, <3>1, Answered DEF Reply
    <3>3. CASE answers' = Append(answers, a)
      <4>1. /\ Len(answers') = Len(answers) + 1 /\ Len(answers) \in Nat
            /\ \A i \in 1..Len(answers) : answers'[i] = answers[i]
            /\ answers'[Len(answers) + 1] = a
        BY <3>3, <1>1, Typed
      <4> QED
        BY <2>1, <3>2, <4>1
    <3> QED
      BY <2>1, <3>1, <3>3
  <2> QED
    BY <1>1, <2>2, <2>3, AnswersKept
<1>4. decoding' # NoAnswer => Reply(decoding', opened')
  <2>1. answers # <<>> => Reply(Head(answers), opened')
    BY <1>1, Typed DEF Reply
  <2>2. decoding # NoAnswer => Reply(decoding, opened')
    BY <1>1 DEF Reply
  <2> QED
    BY <1>1, <2>1, <2>2, Decoded
<1> QED
  BY <1>2, <1>3, <1>4 DEF Addressed

-----------------------------------------------------------------------------
(* Linked.                                                                 *)

LEMMA Contained ==
  ASSUME NEW T, NEW q \in Seq(T), NEW x
  PROVE  Contains(q, x) <=> Has(q, {x})
BY DEF Contains, Has

LEMMA NoEnds ==
  ASSUME NEW T, NEW q \in Seq(T)
  PROVE  Has(q, Ends) <=> Has(q, {"disconnected"}) \/ Has(q, {"error"})
BY DEF Has, Ends

\* The time-out's broadcasts.
LEMMA TimedOut ==
  ASSUME TypeOK, ConnectTimeout
  PROVE  /\ intents' = IF link = "none" THEN Append(intents, "notFound")
                       ELSE Append(Append(intents, "notFound"), "disconnected")
         /\ intents' # <<>> /\ intents' \in Seq(Intents)
         /\ Append(intents, "notFound") \in Seq(Intents)
         /\ \A S : Has(intents', S) <=>
              Has(intents, S) \/ "notFound" \in S \/ (link # "none" /\ "disconnected" \in S)
<1>1. intents' = IF link = "none" THEN Append(intents, "notFound")
                 ELSE Append(Append(intents, "notFound"), "disconnected")
  BY Typed DEF ConnectTimeout
<1>2. "notFound" \in Intents /\ "disconnected" \in Intents
  BY DEF Intents
<1>3. /\ Append(intents, "notFound") \in Seq(Intents) /\ Append(intents, "notFound") # <<>>
      /\ \A S : Has(Append(intents, "notFound"), S) <=> Has(intents, S) \/ "notFound" \in S
  BY <1>2, Typed, Appended
<1> DEFINE q == Append(intents, "notFound")
<1> HIDE DEF q
<1>4. /\ Append(q, "disconnected") \in Seq(Intents) /\ Append(q, "disconnected") # <<>>
      /\ \A S : Has(Append(q, "disconnected"), S) <=> Has(q, S) \/ "disconnected" \in S
  BY <1>2, <1>3, Appended DEF q
<1> QED
  BY <1>1, <1>3, <1>4 DEF q

\* A broadcast of x.
LEMMA Queued ==
  ASSUME TypeOK, NEW x \in Intents, intents' = Append(intents, x)
  PROVE  /\ intents' # <<>> /\ intents' \in Seq(Intents)
         /\ \A S : Has(intents', S) <=> Has(intents, S) \/ x \in S
         /\ \A S : Once(intents, S) /\ ~(x \in S /\ Has(intents, S)) => Once(intents', S)
BY Typed, Appended

LEMMA LinkedStep == ASSUME Base, Next PROVE Linked'
<1>1. TypeOK /\ Linked
  BY DEF Base
<1>2. ~Has(<<>>, Ends)
  BY Nothing
<1>0. crossed \subseteq crossed'
  BY CrossedGrows
<1> USE <1>0, <1>1 DEF app, crypto, bluetooth, device
<1>3a. link # "none" => bound
  BY DEF Linked, TypeOK
<1>3. CASE Radio
  <2>1. CASE LinkUp
    <3>1. ~Has(intents, Ends)
      BY <2>1, Typed, Contained, NoEnds DEF LinkUp
    <3> QED
      BY <2>1, <3>1 DEF LinkUp, Linked
  <2>2. CASE OnConnected \/ OnServicesDiscovered
    BY <2>2 DEF OnConnected, OnServicesDiscovered, Linked
  <2>3. CASE OnDescriptorWrite
    <3>1. Has(intents', Ends) <=> Has(intents, Ends)
      BY <2>3, Queued DEF OnDescriptorWrite, Intents, Ends
    <3> QED
      BY <2>3, <3>1 DEF OnDescriptorWrite, Linked
  <2>4. CASE LinkLost
    <3>1. link' = "none" /\ gatt' = "idle" /\ UNCHANGED <<bound, serving, buffered, decoding>>
          /\ gone' = TRUE /\ answers' = <<>> /\ link # "none" /\ decoding = NoAnswer
      BY <2>4 DEF LinkLost, LinkEnds, ReportEnd
    <3> QED
      BY <1>3a, <3>1 DEF Linked
  <2>5. CASE ConnectFails
    <3>1. link = "none" /\ gatt = "connecting" /\ gatt' = "idle"
          /\ UNCHANGED <<bound, serving, buffered, decoding, link, gone, air, answers>>
      BY <2>5 DEF ConnectFails, ReportEnd
    <3> QED
      BY <3>1 DEF Linked
  <2> QED
    BY <1>3, <2>1, <2>2, <2>3, <2>4, <2>5 DEF Radio
<1>4. ASSUME LinkEnds, bound' \/ (gatt' = "none" /\ intents' = <<>>), gatt' # "connected",
             decoding' # NoAnswer => ~bound' \/ "link" \in crossed',
             UNCHANGED <<serving, buffered>>
      PROVE  Linked'
  <2>1. link' = "none" /\ answers' = <<>> /\ gone' = (gone \/ link # "none")
    BY <1>4 DEF LinkEnds
  <2>2. air = <<>> => air' = <<>>
    BY <1>4 DEF LinkEnds
  <2> QED
    BY <1>4, <2>1, <2>2 DEF Linked
<1>5. CASE Screen
  <2>1. CASE OnBindService
    <3>1. "link" \in crossed' \/ decoding' = NoAnswer
      BY <2>1 DEF OnBindService
    <3>2. UNCHANGED <<intents, link, answers, gone, air, serving, buffered>> /\ bound'
      BY <2>1 DEF OnBindService
    <3>3. gatt' = gatt \/ (link = "none" /\ gatt' = "connecting")
      BY <2>1 DEF OnBindService, Connect
    <3> QED
      BY <3>1, <3>2, <3>3 DEF Linked
  <2>2. CASE OnUnbindService
    BY <1>4, <2>2 DEF OnUnbindService
  <2>3. CASE ConnectTimeout
    <3>1. CASE link = "none"
      <4>1. UNCHANGED <<link, answers, gone, air, serving, buffered, decoding, bound>>
            /\ gatt' = "idle" /\ bound
        BY <2>3, <3>1 DEF ConnectTimeout, LinkStays, Linked, Timed, Base
      <4> QED
        BY <3>1, <4>1 DEF Linked
    <3>2. CASE link # "none"
      <4>1. LinkEnds /\ bound' /\ gatt' = "idle" /\ UNCHANGED <<serving, buffered, decoding>>
        BY <2>3, <3>2 DEF ConnectTimeout, Linked, Timed, Base
      <4>2. decoding # NoAnswer => "link" \in crossed
        BY <2>3, <3>2, <4>1 DEF ConnectTimeout, Linked, Timed, Base
      <4> QED
        BY <1>4, <4>1, <4>2
    <3> QED
      BY <3>1, <3>2
  <2>4. CASE Connectivity
    <3>1. Has(intents', Ends) <=> Has(intents, Ends)
      BY <2>4, Queued DEF Connectivity, Intents, Ends
    <3> QED
      BY <2>4, <3>1 DEF Connectivity, Linked
  <2>5. CASE SessionKeyLost
    BY <2>5 DEF SessionKeyLost, Linked
  <2>6. CASE OnReceive
    <3>1. bound /\ (Has(intents', Ends) => Has(intents, Ends))
      BY <2>6, Taken DEF Linked
    <3>2. UNCHANGED <<bound, decoding, answers, link, gone, air, serving, buffered>>
      BY <2>6 DEF OnReceive, OnAnswered, OnReconnect, OnReady
    <3>3. gatt' = gatt \/ (link = "none" /\ gatt' = "connecting")
      BY <2>6 DEF OnReceive, OnAnswered, OnReconnect, OnReady, Connect
    <3> QED
      BY <3>1, <3>2, <3>3 DEF Linked
  <2> QED
    BY <1>5, <2>1, <2>2, <2>3, <2>4, <2>5, <2>6 DEF Screen
<1>6. CASE Crashes
  BY <1>4, <1>6 DEF Crashes, OnError, OnSessionKeyCrash, PressCrash, Crash
<1>7. CASE Binder
  <2>1. CASE SetSessionNonce
    BY <2>1 DEF SetSessionNonce, Linked
  <2>2. CASE Decrypt
    <3>1. /\ UNCHANGED <<bound, gatt, link, answers, gone, air, serving, buffered>>
          /\ decoding' = NoAnswer
          /\ intents' = intents \/ (intents' = Append(intents, decoding.code) /\ bound
                                     /\ decoding.code \in Enabling)
      BY <2>2 DEF Decrypt, Base, Addressed, Reply
    <3>2. Has(intents', Ends) <=> Has(intents, Ends)
      BY <3>1, Queued DEF Intents, Ends, Enabling
    <3> QED
      BY <3>1, <3>2 DEF Linked
  <2> QED
    BY <1>7, <2>1, <2>2 DEF Binder
<1>8. CASE Firmware
  <2>1. UNCHANGED <<bound, gatt, link, intents, decoding>>
    BY <1>8 DEF Firmware, TakeTicket, OpenTicket, TakeRequest, AnswerRequest, Buffer, SeeLinkLost
  <2>2. CASE SeeLinkLost
    BY <2>1, <2>2 DEF SeeLinkLost, Linked
  <2>3. CASE ~SeeLinkLost
    <3>1. gone' = gone /\ serving # "none" /\ serving' # "none"
      BY <1>8, <2>3 DEF Firmware, TakeTicket, OpenTicket, TakeRequest, AnswerRequest, Buffer
    <3>2. answers' = answers \/ link = "ready"
      BY <1>8, <2>3, Answered DEF Firmware, TakeTicket, TakeRequest, Buffer
    <3> QED
      BY <2>1, <3>1, <3>2 DEF Linked
  <2> QED
    BY <2>2, <2>3
<1>9. CASE Restart
  <2>1. CASE link = "none"
    BY <1>9, <2>1 DEF Restart, Linked
  <2>2. CASE link # "none"
    BY <1>3a, <1>9, <2>2 DEF Restart, ReportEnd, Linked
  <2> QED
    BY <2>1, <2>2
<1>10. CASE OnSessionKey \/ Press
  <2>1. UNCHANGED <<bound, gatt, link, intents, decoding, gone, answers, serving, buffered>>
    BY <1>10 DEF OnSessionKey, Press
  <2>2. air' = air \/ link # "none"
    BY <1>10, TicketSent, RequestSent
  <2> QED
    BY <2>1, <2>2 DEF Linked
<1> QED
  BY <1>3, <1>5, <1>6, <1>7, <1>8, <1>9, <1>10, Steps

-----------------------------------------------------------------------------
(* Timed.                                                                  *)

LEMMA TimedStep == ASSUME Base, Next PROVE Timed'
<1> USE DEF app, crypto, bluetooth, device
<1> DEFINE Failed == Has(intents, {"error"})
<1>1. /\ TypeOK /\ intents \in Seq(Intents)
      /\ timer => gatt = "connecting" \/ (gatt = "idle" /\ Failed)
      /\ link = "none" => gatt # "connected"
      /\ link = "up" => gatt \in {"connecting", "connected"}
      /\ link \in {"found", "ready"} => gatt = "connected"
      /\ link \in {"none", "up", "found", "ready"}
      /\ gatt # "none" => bound
  BY Typed DEF Base, Timed, Linked, TypeOK
<1>2. ASSUME ~timer' PROVE Timed'
  BY <1>2 DEF Timed
<1>3. ASSUME timer' = timer, gatt' = gatt, Failed => Failed' PROVE Timed'
  BY <1>1, <1>3 DEF Timed
<1>4. ASSUME NEW x \in Intents, intents' = Append(intents, x) PROVE (Failed \/ x = "error") => Failed'
  BY <1>1, <1>4, Queued
<1>5. CASE OnConnected \/ OnUnbindService \/ ConnectTimeout \/ Crashes
  BY <1>2, <1>5 DEF OnConnected, OnUnbindService, ConnectTimeout, Crashes, OnError,
     OnSessionKeyCrash, PressCrash, Crash
<1>6. CASE LinkUp \/ OnServicesDiscovered \/ SetSessionNonce \/ Firmware \/ OnSessionKey
           \/ SessionKeyLost \/ Press
  <2>1. UNCHANGED <<timer, gatt, intents>>
    BY <1>6 DEF LinkUp, OnServicesDiscovered, SetSessionNonce, Firmware, TakeTicket, OpenTicket,
       TakeRequest, AnswerRequest, Buffer, SeeLinkLost, OnSessionKey, SessionKeyLost, Press
  <2> QED
    BY <1>3, <2>1
<1>7. CASE OnDescriptorWrite \/ Connectivity \/ Decrypt
  <2>1. UNCHANGED <<timer, gatt>>
    BY <1>7 DEF OnDescriptorWrite, Connectivity, Decrypt
  <2>2. intents' = intents \/ \E x \in Intents : intents' = Append(intents, x)
    <3>1. {"ready", "connectivity"} \subseteq Intents
      BY DEF Intents
    <3>2. decoding # NoAnswer => decoding.code \in Intents
      BY DEF Base, Addressed, Reply, Enabling, Intents
    <3> QED
      BY <1>7, <3>1, <3>2 DEF OnDescriptorWrite, Connectivity, Decrypt
  <2> QED
    BY <1>3, <1>4, <2>1, <2>2
<1>8. CASE LinkLost \/ ConnectFails \/ (Restart /\ link # "none")
  <2>1. PICK x \in {"disconnected", "error"} : ReportEnd(x)
    BY <1>8 DEF LinkLost, ConnectFails, Restart
  <2>2. x \in Intents
    BY <2>1 DEF Intents
  <2>3. gatt' = "idle" /\ (timer' => x = "error") /\ intents' = Append(intents, x)
    BY <2>1 DEF ReportEnd
  <2> QED
    BY <1>4, <2>2, <2>3 DEF Timed
<1>9. CASE Restart /\ link = "none"
  <2>1. UNCHANGED <<timer, gatt, intents>>
    BY <1>9 DEF Restart
  <2> QED
    BY <1>3, <2>1
<1>10. ASSUME Connect, Failed => Failed' PROVE Timed'
  BY <1>1, <1>10 DEF Connect, Timed
<1>11. CASE OnBindService
  <2>1. intents' = intents /\ (Connect \/ UNCHANGED <<gatt, timer>>)
    BY <1>11 DEF OnBindService
  <2> QED
    BY <1>3, <1>10, <2>1
<1>12. CASE OnReceive
  <2>1. Failed => Failed'
    <3>1. Head(intents) # "error"
      BY <1>12 DEF OnReceive, OnReconnect, OnReady
    <3> QED
      BY <1>1, <1>12, <3>1, Taken
  <2>2. Connect \/ UNCHANGED <<gatt, timer>>
    BY <1>12 DEF OnReceive, OnAnswered, OnReconnect, OnReady
  <2> QED
    BY <1>3, <1>10, <2>1, <2>2
<1> QED
  BY <1>5, <1>6, <1>7, <1>8, <1>9, <1>11, <1>12, Steps DEF Radio, Screen, Binder

-----------------------------------------------------------------------------
(* Broadcast.                                                              *)

\* An answer decoded is broadcast to a screen that is there.
LEMMA Decrypted ==
  ASSUME Base, Decrypt
  PROVE  /\ decoding # NoAnswer /\ decoding' = NoAnswer /\ decoding.code \in Enabling
         /\ gatt' = gatt /\ timer' = timer
         /\ \/ intents' = intents
            \/ intents' = Append(intents, decoding.code) /\ decoding.code \in Intents
                 /\ decoding.key = appKey /\ decoding.nonce = appNonce /\ bound
         /\ bound /\ "link" \notin crossed => link = "ready" /\ gatt = "connected" /\ ~timer
BY DEF Decrypt, Base, Addressed, Reply, Linked, Timed, TypeOK, Intents, Enabling, bluetooth

\* Who changes no broadcast and no button.
LEMMA Unseen ==
  ASSUME Base, LinkUp \/ OnConnected \/ OnServicesDiscovered \/ SetSessionNonce \/ Firmware
               \/ OnSessionKey \/ SessionKeyLost
  PROVE  /\ UNCHANGED <<intents, button, dialog, bound, online>>
         /\ gatt' \in {gatt, "connected"} /\ (gatt' = "none" => gatt = "none")
         /\ (timer' => timer) /\ (link' = "ready" <=> link = "ready")
         /\ (link # "none" => link' # "none")
<1> USE DEF app, crypto, bluetooth, device
<1>1. CASE LinkUp \/ OnConnected \/ OnServicesDiscovered
  BY <1>1 DEF LinkUp, OnConnected, OnServicesDiscovered
<1>2. CASE SetSessionNonce \/ OnSessionKey \/ SessionKeyLost
  BY <1>2 DEF SetSessionNonce, OnSessionKey, SessionKeyLost
<1>3. CASE Firmware
  BY <1>3 DEF Firmware, TakeTicket, OpenTicket, TakeRequest, AnswerRequest, Buffer, SeeLinkLost
<1> QED
  BY <1>1, <1>2, <1>3

LEMMA BroadcastStep == ASSUME Base, Next PROVE Broadcast'
<1> USE DEF app, crypto, bluetooth, device
<1>1. TypeOK /\ intents \in Seq(Intents)
  BY Typed DEF Base
<1>2. /\ Once(intents, Ends) /\ Once(intents, {"ready"})
      /\ link = "ready" \/ Followed(intents, {"ready"})
      /\ link # "none" => ~Has(intents, Ends)
  BY DEF Base, Broadcast, Linked
<1>3. ASSUME intents' = <<>> PROVE Broadcast'
  BY <1>3, Nothing DEF Broadcast
<1>4. ASSUME intents' = intents, link = "ready" => link' = "ready" PROVE Broadcast'
  BY <1>2, <1>4 DEF Broadcast
\* Something is broadcast that is no time-out.
<1>5. ASSUME NEW x \in Intents, intents' = Append(intents, x), x \in Ends => ~Has(intents, Ends),
             x = "ready" => link' = "ready" /\ link # "ready" /\ link # "none",
             x \notin Ends /\ link = "ready" => link' = "ready"
      PROVE  Broadcast'
  <2>1. \A S : Once(intents, S) /\ ~(x \in S /\ Has(intents, S)) => Once(intents', S)
    BY <1>1, <1>5, Queued
  <2>2. Once(intents', Ends)
    BY <1>2, <1>5, <2>1
  <2>3. Once(intents', {"ready"})
    BY <1>1, <1>2, <1>5, <2>1, NotFollowed
  <2>4. link' = "ready" \/ Followed(intents', {"ready"})
    <3>1. CASE x \in Ends
      <4>1. x \notin {"ready"}
        BY <3>1 DEF Ends
      <4> QED
        BY <1>1, <1>5, <3>1, <4>1, OrderAppended
    <3>2. CASE x \notin Ends /\ x # "ready"
      BY <1>1, <1>2, <1>5, <3>2, OrderAppended
    <3> QED
      BY <1>5, <3>1, <3>2
  <2> QED
    BY <2>2, <2>3, <2>4 DEF Broadcast
<1>6. CASE LinkUp \/ OnConnected \/ OnServicesDiscovered \/ SetSessionNonce \/ Firmware
           \/ OnSessionKey \/ SessionKeyLost
  <2>1. intents' = intents /\ (link = "ready" => link' = "ready")
    BY <1>6, Unseen
  <2> QED
    BY <1>4, <2>1
<1>7. CASE OnDescriptorWrite
  <2>1. intents' = Append(intents, "ready") /\ link' = "ready" /\ link = "found"
    BY <1>7 DEF OnDescriptorWrite
  <2>2. "ready" \notin Ends /\ "ready" \in Intents
    BY DEF Ends, Intents
  <2> QED
    BY <1>5, <2>1, <2>2
<1>8. CASE LinkLost \/ ConnectFails \/ (Restart /\ link # "none")
  <2>1. PICK x \in {"disconnected", "error"} : intents' = Append(intents, x)
    BY <1>8 DEF LinkLost, ConnectFails, Restart, ReportEnd
  <2>2. ~Has(intents, Ends)
    BY <1>1, <1>2, <1>8, Contained, NoEnds DEF LinkLost, ConnectFails
  <2>3. x \in Ends /\ x # "ready" /\ x \in Intents
    BY <2>1 DEF Ends, Intents
  <2> QED
    BY <1>5, <2>1, <2>2, <2>3
<1>9. CASE (Restart /\ link = "none") \/ Press \/ OnBindService
  <2>1. UNCHANGED <<intents>> /\ (link = "ready" => link' = "ready")
    BY <1>9 DEF Restart, Press, OnBindService
  <2> QED
    BY <1>4, <2>1
<1>10. CASE Connectivity \/ Decrypt
  <2>1. link' = link
    BY <1>10 DEF Connectivity, Decrypt
  <2>2. \/ intents' = intents
        \/ \E x \in Intents : x \notin Ends /\ x # "ready" /\ intents' = Append(intents, x)
    <3>1. "connectivity" \in Intents /\ "connectivity" \notin Ends
      BY DEF Intents, Ends
    <3>2. decoding.code \in Enabling => decoding.code \notin Ends /\ decoding.code # "ready"
      BY DEF Enabling, Ends
    <3> QED
      BY <1>10, <3>1, <3>2, Decrypted DEF Connectivity
  <2> QED
    BY <1>4, <1>5, <2>1, <2>2
<1>11. CASE OnUnbindService \/ Crashes
  BY <1>3, <1>11 DEF OnUnbindService, Crashes, OnError, OnSessionKeyCrash, PressCrash, Crash
<1>12. CASE ConnectTimeout
  <2>1. link # "ready" /\ timer
    BY <1>12 DEF ConnectTimeout, Base, Timed, Linked
  <2> DEFINE q == Append(intents, "notFound")
  <2>2. "notFound" \in Intents /\ "notFound" \notin Ends /\ "notFound" \notin {"ready"}
        /\ "disconnected" \in Intents /\ "disconnected" \in Ends /\ "disconnected" \notin {"ready"}
    BY DEF Intents, Ends
  <2>3. /\ q \in Seq(Intents) /\ Followed(q, {"ready"})
        /\ \A S : Has(q, S) <=> Has(intents, S) \/ "notFound" \in S
        /\ \A S : Once(intents, S) /\ ~("notFound" \in S /\ Has(intents, S)) => Once(q, S)
    BY <1>1, <1>2, <2>1, <2>2, Appended, OrderAppended
  <2>4. intents' = IF link = "none" THEN q ELSE Append(q, "disconnected")
    BY <1>1, <1>12, TimedOut
  <2>5. Once(q, Ends) /\ Once(q, {"ready"})
    BY <1>2, <2>2, <2>3
  <2> HIDE DEF q
  <2>6. CASE link = "none"
    BY <2>3, <2>4, <2>5, <2>6 DEF Broadcast
  <2>7. CASE link # "none"
    <3>1. Followed(intents', {"ready"})
      BY <2>2, <2>3, <2>4, <2>7, OrderAppended
    <3>2. ~Has(q, Ends)
      BY <1>2, <2>2, <2>3, <2>7
    <3>3. Once(intents', Ends) /\ Once(intents', {"ready"})
      BY <2>2, <2>3, <2>4, <2>5, <2>7, <3>2, Appended
    <3> QED
      BY <3>1, <3>3 DEF Broadcast
  <2> QED
    BY <2>6, <2>7
<1>13. CASE OnReceive
  <2>1. /\ Once(intents', Ends) /\ Once(intents', {"ready"})
        /\ (Followed(intents, {"ready"}) => Followed(intents', {"ready"}))
    BY <1>1, <1>2, <1>13, Taken, OrderDropped
  <2>2. link' = link
    BY <1>13 DEF OnReceive, OnAnswered, OnReconnect, OnReady
  <2> QED
    BY <1>2, <2>1, <2>2 DEF Broadcast
<1> QED
  BY <1>6, <1>7, <1>8, <1>9, <1>10, <1>11, <1>12, <1>13, Steps DEF Radio, Screen, Binder

-----------------------------------------------------------------------------
(* Ordered.                                                                *)

LEMMA OrderedStep == ASSUME Base, Next PROVE Ordered'
<1> USE DEF app, crypto, bluetooth, device
<1> SUFFICES ASSUME "link" \notin crossed' PROVE InOrder'
  BY DEF Ordered
<1>1. TypeOK /\ intents \in Seq(Intents)
  BY Typed DEF Base
<1>2. /\ link = "ready" \/ Followed(intents, Enabling)
      /\ Behind(intents)
      /\ gatt = "none" \/ timer => ~button /\ ~Has(intents, Enabling)
      /\ Has(intents, {"notFound"}) => ~button
      /\ "link" \notin crossed
  BY CrossedGrows DEF Base, Ordered, InOrder
<1>3. ASSUME intents' = <<>>, button' = FALSE PROVE InOrder'
  BY <1>3, Nothing DEF InOrder
<1>4. ASSUME intents' = intents, button' => button, link = "ready" => link' = "ready",
             gatt' = "none" \/ timer' => gatt = "none" \/ timer
      PROVE  InOrder'
  BY <1>2, <1>4 DEF InOrder
\* Something is broadcast that is no answer and no time-out.
<1>5. ASSUME NEW x \in {"ready", "disconnected", "error", "connectivity"},
             intents' = Append(intents, x),
             x \notin Ends /\ link = "ready" => link' = "ready",
             gatt' = "none" \/ timer' => gatt = "none" \/ timer, button' = button
      PROVE  InOrder'
  <2>1. x \in Intents /\ x \notin Enabling
    BY Plain
  <2>2. \A S : Has(intents', S) <=> Has(intents, S) \/ x \in S
    BY <1>1, <1>5, <2>1, Queued
  <2>3. Behind(intents')
    BY <1>1, <1>2, <1>5, <2>1, OrderAppended
  <2>4. link' = "ready" \/ Followed(intents', Enabling)
    BY <1>1, <1>2, <1>5, <2>1, OrderAppended
  <2>5. gatt' = "none" \/ timer' => ~button' /\ ~Has(intents', Enabling)
    BY <1>2, <1>5, <2>1, <2>2
  <2>6. Has(intents', {"notFound"}) => ~button'
    BY <1>2, <1>5, <2>2
  <2> QED
    BY <2>3, <2>4, <2>5, <2>6 DEF InOrder
<1>6. CASE LinkUp \/ OnConnected \/ OnServicesDiscovered \/ SetSessionNonce \/ Firmware
           \/ OnSessionKey \/ SessionKeyLost
  <2>1. /\ intents' = intents /\ (button' => button) /\ (link = "ready" => link' = "ready")
        /\ (gatt' = "none" \/ timer' => gatt = "none" \/ timer)
    BY <1>6, Unseen
  <2> QED
    BY <1>4, <2>1
<1>7. CASE OnDescriptorWrite
  <2>1. /\ intents' = Append(intents, "ready") /\ link' = "ready"
        /\ UNCHANGED <<gatt, timer, button>>
    BY <1>7 DEF OnDescriptorWrite
  <2> QED
    BY <1>5, <2>1
<1>8. CASE LinkLost \/ ConnectFails \/ (Restart /\ link # "none")
  <2>1. PICK x \in {"disconnected", "error"} : ReportEnd(x)
    BY <1>8 DEF LinkLost, ConnectFails, Restart
  <2>2. button' = button /\ gatt' = "idle" /\ (timer' => timer) /\ intents' = Append(intents, x)
    BY <1>8, <2>1 DEF LinkLost, ConnectFails, Restart, ReportEnd
  <2>3. x \in Ends
    BY <2>1 DEF Ends
  <2> QED
    BY <1>5, <2>2, <2>3
<1>9. CASE Restart /\ link = "none"
  <2>1. UNCHANGED <<gatt, timer, intents, button>>
    BY <1>9 DEF Restart
  <2> QED
    BY <1>4, <1>9, <2>1
<1>10. CASE Connectivity
  <2>1. UNCHANGED <<button, gatt, timer, link>>
        /\ intents' \in {intents, Append(intents, "connectivity")}
    BY <1>10 DEF Connectivity
  <2> QED
    <3>1. CASE intents' = intents
      BY <1>4, <2>1, <3>1
    <3>2. CASE intents' = Append(intents, "connectivity")
      BY <1>5, <2>1, <3>2
    <3> QED
      BY <2>1, <3>1, <3>2
<1>11. CASE OnBindService
  <2>1. ~bound /\ button' = FALSE /\ UNCHANGED <<intents, link>>
    BY <1>11 DEF OnBindService
  <2>2. intents = <<>>
    BY <2>1 DEF Base, Linked
  <2> QED
    BY <1>3, <2>1, <2>2
<1>12. CASE OnUnbindService \/ Crashes
  BY <1>3, <1>12 DEF OnUnbindService, Crashes, OnError, OnSessionKeyCrash, PressCrash, Crash
<1>13. CASE Press
  <2>1. UNCHANGED <<gatt, timer, link, intents>> /\ button' = FALSE
    BY <1>13 DEF Press
  <2> QED
    BY <1>4, <2>1
\* The answer comes on the link it was sent on.
<1>14. CASE Decrypt
  <2>1. UNCHANGED <<button, link>>
    BY <1>14 DEF Decrypt
  <2>2. CASE intents' = intents
    BY <1>4, <1>14, <2>1, <2>2, Decrypted
  <2>3. CASE intents' = Append(intents, decoding.code) /\ decoding.code \in Intents /\ bound
    <3>1. \A S : Has(intents', S) <=> Has(intents, S) \/ decoding.code \in S
      BY <1>1, <2>3, Queued
    <3>2. decoding.code # "notFound"
      BY <1>14, Decrypted DEF Enabling
    <3>3. Behind(intents')
      BY <1>1, <1>2, <2>3, <3>2, OrderAppended
    <3>4. link' = "ready" /\ gatt' # "none" /\ ~timer'
      BY <1>2, <1>14, <2>1, <2>3, Decrypted
    <3>5. Has(intents', {"notFound"}) => ~button'
      BY <1>2, <2>1, <3>1, <3>2
    <3> QED
      BY <3>3, <3>4, <3>5 DEF InOrder
  <2> QED
    BY <1>14, <2>2, <2>3, Decrypted
<1>15. CASE ConnectTimeout
  <2>1. ~button /\ ~Has(intents, Enabling) /\ button' = button /\ ~timer' /\ gatt' = "idle"
        /\ link # "ready"
    BY <1>1, <1>2, <1>15 DEF ConnectTimeout, TypeOK, Base, Timed, Linked
  <2>2. intents' \in Seq(Intents)
        /\ \A S : Has(intents', S) <=>
             Has(intents, S) \/ "notFound" \in S \/ (link # "none" /\ "disconnected" \in S)
    BY <1>1, <1>15, TimedOut
  <2>3. ~Has(intents', Enabling)
    BY <2>1, <2>2 DEF Enabling
  <2>4. Behind(intents') /\ Followed(intents', Enabling)
    <3>1. \A i \in 1..Len(intents') : intents'[i] \notin Enabling
      BY <2>3 DEF Has
    <3>2. \A i \in 1..Len(intents') : \A j \in 1..(i - 1) : j \in 1..Len(intents')
      BY <2>2
    <3> QED
      BY <3>1, <3>2 DEF Behind, Followed
  <2> QED
    BY <2>1, <2>3, <2>4 DEF InOrder
<1>16. CASE OnReceive
  <2>1. /\ Behind(intents') /\ (Followed(intents, Enabling) => Followed(intents', Enabling))
        /\ (Head(intents) \in Enabling => ~Has(intents', {"notFound"}))
        /\ \A S : Has(intents, S) <=> Head(intents) \in S \/ Has(intents', S)
    BY <1>1, <1>2, <1>16, Taken, OrderDropped
  <2>2. link' = link
    BY <1>16 DEF OnReceive, OnAnswered, OnReconnect, OnReady
  <2>3. button' => button \/ Head(intents) \in Enabling
    BY <1>16 DEF OnReceive, OnAnswered, OnReconnect, OnReady, Enabling
  <2>4. gatt' = "none" \/ timer' => ~button' /\ ~Has(intents', Enabling)
    <3>1. gatt' = "none" \/ timer' => gatt = "none" \/ timer
      BY <1>16 DEF OnReceive, OnAnswered, OnReconnect, OnReady, Connect
    <3> QED
      BY <1>2, <2>1, <2>3, <3>1
  <2>5. Has(intents', {"notFound"}) => ~button'
    BY <1>2, <2>1, <2>3
  <2> QED
    BY <1>2, <2>1, <2>2, <2>4, <2>5 DEF InOrder
<1> QED
  BY <1>6, <1>7, <1>8, <1>9, <1>10, <1>11, <1>12, <1>13, <1>14, <1>15, <1>16, Steps
     DEF Radio, Screen, Binder

-----------------------------------------------------------------------------
(* Counted, and the types.                                                 *)

LEMMA CountedStep == ASSUME Base, Next PROVE Counted'
<1> USE DEF app, crypto, bluetooth, device, history
<1> DEFINE R == Has(intents, {"ready"})
<1>1. /\ TypeOK /\ intents \in Seq(Intents) /\ pending \in Nat /\ orphans \in Nat /\ faults \in Nat
      /\ pending + orphans <= faults + 1
      /\ link # "ready" \/ R => pending + orphans <= faults
      /\ link # "ready" /\ R => pending + orphans + 1 <= faults
      /\ link \in {"found", "ready"} => gatt = "connected"
      /\ timer => gatt # "connected"
  BY Typed DEF Base, Counted, Timed, Linked, TypeOK
<1>2a. ASSUME NEW p \in Nat, NEW o \in Nat, NEW f \in Nat,
              pending' = p, orphans' = o, faults' = f, p + o <= f + 1,
              link' # "ready" \/ R' => p + o <= f, link' # "ready" /\ R' => p + o + 1 <= f
       PROVE  Counted'
  BY <1>2a, Zenon DEF Counted
\* Nothing more is waited for.
<1>2. ASSUME NEW p \in Nat, NEW o \in Nat, NEW f \in Nat,
             pending' = p, orphans' = o, faults' = f, R' => R, p + o <= pending + orphans,
             f >= faults, link = "ready" => link' = "ready" \/ f = faults + 1
      PROVE  Counted'
  <2>1. p + o <= f + 1
    BY <1>1, <1>2
  <2>2. link' # "ready" \/ R' => p + o <= f
    BY <1>1, <1>2
  <2>3. link' # "ready" /\ R' => p + o + 1 <= f
    BY <1>1, <1>2
  <2> QED
    BY <1>2, <1>2a, <2>1, <2>2, <2>3
<1>3. ASSUME NEW x \in Intents, intents' = Append(intents, x), x # "ready" PROVE R' => R
  BY <1>1, <1>3, Queued
<1>4. ~Has(<<>>, {"ready"})
  BY Nothing
<1>5. CASE LinkUp \/ OnConnected \/ OnServicesDiscovered \/ SetSessionNonce \/ Firmware
           \/ OnBindService \/ Press
  <2>1. UNCHANGED <<intents, pending, orphans, faults>>
    BY <1>5 DEF LinkUp, OnConnected, OnServicesDiscovered, SetSessionNonce, Firmware, TakeTicket,
       OpenTicket, TakeRequest, AnswerRequest, Buffer, SeeLinkLost, OnBindService, Press
  <2>2. link = "ready" => link' = "ready"
    BY <1>5 DEF LinkUp, OnConnected, OnServicesDiscovered, SetSessionNonce, Firmware, TakeTicket,
       OpenTicket, TakeRequest, AnswerRequest, Buffer, SeeLinkLost, OnBindService, Press
  <2> QED
    BY <1>1, <1>2, <2>1, <2>2
<1>6. CASE OnDescriptorWrite
  <2>1. UNCHANGED <<pending, orphans, faults>> /\ link # "ready" /\ link' = "ready"
    BY <1>6 DEF OnDescriptorWrite
  <2> QED
    BY <1>1, <2>1 DEF Counted
<1>7. CASE LinkLost \/ ConnectFails \/ Restart \/ Connectivity
  <2>1. UNCHANGED <<pending, orphans>> /\ faults' = faults + 1
    BY <1>7 DEF LinkLost, ConnectFails, Restart, Connectivity, Fault
  <2>2. intents' = intents
          \/ \E x \in {"disconnected", "error", "connectivity"} : intents' = Append(intents, x)
    BY <1>7 DEF LinkLost, ConnectFails, Restart, Connectivity, ReportEnd
  <2>3. \A x \in {"disconnected", "error", "connectivity"} : x \in Intents /\ x # "ready"
    BY DEF Intents
  <2>4. R' => R
    BY <1>3, <2>2, <2>3
  <2> QED
    BY <1>1, <1>2, <2>1, <2>4
<1>8. CASE Decrypt
  <2>1. UNCHANGED <<pending, orphans, faults, link>>
    BY <1>8 DEF Decrypt
  <2>2. decoding.code # "ready"
    BY <1>8, Decrypted DEF Enabling
  <2>3. R' => R
    BY <1>3, <1>8, <2>2, Decrypted
  <2> QED
    BY <1>1, <1>2, <2>1, <2>3
<1>9. CASE OnUnbindService
  <2>1. /\ orphans' = orphans + pending /\ pending' = 0 /\ faults' = faults + 1
        /\ intents' = <<>>
    BY <1>9 DEF OnUnbindService, Fault
  <2> QED
    BY <1>1, <1>2, <1>4, <2>1
<1>10. CASE ConnectTimeout
  <2>1. UNCHANGED <<pending, orphans, faults>> /\ link # "ready"
    BY <1>1, <1>10 DEF ConnectTimeout
  <2>2. R' => R
    BY <1>1, <1>10, TimedOut
  <2> QED
    BY <1>1, <1>2, <2>1, <2>2
<1>11. CASE OnReceive
  <2>1. Once(intents, {"ready"})
    BY DEF Base, Broadcast
  <2>2. R <=> Head(intents) = "ready" \/ R'
    BY <1>1, <1>11, Taken
  <2>3. Head(intents) = "ready" => ~R'
    BY <1>1, <1>11, <2>1, Taken
  <2>4. UNCHANGED <<orphans, faults, link>>
    BY <1>11 DEF OnReceive, OnAnswered, OnReconnect, OnReady
  <2>5. \/ pending' = pending
        \/ pending' = pending + 1 /\ Head(intents) = "ready"
    BY <1>11 DEF OnReceive, OnAnswered, OnReconnect, OnReady
  <2>6. CASE pending' = pending
    BY <1>1, <1>2, <2>2, <2>4, <2>6
  <2>7. CASE pending' = pending + 1 /\ Head(intents) = "ready"
    <3>1. R /\ ~R'
      BY <2>2, <2>3, <2>7
    <3> QED
      BY <1>1, <2>4, <2>7, <3>1 DEF Counted
  <2> QED
    BY <2>5, <2>6, <2>7
<1>12. CASE SessionKeyLost \/ OnSessionKey
  <2>1. UNCHANGED <<intents, link>> /\ (faults' = faults \/ faults' = faults + 1)
    BY <1>12 DEF SessionKeyLost, OnSessionKey, Fault
  <2>2. \/ pending > 0 /\ pending' = pending - 1 /\ orphans' = orphans
        \/ orphans > 0 /\ orphans' = orphans - 1 /\ pending' = pending
    BY <1>12 DEF SessionKeyLost, OnSessionKey
  <2>3. PICK f \in Nat : faults' = f /\ f >= faults
    BY <1>1, <2>1
  <2>4. PICK p \in Nat, o \in Nat : pending' = p /\ orphans' = o /\ p + o <= pending + orphans
    <3>1. CASE pending > 0 /\ pending' = pending - 1 /\ orphans' = orphans
      <4>1. pending - 1 \in Nat /\ (pending - 1) + orphans <= pending + orphans
        BY <1>1, <3>1
      <4> QED
        BY <1>1, <3>1, <4>1
    <3>2. CASE orphans > 0 /\ orphans' = orphans - 1 /\ pending' = pending
      <4>1. orphans - 1 \in Nat /\ pending + (orphans - 1) <= pending + orphans
        BY <1>1, <3>2
      <4> QED
        BY <1>1, <3>2, <4>1
    <3> QED
      BY <2>2, <3>1, <3>2
  <2>5. (R' => R) /\ (link = "ready" => link' = "ready")
    BY <2>1
  <2> QED
    BY <1>2, <2>3, <2>4, <2>5
<1>13. CASE Crashes
  <2>1. pending' = 0 /\ orphans' = 0 /\ intents' = <<>> /\ (faults' = faults \/ faults' = faults + 1)
    BY <1>13 DEF Crashes, OnError, OnSessionKeyCrash, PressCrash, Crash, Fault
  <2>2. PICK f \in Nat : faults' = f
    BY <1>1, <2>1
  <2>3. ~R'
    BY <1>4, <2>1
  <2> QED
    BY <1>2a, <2>1, <2>2, <2>3
<1> QED
  BY <1>5, <1>6, <1>7, <1>8, <1>9, <1>10, <1>11, <1>12, <1>13, Steps DEF Radio, Screen, Binder

LEMMA TypeStep == ASSUME Base, Next PROVE TypeOK'
<1> USE DEF app, crypto, bluetooth, device, history
<1>1. TypeOK /\ intents \in Seq(Intents)
  BY Typed DEF Base
<1>2. /\ {bound, dialog, button, online, timer, gone} \subseteq BOOLEAN
      /\ crossed \subseteq {"key", "link"}
      /\ pending \in Nat /\ orphans \in Nat
      /\ appKey \in 0..MaxTickets /\ appNonce \in Nat /\ decoding \in Answers
      /\ gatt \in {"none", "idle", "connecting", "connected"}
      /\ link \in {"none", "up", "found", "ready"}
      /\ air \in Seq(Messages) /\ answers \in Seq(Answers)
      /\ serving \in {"none", "connected", "opening", "open", "turning", "overrun"}
      /\ serving = "overrun" \/ buffered \in 0..72
      /\ tickets \subseteq 1..MaxTickets
      /\ presses \in 0..MaxPresses /\ faults \in 0..MaxFaults
      /\ link = "none" => gatt # "connected"
      /\ link = "up" => gatt \in {"connecting", "connected"}
      /\ link \in {"found", "ready"} => gatt = "connected"
      /\ serving = "none" => buffered = 0
  BY <1>1 DEF TypeOK, TICKET_LEN, Base, Linked
<1>4. intents' \in Seq(Intents)
  <2>1. ASSUME NEW x \in Intents, intents' = Append(intents, x) PROVE intents' \in Seq(Intents)
    BY <1>1, <2>1, Queued
  <2>2. CASE OnReceive \/ ConnectTimeout
    BY <1>1, <2>2, Taken, TimedOut
  <2>3. CASE Crashes \/ OnUnbindService
    <3>1. intents' = <<>>
      BY <2>3 DEF Crashes, OnError, OnSessionKeyCrash, PressCrash, Crash, OnUnbindService
    <3> QED
      BY <3>1
  <2>4. CASE Decrypt
    BY <1>1, <2>1, <2>4, Decrypted
  <2>5. CASE OnDescriptorWrite \/ LinkLost \/ ConnectFails \/ Restart \/ Connectivity
    <3>1. \/ intents' = intents
          \/ \E x \in {"ready", "disconnected", "error", "connectivity"} : intents' = Append(intents, x)
      BY <2>5 DEF OnDescriptorWrite, LinkLost, ConnectFails, ReportEnd, Restart,
         Connectivity
    <3>2. {"ready", "disconnected", "error", "connectivity"} \subseteq Intents
      BY DEF Intents
    <3> QED
      BY <1>1, <2>1, <3>1, <3>2
  <2>6. CASE OnBindService \/ Press
    BY <1>1, <2>6 DEF OnBindService, Press
  <2>7. CASE LinkUp \/ OnConnected \/ OnServicesDiscovered \/ SetSessionNonce \/ Firmware
             \/ OnSessionKey \/ SessionKeyLost
    BY <1>1, <2>7, Unseen
  <2> QED
    BY <2>2, <2>3, <2>4, <2>5, <2>6, <2>7, Steps DEF Radio, Screen, Binder
<1>5. air' \in Seq(Messages)
  <2>1. CASE OnSessionKey
    <3>1. PICK m \in Messages : air' = IF link \in {"found", "ready"} THEN Append(air, m) ELSE air
      BY <2>1, TicketSent
    <3> QED
      BY <1>2, <3>1, Appended
  <2>2. CASE Press
    <3>1. PICK m \in Messages : air' = IF link \in {"found", "ready"} THEN Append(air, m) ELSE air
      BY <2>2, RequestSent
    <3> QED
      BY <1>2, <3>1, Appended
  <2>3. CASE Radio \/ Screen \/ Crashes \/ Binder \/ Firmware \/ Restart
    BY <1>1, <2>3, AirKept DEF Part
  <2> QED
    BY <2>1, <2>2, <2>3, Steps
<1>6. answers' \in Seq(Answers)
  <2>1. CASE OpenTicket \/ AnswerRequest
    <3>1. PICK a \in Answers :
            answers' = IF link = "ready" /\ ~gone THEN Append(answers, a) ELSE answers
      BY <2>1, Answered
    <3> QED
      BY <1>2, <3>1, Appended
  <2> QED
    BY <1>1, <2>1, AnswersKept DEF Part
<1>7. decoding' \in Answers
  <2>1. NoAnswer \in Answers
    BY AppSessionAssumption DEF NoAnswer, NoKey, Answers
  <2> QED
    BY <1>1, <1>2, <2>1, Decoded, Dropped
<1>8. pending' \in Nat /\ orphans' \in Nat /\ faults' \in 0..MaxFaults
  <2>1. faults' \in 0..MaxFaults
    <3>1. faults' = faults \/ Fault
      <4>1. CASE Radio \/ Binder \/ Firmware \/ Restart \/ OnSessionKey \/ Press
        BY <4>1 DEF Radio, LinkUp, OnConnected, OnServicesDiscovered, OnDescriptorWrite,
           LinkLost, ConnectFails, ReportEnd,
           Binder, SetSessionNonce, Decrypt, Firmware, TakeTicket, OpenTicket, TakeRequest,
           AnswerRequest, Buffer, SeeLinkLost, Restart, OnSessionKey, Press
      <4>2. CASE Screen
        BY <4>2 DEF Screen, OnBindService, OnUnbindService, ConnectTimeout, Connectivity, OnReceive,
           SessionKeyLost, OnAnswered, OnReconnect, OnReady
      <4>3. CASE Crashes
        BY <4>3 DEF Crashes, OnError, OnSessionKeyCrash, PressCrash
      <4> QED
        BY <4>1, <4>2, <4>3, Steps
    <3> QED
      BY <1>2, <3>1, AppSessionAssumption DEF Fault
  <2>2. pending' \in Nat /\ orphans' \in Nat
    <3>1. CASE Radio \/ Binder \/ Firmware \/ Restart \/ Press
      BY <1>2, <3>1 DEF Radio, LinkUp, OnConnected, OnServicesDiscovered, OnDescriptorWrite,
         LinkLost, ConnectFails, ReportEnd, Binder, SetSessionNonce, Decrypt, Firmware, TakeTicket, OpenTicket, TakeRequest,
         AnswerRequest, Buffer, SeeLinkLost, Restart, Press
    <3>4. CASE OnSessionKey
      BY <1>2, <3>4 DEF OnSessionKey
    <3>2. CASE OnBindService \/ OnUnbindService \/ ConnectTimeout \/ Connectivity
      BY <1>2, <3>2 DEF OnBindService, OnUnbindService, ConnectTimeout, Connectivity
    <3>5. CASE OnReceive
      <4>1. orphans' = orphans /\ pending' \in {pending, pending + 1}
        BY <3>5 DEF OnReceive, OnAnswered, OnReconnect, OnReady
      <4> QED
        BY <1>2, <4>1
    <3>6. CASE SessionKeyLost
      BY <1>2, <3>6 DEF SessionKeyLost
    <3>3. CASE Crashes
      BY <3>3 DEF Crashes, OnError, OnSessionKeyCrash, PressCrash, Crash
    <3> QED
      BY <3>1, <3>2, <3>3, <3>4, <3>5, <3>6, Steps DEF Screen
  <2> QED
    BY <2>1, <2>2
<1>9. pending' + orphans' <= MaxFaults + 1
  <2>1. PICK p \in Nat, o \in Nat, f \in 0..MaxFaults : pending' = p /\ orphans' = o /\ faults' = f
    BY <1>8
  <2>2. pending' + orphans' <= faults' + 1
    BY CountedStep, Zenon DEF Counted
  <2>3. p + o <= f + 1
    BY <2>1, <2>2, Zenon
  <2>4. p + o <= MaxFaults + 1
    BY <2>1, <2>3, AppSessionAssumption
  <2> QED
    BY <2>1, <2>4, Zenon
<1>10. /\ crossed' \subseteq {"key", "link"} /\ tickets' \subseteq 1..MaxTickets
       /\ presses' \in 0..MaxPresses
  <2>1. CASE Radio \/ Binder \/ Firmware \/ Restart
    BY <1>2, <2>1 DEF Radio, LinkUp, OnConnected, OnServicesDiscovered, OnDescriptorWrite,
       LinkLost, ConnectFails, ReportEnd, Binder, SetSessionNonce, Decrypt, Firmware, TakeTicket, OpenTicket, TakeRequest,
       AnswerRequest, Buffer, SeeLinkLost, Restart
  <2>4. CASE OnSessionKey
    BY <1>2, <2>4 DEF OnSessionKey
  <2>5. CASE Press \/ PressCrash
    <3>1. presses' = presses + 1 /\ presses < MaxPresses /\ UNCHANGED <<crossed, tickets>>
      BY <2>5 DEF Press, PressCrash
    <3> QED
      BY <1>2, <3>1, AppSessionAssumption
  <2>2. CASE Screen
    BY <1>2, <2>2 DEF Screen, OnBindService, OnUnbindService, ConnectTimeout, Connectivity,
       OnReceive, SessionKeyLost, OnAnswered, OnReconnect, OnReady, Crossing
  <2>3. CASE OnError \/ OnSessionKeyCrash
    BY <1>2, <2>3 DEF OnError, OnSessionKeyCrash
  <2> QED
    BY <2>1, <2>2, <2>3, <2>4, <2>5, Steps DEF Crashes
<1>11. appKey' \in 0..MaxTickets /\ appNonce' \in Nat
  <2>1. CASE Drawn' /\ appNonce' \in Nat
    BY <1>10, <2>1, AppSessionAssumption DEF Drawn, NoKey
  <2>2. appNonce' \in Nat
    <3>1. CASE SetSessionNonce
      <4>1. answers # <<>> => Head(answers) \in Answers
        BY <1>2, Dropped
      <4>2. answers # <<>> => Head(answers).nonce \in Nat
        BY <4>1 DEF Answers
      <4> QED
        BY <1>2, <3>1, <4>2 DEF SetSessionNonce
    <3>2. CASE OnSessionKey \/ Press
      BY <1>2, <3>2, TicketSent, RequestSent
    <3>3. CASE Crashes
      BY <3>3 DEF Crashes, OnError, OnSessionKeyCrash, PressCrash, Crash
    <3>4. CASE Radio \/ Screen \/ Decrypt \/ Firmware \/ Restart
      BY <1>2, <3>4 DEF Radio, LinkUp, OnConnected, OnServicesDiscovered, OnDescriptorWrite,
         LinkLost, ConnectFails, ReportEnd, Screen, OnBindService, OnUnbindService, ConnectTimeout, Connectivity, OnReceive,
         SessionKeyLost, Decrypt, Firmware, TakeTicket, OpenTicket, TakeRequest, AnswerRequest,
         Buffer, SeeLinkLost, Restart
    <3> QED
      BY <3>1, <3>2, <3>3, <3>4, Steps DEF Binder
  <2> QED
    BY <2>1, <2>2, DrawnStep
<1>12. /\ gatt' \in {"none", "idle", "connecting", "connected"}
       /\ link' \in {"none", "up", "found", "ready"}
  <2>1. CASE Radio \/ Binder \/ Firmware \/ Restart \/ OnSessionKey \/ Press
    BY <1>2, <2>1 DEF Radio, LinkUp, OnConnected, OnServicesDiscovered, OnDescriptorWrite,
       LinkLost, ConnectFails, ReportEnd, LinkEnds, Binder, SetSessionNonce, Decrypt, Firmware, TakeTicket, OpenTicket,
       TakeRequest, AnswerRequest, Buffer, SeeLinkLost, Restart, OnSessionKey, Press
  <2>2. CASE OnReceive \/ OnBindService
    <3>1. link' = link /\ (Connect \/ UNCHANGED <<gatt, timer>>)
      BY <2>2 DEF OnReceive, OnBindService, OnAnswered, OnReconnect, OnReady
    <3> QED
      BY <1>2, <3>1 DEF Connect
  <2>4. CASE OnUnbindService \/ ConnectTimeout
    BY <1>2, <2>4 DEF OnUnbindService, ConnectTimeout, LinkEnds, LinkStays
  <2>5. CASE Connectivity \/ SessionKeyLost
    BY <1>2, <2>5 DEF Connectivity, SessionKeyLost
  <2>3. CASE Crashes
    BY <2>3 DEF Crashes, OnError, OnSessionKeyCrash, PressCrash, Crash, LinkEnds
  <2> QED
    BY <2>1, <2>2, <2>3, <2>4, <2>5, Steps DEF Screen
<1>13. {bound', dialog', button', online', timer', gone'} \subseteq BOOLEAN
  <2>1. CASE Radio \/ Binder \/ Firmware \/ Restart \/ OnSessionKey \/ Press
    BY <1>2, <2>1 DEF Radio, LinkUp, OnConnected, OnServicesDiscovered, OnDescriptorWrite,
       LinkLost, ConnectFails, ReportEnd, LinkEnds, Binder, SetSessionNonce, Decrypt, Firmware, TakeTicket, OpenTicket,
       TakeRequest, AnswerRequest, Buffer, SeeLinkLost, Restart, OnSessionKey, Press
  <2>2. CASE OnReceive
    <3>1. UNCHANGED <<bound, online, gone>> /\ bound \in BOOLEAN /\ online \in BOOLEAN
          /\ gone \in BOOLEAN /\ dialog \in BOOLEAN /\ button \in BOOLEAN /\ timer \in BOOLEAN
      BY <1>2, <2>2 DEF OnReceive
    <3>2. dialog' \in BOOLEAN /\ button' \in BOOLEAN /\ timer' \in BOOLEAN
      <4>1. CASE Head(intents) \in {"ticketOk", "done", "notFound"} /\ OnAnswered(Head(intents))
        BY <3>1, <4>1 DEF OnAnswered
      <4>2. CASE OnReconnect(Head(intents))
        BY <3>1, <4>2 DEF OnReconnect, Connect
      <4>3. CASE OnReady(Head(intents))
        BY <3>1, <4>3 DEF OnReady
      <4> QED
        BY <2>2, <4>1, <4>2, <4>3 DEF OnReceive
    <3> QED
      BY <3>1, <3>2
  <2>4. CASE OnBindService
    BY <1>2, <2>4 DEF OnBindService, Connect
  <2>5. CASE OnUnbindService \/ ConnectTimeout
    BY <1>2, <2>5 DEF OnUnbindService, ConnectTimeout, LinkEnds, LinkStays
  <2>6. CASE Connectivity \/ SessionKeyLost
    BY <1>2, <2>6 DEF Connectivity, SessionKeyLost
  <2>3. CASE Crashes
    BY <1>2, <2>3 DEF Crashes, OnError, OnSessionKeyCrash, PressCrash, Crash, LinkEnds
  <2> QED
    BY <2>1, <2>2, <2>3, <2>4, <2>5, <2>6, Steps DEF Screen
<1>14. /\ serving' \in {"none", "connected", "opening", "open", "turning", "overrun"}
       /\ serving' = "overrun" \/ buffered' \in 0..72
  <2>1. CASE Firmware
    <3>1. CASE Buffer
      <4>1. /\ Length \in {72, 41} /\ buffered' = buffered + Length
            /\ serving \in {"connected", "open"}
            /\ serving' = IF buffered' > 72 THEN "overrun" ELSE serving
        BY <3>1 DEF Buffer, Length, TICKET_LEN, REQUEST_LEN
      <4>2. buffered \in 0..72
        BY <1>2, <4>1
      <4>3. buffered' \in Nat
        BY <4>1, <4>2
      <4> QED
        BY <4>1, <4>3
    <3>2. CASE SeeLinkLost
      BY <3>2 DEF SeeLinkLost
    <3>3. CASE TakeTicket \/ OpenTicket \/ TakeRequest \/ AnswerRequest
      <4>1. /\ buffered' = buffered /\ serving # "overrun"
            /\ serving' \in {serving, "opening", "open", "turning"}
        BY <3>3 DEF TakeTicket, OpenTicket, TakeRequest, AnswerRequest
      <4> QED
        BY <1>2, <4>1
    <3> QED
      BY <2>1, <3>1, <3>2, <3>3 DEF Firmware
  <2>2. CASE Restart
    BY <2>2 DEF Restart
  <2> QED
    BY <1>2, <2>1, <2>2, Steps, LockKept
<1> QED
  BY <1>4, <1>5, <1>6, <1>7, <1>8, <1>9, <1>10, <1>11, <1>12, <1>13, <1>14
     DEF TypeOK, Intents, TICKET_LEN

-----------------------------------------------------------------------------

LEMMA BaseInit == Init => Base
<1> SUFFICES ASSUME Init PROVE Base
  OBVIOUS
<1> USE DEF Init, Closed, L!Init, L!NoKey, NoKey
<1>1. TypeOK
  <2>1. NoAnswer \in Answers
    BY AppSessionAssumption DEF NoAnswer, Answers
  <2>2. pending \in Nat /\ orphans \in Nat /\ pending + orphans <= MaxFaults + 1
    BY AppSessionAssumption
  <2>3. {bound, dialog, button, online, timer, gone} \subseteq BOOLEAN
    OBVIOUS
  <2>4. intents \in Seq(Intents) /\ air \in Seq(Messages) /\ answers \in Seq(Answers)
    OBVIOUS
  <2>5. /\ crossed \subseteq {"key", "link"}
        /\ appKey \in 0..MaxTickets /\ appNonce \in Nat /\ decoding \in Answers
        /\ gatt \in {"none", "idle", "connecting", "connected"}
        /\ link \in {"none", "up", "found", "ready"}
        /\ serving \in {"none", "connected", "opening", "open", "turning", "overrun"}
        /\ serving = "overrun" \/ buffered \in 0..72
        /\ tickets \subseteq 1..MaxTickets
        /\ presses \in 0..MaxPresses /\ faults \in 0..MaxFaults
    BY <2>1, AppSessionAssumption
  <2> QED
    BY <2>2, <2>3, <2>4, <2>5 DEF TypeOK, TICKET_LEN, Intents
<1>2. Numbered /\ Addressed /\ Linked /\ Timed
  BY Nothing DEF Numbered, Addressed, Linked, Timed
<1>3. Drawn
  <2>1. IsFiniteSet({}) /\ Cardinality({}) = 0
    BY FS_EmptySet
  <2> QED
    BY <2>1, Nothing DEF Drawn
<1>4. Broadcast /\ Ordered /\ Counted
  BY Nothing DEF Broadcast, Ordered, InOrder, Counted
<1> QED
  BY <1>1, <1>2, <1>3, <1>4 DEF Base

LEMMA BaseStep == Base /\ [Next]_vars => Base'
<1> SUFFICES ASSUME Base, [Next]_vars PROVE Base'
  OBVIOUS
<1>1. CASE Next
  BY <1>1, TypeStep, NumberedStep, DrawnStep, AddressedStep, LinkedStep, TimedStep,
     BroadcastStep, OrderedStep, CountedStep DEF Base
<1>2. CASE UNCHANGED vars
  <2> USE <1>2 DEF vars, app, crypto, bluetooth, device, history, lock
  <2>1. TypeOK'
    BY Zenon DEF Base, TypeOK
  <2>2. Numbered' /\ Drawn'
    BY DEF Base, Numbered, Drawn
  <2>3. Addressed' /\ Linked' /\ Timed'
    BY DEF Base, Addressed, Linked, Timed
  <2>4. Broadcast' /\ Ordered' /\ Counted'
    BY Zenon DEF Base, Broadcast, Ordered, InOrder, Counted
  <2> QED
    BY <2>1, <2>2, <2>3, <2>4 DEF Base
<1> QED
  BY <1>1, <1>2

LEMMA BaseHolds == Spec => []Base
BY BaseInit, BaseStep, PTL DEF Spec

\* The types: for any number of faults the lock's buffer, unless it has
\* overrun, holds at most one ticket, and no more session keys are waited for
\* than links were lost, and one (LockControllerImpl.java: onReceive()).
THEOREM AppTypes == Spec => []TypeOK
<1>1. Base => TypeOK
  BY DEF Base
<1> QED
  BY <1>1, BaseHolds, PTL

\* However attempts to connect fail, are given up or succeed: the time-out is
\* never posted for a connection that has been made, and none stays behind but
\* that of an attempt that failed with an error, until its broadcast ends the
\* process (BluetoothService.java: connect(), onConnectionStateChange()).
THEOREM TimeoutsEnd == Spec => []TimeoutOfAttempt
<1>1. Base => TimeoutOfAttempt
  BY Typed, Contained DEF Base, Timed, TimeoutOfAttempt
<1> QED
  BY <1>1, BaseHolds, PTL

-----------------------------------------------------------------------------
(* Shielded.                                                               *)

\* A connection is begun behind the dialog, and with the end of the last link
\* handled.
LEMMA Reconnected ==
  ASSUME Base, OnReceive, OnReconnect(Head(intents)), "link" \notin crossed'
  PROVE  /\ Head(intents) \in {"disconnected", "connectivity"}
         /\ UNCHANGED <<link, pending>> /\ (button' => button)
         /\ \/ online /\ dialog' = TRUE /\ ~Has(intents', {"disconnected"})
                 /\ gatt' = IF link = "none" THEN "connecting" ELSE gatt
            \/ gatt' = gatt /\ (button' => (dialog => dialog') /\ Head(intents) = "disconnected")
<1>1. /\ TypeOK /\ Once(intents, Ends) /\ intents' = Tail(intents) /\ intents' \in Seq(Intents)
      /\ Head(intents) \in {"disconnected", "connectivity"}
      /\ Crossing(Head(intents))
  BY Taken DEF Base, Broadcast, OnReconnect
<1>2. online => ~Has(intents', {"disconnected"})
  <2>1. CASE Head(intents) = "disconnected"
    <3>1. ~Has(intents', Ends)
      BY <1>1, <2>1, Taken DEF Ends
    <3> QED
      BY <1>1, <3>1, NoEnds
  <2>2. CASE Head(intents) = "connectivity"
    <3>1. online => ~Contains(intents', "disconnected")
      BY <1>1, <2>2 DEF Crossing
    <3> QED
      BY <1>1, <3>1, Contained
  <2> QED
    BY <1>1, <2>1, <2>2
<1>3. CASE online
  BY <1>1, <1>2, <1>3 DEF OnReconnect, Connect
<1>4. CASE ~online
  BY <1>1, <1>4 DEF OnReconnect
<1> QED
  BY <1>3, <1>4

LEMMA ShieldedStep == ASSUME Base, Shielded, Next PROVE Shielded'
<1> USE DEF app, crypto, bluetooth, device
<1> SUFFICES ASSUME "link" \notin crossed'
    PROVE  /\ (gatt = "connecting" /\ link = "none" =>
                ~Has(intents, {"disconnected"}) /\ (Shield \/ Has(intents, {"error"})))'
           /\ (serving \in {"connected", "opening"} =>
                /\ Shield /\ ~Has(intents, Enabling)
                /\ answers = <<>> /\ decoding = NoAnswer)'
  BY DEF Shielded
<1>1. /\ gatt = "connecting" /\ link = "none" =>
           ~Has(intents, {"disconnected"}) /\ (Shield \/ Has(intents, {"error"}))
      /\ serving \in {"connected", "opening"} =>
           /\ Shield /\ ~Has(intents, Enabling)
           /\ answers = <<>> /\ decoding = NoAnswer
  BY CrossedGrows DEF Shielded
<1>2. /\ TypeOK /\ intents \in Seq(Intents) /\ Once(intents, Ends) /\ Behind(intents)
      /\ link = "ready" \/ Followed(intents, Enabling)
      /\ Has(intents, {"notFound"}) => ~button
      /\ link = "none" => gatt # "connected"
      /\ link = "up" => gatt \in {"connecting", "connected"}
      /\ link \in {"found", "ready"} => gatt = "connected"
      /\ gatt # "none" \/ intents # <<>> => bound
      /\ answers # <<>> => link = "ready"
      /\ decoding # NoAnswer => link = "ready" \/ ~bound
  BY Typed, CrossedGrows DEF Base, Broadcast, Ordered, InOrder, Linked
<1>3. ~Has(<<>>, Enabling)
  BY Nothing
<1>4. CASE LinkUp
  <2>1. ~Has(intents, {"disconnected"}) /\ ~Has(intents, {"error"}) /\ ~Has(intents, Ends)
        /\ gatt = "connecting" /\ link = "none"
    BY <1>2, <1>4, Contained, NoEnds DEF LinkUp
  <2>2. ~Has(intents, Enabling)
    BY <1>2, <2>1, NotFollowed
  <2>3. Shield /\ answers = <<>> /\ decoding = NoAnswer
    BY <1>1, <1>2, <2>1
  <2>4. link' = "up" /\ UNCHANGED <<button, dialog, intents, answers, decoding>>
    BY <1>4 DEF LinkUp
  <2> QED
    BY <2>2, <2>3, <2>4 DEF Shield
<1>5. CASE OnConnected \/ OnServicesDiscovered \/ OnDescriptorWrite
  <2>1. /\ UNCHANGED <<button, dialog, answers, decoding, serving>>
        /\ intents' \in {intents, Append(intents, "ready")} /\ link' # "none"
    BY <1>2, <1>5 DEF OnConnected, OnServicesDiscovered, OnDescriptorWrite
  <2>2. Has(intents', Enabling) => Has(intents, Enabling)
    BY <1>2, <2>1, NotEnabling, Plain
  <2> QED
    BY <1>1, <2>1, <2>2 DEF Shield
<1>6. CASE LinkLost \/ ConnectFails \/ (Restart /\ link # "none")
  <2>1. PICK x \in {"disconnected", "error"} : intents' = Append(intents, x)
    BY <1>6 DEF LinkLost, ConnectFails, Restart, ReportEnd
  <2>2. /\ UNCHANGED <<button, dialog, decoding>> /\ answers' \in {answers, <<>>}
        /\ gatt' = "idle" /\ serving' \in {serving, "none"}
    BY <1>6 DEF LinkLost, ConnectFails, LinkEnds, Restart, ReportEnd
  <2>3. Has(intents', Enabling) => Has(intents, Enabling)
    BY <1>2, <2>1, NotEnabling, Plain
  <2> QED
    BY <1>1, <2>2, <2>3 DEF Shield
<1>7. CASE Restart /\ link = "none"
  <2>1. UNCHANGED <<button, dialog, intents, gatt>> /\ link' = link /\ serving' = "none"
    BY <1>7 DEF Restart
  <2> QED
    BY <1>1, <1>7, <2>1 DEF Shield
<1>8. CASE SetSessionNonce
  <2>1. answers # <<>> /\ link = "ready" /\ UNCHANGED <<link, serving>>
    BY <1>2, <1>8 DEF SetSessionNonce
  <2> QED
    BY <1>1, <2>1
<1>9. CASE Decrypt
  <2>1. decoding # NoAnswer /\ (gatt # "none" => link = "ready") /\ UNCHANGED <<gatt, link, serving>>
    BY <1>2, <1>9 DEF Decrypt
  <2> QED
    BY <1>1, <2>1
<1>10. CASE Firmware
  <2>1. UNCHANGED <<button, dialog, intents, gatt, link, decoding>>
    BY <1>10 DEF Firmware, TakeTicket, OpenTicket, TakeRequest, AnswerRequest, Buffer, SeeLinkLost
  <2>2. serving' \in {"connected", "opening"} => serving \in {"connected", "opening"}
                                                 /\ answers' = answers
    BY <1>10 DEF Firmware, TakeTicket, OpenTicket, TakeRequest, AnswerRequest, Buffer, SeeLinkLost
  <2> QED
    BY <1>1, <2>1, <2>2 DEF Shield
<1>11. CASE OnSessionKey \/ SessionKeyLost \/ Press
  <2>1. /\ UNCHANGED <<intents, gatt, link, decoding, answers, serving>>
        /\ button' = FALSE \/ UNCHANGED <<button, dialog>>
    BY <1>11 DEF OnSessionKey, SessionKeyLost, Press
  <2> QED
    BY <1>1, <2>1 DEF Shield
<1>12. CASE OnBindService
  <2>1. /\ button' = FALSE /\ ~bound
        /\ UNCHANGED <<intents, link, decoding, answers, serving>>
    BY <1>12 DEF OnBindService
  <2>2. intents = <<>>
    BY <1>2, <2>1
  <2> QED
    BY <1>1, <2>1, <2>2, Nothing DEF Shield
<1>13. CASE OnUnbindService \/ Crashes
  <2>1. button' = FALSE /\ intents' = <<>> /\ gatt' = "none" /\ decoding' \in {decoding, NoAnswer}
        /\ serving' = serving /\ LinkEnds
    BY <1>13 DEF OnUnbindService, Crashes, OnError, OnSessionKeyCrash, PressCrash, Crash
  <2> QED
    BY <1>1, <1>3, <2>1 DEF Shield, LinkEnds
<1>14. CASE ConnectTimeout
  <2>1. /\ UNCHANGED <<button, dialog, decoding, serving>> /\ gatt' = "idle"
        /\ (answers' = answers \/ answers' = <<>>)
    BY <1>14 DEF ConnectTimeout, LinkEnds, LinkStays
  <2>2. Has(intents', Enabling) => Has(intents, Enabling)
    BY <1>2, <1>14, TimedOut DEF Enabling
  <2> QED
    BY <1>1, <2>1, <2>2 DEF Shield
<1>15. CASE Connectivity
  <2>1. /\ UNCHANGED <<button, dialog, decoding, serving, answers, gatt, link>>
        /\ intents' \in {intents, Append(intents, "connectivity")}
    BY <1>15 DEF Connectivity
  <2>2. "connectivity" \in Intents /\ "connectivity" \notin Enabling
        /\ "connectivity" \notin {"disconnected"}
    BY DEF Intents, Enabling
  <2>3. /\ Has(intents', Enabling) => Has(intents, Enabling)
        /\ Has(intents', {"disconnected"}) => Has(intents, {"disconnected"})
        /\ Has(intents, {"error"}) => Has(intents', {"error"})
    BY <1>2, <2>1, <2>2, Queued
  <2> QED
    BY <1>1, <2>1, <2>3 DEF Shield
<1>16. CASE OnReceive
  <2>1. /\ intents # <<>> /\ intents' = Tail(intents)
        /\ \A S : Has(intents, S) <=> Head(intents) \in S \/ Has(intents', S)
        /\ UNCHANGED <<answers, decoding, serving>>
    BY <1>2, <1>16, Taken DEF OnReceive
  <2>2. CASE Head(intents) \in Enabling /\ OnAnswered(Head(intents))
    <3>1. Has(intents, Enabling) /\ UNCHANGED <<gatt, link>>
      BY <2>1, <2>2 DEF OnAnswered
    <3>2. link = "none" => Has(intents', Ends)
      BY <1>2, <2>1, <2>2, OrderDropped
    <3>3. gatt = "connecting" /\ link = "none" => ~Has(intents', {"disconnected"})
      BY <1>1, <2>1
    <3>4. gatt = "connecting" /\ link = "none" => Has(intents', {"error"})
      BY <1>2, <1>16, <3>2, <3>3, NoEnds, Taken
    <3> QED
      BY <1>1, <2>1, <3>1, <3>3, <3>4
  <2>3. CASE Head(intents) = "notFound" /\ OnAnswered(Head(intents))
    <3>1. button' = button /\ UNCHANGED <<gatt, link>>
      BY <2>3 DEF OnAnswered
    <3>2. ~button
      BY <1>2, <2>1, <2>3
    <3> QED
      BY <1>1, <2>1, <3>1, <3>2 DEF Shield
  <2>4. CASE OnReconnect(Head(intents))
    <3>1. Head(intents) \notin {"error"}
      BY <1>16, <2>4, Reconnected
    <3>2. CASE dialog' = TRUE /\ ~Has(intents', {"disconnected"})
      BY <1>1, <2>1, <3>2 DEF Shield
    <3>3. CASE gatt' = gatt /\ (button' => (dialog => dialog') /\ Head(intents) = "disconnected")
      <4>1. link' = link /\ (button' => button)
        BY <1>16, <2>4, Reconnected
      <4>2. Shield => Shield'
        BY <3>3, <4>1 DEF Shield
      <4> QED
        BY <1>1, <2>1, <3>1, <3>3, <4>1, <4>2
    <3> QED
      BY <1>16, <2>4, <3>2, <3>3, Reconnected
  <2>5. CASE OnReady(Head(intents))
    <3>1. UNCHANGED <<button, dialog, gatt, link>> /\ Head(intents) = "ready"
      BY <2>5 DEF OnReady
    <3> QED
      BY <1>1, <2>1, <3>1 DEF Shield
  <2> QED
    BY <1>16, <2>2, <2>3, <2>4, <2>5 DEF OnReceive, Enabling
<1> QED
  BY <1>4, <1>5, <1>6, <1>7, <1>8, <1>9, <1>10, <1>11, <1>12, <1>13, <1>14, <1>15, <1>16, Steps
     DEF Radio, Screen, Binder

-----------------------------------------------------------------------------
(* How the turn passes.                                                    *)

LEMMA RequestOf ==
  ASSUME NEW m \in Messages, NEW k
  PROVE  m \in RequestsOf(k) <=> m.kind = "request" /\ m.key = k
BY DEF Messages, RequestsOf

LEMMA AnswerOf ==
  ASSUME NEW a \in Answers, NEW k
  PROVE  a \in AnswersOf(k) <=> a.key = k
BY DEF Answers, AnswersOf

\* The broadcast of an answer alone arms the app.
LEMMA ArmedStep ==
  ASSUME Base, "link" \notin crossed, Next, Armed'
  PROVE  \/ Armed
         \/ Decrypt /\ decoding # NoAnswer /\ decoding.key = appKey /\ decoding.nonce = appNonce
              /\ intents' = Append(intents, decoding.code) /\ UNCHANGED <<button, dialog>>
<1> USE DEF app, bluetooth
<1>1. TypeOK /\ intents \in Seq(Intents) /\ (Has(intents, {"notFound"}) => ~button)
  BY Typed DEF Base, Ordered, InOrder
<1>2. ASSUME NEW x \in {"ready", "disconnected", "error", "connectivity"},
             intents' = Append(intents, x), UNCHANGED <<button, dialog>>
      PROVE  Armed
  <2>1. x \in Intents \ Enabling
    BY Plain
  <2> QED
    BY <1>1, <1>2, <2>1, NotEnabling DEF Armed
<1>3. CASE LinkUp \/ OnConnected \/ OnServicesDiscovered \/ SetSessionNonce \/ Firmware
           \/ OnSessionKey \/ SessionKeyLost
  BY <1>3, Unseen DEF Armed
<1>4. CASE OnDescriptorWrite \/ LinkLost \/ ConnectFails \/ (Restart /\ link # "none")
  <2>1. PICK x \in {"ready", "disconnected", "error"} : intents' = Append(intents, x)
    BY <1>4 DEF OnDescriptorWrite, LinkLost, ConnectFails, ReportEnd, Restart
  <2>2. UNCHANGED <<button, dialog>>
    BY <1>4 DEF OnDescriptorWrite, LinkLost, ConnectFails, ReportEnd, Restart
  <2> QED
    BY <1>2, <2>1, <2>2
<1>5. CASE (Restart /\ link = "none") \/ Press
  <2>1. intents' = intents /\ dialog' = dialog /\ (button' => button)
    BY <1>5 DEF Restart, Press
  <2> QED
    BY <2>1 DEF Armed
<1>6. CASE Connectivity
  <2>1. intents' = intents \/ intents' = Append(intents, "connectivity")
    BY <1>6 DEF Connectivity
  <2>2. UNCHANGED <<button, dialog>>
    BY <1>6 DEF Connectivity
  <2>3. CASE intents' = intents
    BY <2>2, <2>3 DEF Armed
  <2>4. CASE intents' = Append(intents, "connectivity")
    BY <1>2, <2>2, <2>4
  <2> QED
    BY <2>1, <2>3, <2>4
<1>7. CASE ConnectTimeout
  <2>1. UNCHANGED <<button, dialog>>
    BY <1>7 DEF ConnectTimeout
  <2>2. Has(intents', Enabling) => Has(intents, Enabling)
    BY <1>1, <1>7, TimedOut DEF Enabling
  <2> QED
    BY <2>1, <2>2 DEF Armed
<1>8. CASE OnBindService
  <2>1. button' = FALSE /\ intents' = intents
    BY <1>8 DEF OnBindService
  <2> QED
    BY <2>1 DEF Armed
<1>9. CASE OnUnbindService \/ Crashes
  <2>1. button' = FALSE /\ intents' = <<>>
    BY <1>9 DEF OnUnbindService, Crashes, OnError, OnSessionKeyCrash, PressCrash, Crash
  <2> QED
    BY <2>1, Nothing DEF Armed
<1>10. CASE Decrypt
  <2>1. UNCHANGED <<button, dialog>>
    BY <1>10 DEF Decrypt
  <2> QED
    BY <1>10, <2>1, Decrypted DEF Armed
<1>11. CASE OnReceive
  <2>1. \A S : Has(intents, S) <=> Head(intents) \in S \/ Has(intents', S)
    BY <1>1, <1>11, Taken
  <2>2. CASE Head(intents) \in Enabling
    BY <2>1, <2>2 DEF Armed
  <2>3. CASE Head(intents) = "notFound" /\ OnAnswered(Head(intents))
    <3>1. button' = button /\ ~button
      BY <1>1, <2>1, <2>3 DEF OnAnswered
    <3> QED
      BY <2>1, <3>1 DEF Armed
  <2>4. CASE OnReconnect(Head(intents)) \/ OnReady(Head(intents))
    <3>1. button' /\ ~dialog' => button /\ ~dialog
      BY <2>4 DEF OnReconnect, OnReady
    <3> QED
      BY <2>1, <3>1 DEF Armed
  <2> QED
    BY <1>11, <2>2, <2>3, <2>4 DEF OnReceive, Enabling
<1> QED
  BY <1>3, <1>4, <1>5, <1>6, <1>7, <1>8, <1>9, <1>10, <1>11, Steps DEF Radio, Screen, Binder

LEMMA AloneStep ==
  ASSUME Base, "link" \notin crossed, Alone, Next,
         Decrypt => ~Armed \/ intents' = intents
  PROVE  Alone'
<1> USE DEF app, bluetooth
<1>1. /\ TypeOK /\ intents \in Seq(Intents) /\ (Has(intents, {"notFound"}) => ~button)
      /\ Once(intents, Enabling) /\ (button /\ ~dialog => ~Has(intents, Enabling))
  BY Typed DEF Base, Ordered, InOrder, Alone
<1>2. ASSUME NEW x \in {"ready", "disconnected", "error", "connectivity"},
             intents' = Append(intents, x), UNCHANGED <<button, dialog>>
      PROVE  Alone'
  <2>1. x \in Intents \ Enabling
    BY Plain
  <2> QED
    BY <1>1, <1>2, <2>1, Queued DEF Alone
<1>3. CASE LinkUp \/ OnConnected \/ OnServicesDiscovered \/ SetSessionNonce \/ Firmware
           \/ OnSessionKey \/ SessionKeyLost
  BY <1>1, <1>3, Unseen DEF Alone
<1>4. CASE OnDescriptorWrite \/ LinkLost \/ ConnectFails \/ (Restart /\ link # "none")
  <2>1. PICK x \in {"ready", "disconnected", "error"} : intents' = Append(intents, x)
    BY <1>4 DEF OnDescriptorWrite, LinkLost, ConnectFails, ReportEnd, Restart
  <2>2. UNCHANGED <<button, dialog>>
    BY <1>4 DEF OnDescriptorWrite, LinkLost, ConnectFails, ReportEnd, Restart
  <2> QED
    BY <1>2, <2>1, <2>2
<1>5. CASE (Restart /\ link = "none") \/ Press
  <2>1. intents' = intents /\ dialog' = dialog /\ (button' => button)
    BY <1>5 DEF Restart, Press
  <2> QED
    BY <1>1, <2>1 DEF Alone
<1>6. CASE Connectivity
  <2>1. intents' = intents \/ intents' = Append(intents, "connectivity")
    BY <1>6 DEF Connectivity
  <2>2. UNCHANGED <<button, dialog>>
    BY <1>6 DEF Connectivity
  <2>3. CASE intents' = intents
    BY <1>1, <2>2, <2>3 DEF Alone
  <2>4. CASE intents' = Append(intents, "connectivity")
    BY <1>2, <2>2, <2>4
  <2> QED
    BY <2>1, <2>3, <2>4
<1>7. CASE ConnectTimeout
  <2>1. UNCHANGED <<button, dialog>> /\ timer
    BY <1>7 DEF ConnectTimeout
  <2>2. Has(intents', Enabling) => Has(intents, Enabling)
    BY <1>1, <1>7, TimedOut DEF Enabling
  <2>3. ~Has(intents', Enabling)
    BY <2>1, <2>2 DEF Base, Ordered, InOrder
  <2>4. Once(intents', Enabling)
    BY <2>3 DEF Has, Once
  <2> QED
    BY <2>3, <2>4 DEF Alone
<1>8. CASE OnBindService
  <2>1. button' = FALSE /\ intents' = intents
    BY <1>8 DEF OnBindService
  <2> QED
    BY <1>1, <2>1 DEF Alone
<1>9. CASE OnUnbindService \/ Crashes
  <2>1. button' = FALSE /\ intents' = <<>>
    BY <1>9 DEF OnUnbindService, Crashes, OnError, OnSessionKeyCrash, PressCrash, Crash
  <2> QED
    BY <2>1, Nothing DEF Alone
<1>10. CASE Decrypt
  <2>1. UNCHANGED <<button, dialog>>
    BY <1>10 DEF Decrypt
  <2>2. CASE intents' = intents
    BY <1>1, <2>1, <2>2 DEF Alone
  <2>3. CASE ~Armed /\ intents' = Append(intents, decoding.code) /\ decoding.code \in Intents
    <3>1. Once(intents', Enabling)
      BY <1>1, <2>3, Queued DEF Armed
    <3>2. ~(button' /\ ~dialog')
      BY <2>1, <2>3 DEF Armed
    <3> QED
      BY <3>1, <3>2 DEF Alone
  <2> QED
    BY <1>10, <2>2, <2>3, Decrypted
<1>11. CASE OnReceive
  <2>1. /\ \A S : Has(intents, S) <=> Head(intents) \in S \/ Has(intents', S)
        /\ Once(intents', Enabling)
        /\ ~(Head(intents) \in Enabling /\ Has(intents', Enabling))
    BY <1>1, <1>11, Taken
  <2>2. CASE Head(intents) \in Enabling
    BY <2>1, <2>2 DEF Alone
  <2>3. CASE Head(intents) = "notFound" /\ OnAnswered(Head(intents))
    <3>1. button' = button /\ ~button
      BY <1>1, <2>1, <2>3 DEF OnAnswered
    <3> QED
      BY <2>1, <3>1 DEF Alone
  <2>4. CASE OnReconnect(Head(intents)) \/ OnReady(Head(intents))
    <3>1. button' /\ ~dialog' => button /\ ~dialog
      BY <2>4 DEF OnReconnect, OnReady
    <3> QED
      BY <1>1, <2>1, <3>1 DEF Alone
  <2> QED
    BY <1>11, <2>2, <2>3, <2>4 DEF OnReceive, Enabling
<1> QED
  BY <1>3, <1>4, <1>5, <1>6, <1>7, <1>8, <1>9, <1>10, <1>11, Steps DEF Radio, Screen, Binder

\* Who gives the turn under k to whom.
LEMMA TurnOfApp ==
  ASSUME Base, "link" \notin crossed, Next, NEW k, Turn(k, "app")'
  PROVE  \/ Turn(k, "app")
         \/ Decrypt /\ Turn(k, "decode") /\ k = appKey /\ intents' = Append(intents, decoding.code)
         \/ OnSessionKey /\ k = appKey'
<1>1. Armed' /\ k = appKey'
  BY DEF Turn
<1>2. appKey' = appKey \/ OnSessionKey
  <2>1. ~Crashes
    <3>1. ~Has(<<>>, Enabling)
      BY Nothing
    <3> QED
      BY <1>1, <3>1 DEF Armed, Crashes, OnError, OnSessionKeyCrash, PressCrash, Crash
  <2>2. CASE Radio \/ Screen \/ Binder \/ Firmware \/ Restart \/ Press
    BY <2>2 DEF Radio, LinkUp, OnConnected, OnServicesDiscovered, OnDescriptorWrite,
       LinkLost, ConnectFails, ReportEnd,
       Screen, OnBindService, OnUnbindService, ConnectTimeout, Connectivity, OnReceive,
       SessionKeyLost, Binder, SetSessionNonce, Decrypt, Firmware, TakeTicket, OpenTicket,
       TakeRequest, AnswerRequest, Buffer, SeeLinkLost, Restart, Press, AuthEncrypt, crypto
  <2> QED
    BY <2>1, <2>2, Steps
<1> QED
  BY <1>1, <1>2, ArmedStep DEF Turn

LEMMA TurnOfAir ==
  ASSUME Base, Next, NEW k, Turn(k, "air")'
  PROVE  Turn(k, "air") \/ (Press /\ k = appKey)
<1>1. TypeOK /\ air \in Seq(Messages) /\ Has(air', RequestsOf(k))
  BY Typed DEF Base, Turn
<1>2. CASE Radio \/ Screen \/ Crashes \/ Binder \/ Firmware \/ Restart
  BY <1>1, <1>2, AirKept DEF Part, Turn
<1>3. CASE OnSessionKey
  <2>1. PICK m \in Messages :
          /\ m.kind = "ticket"
          /\ air' = IF link \in {"found", "ready"} THEN Append(air, m) ELSE air
    BY <1>3, TicketSent
  <2>2. m \notin RequestsOf(k)
    BY <2>1, RequestOf
  <2>3. Has(air, RequestsOf(k))
    BY <1>1, <2>1, <2>2, Appended
  <2> QED
    BY <2>3 DEF Turn
<1>4. CASE Press
  <2>1. PICK m \in Messages :
          /\ m.key = appKey
          /\ air' = IF link \in {"found", "ready"} THEN Append(air, m) ELSE air
    BY <1>4, RequestSent
  <2>2. m \in RequestsOf(k) => k = appKey
    BY <2>1, RequestOf
  <2>3. Has(air, RequestsOf(k)) \/ m \in RequestsOf(k)
    BY <1>1, <2>1, Appended
  <2> QED
    BY <1>4, <2>2, <2>3 DEF Turn
<1> QED
  BY <1>2, <1>3, <1>4, Steps

LEMMA TurnOfLock ==
  ASSUME Base, Next, NEW k, Turn(k, "lock")'
  PROVE  \/ Turn(k, "lock")
         \/ TakeRequest /\ Turn(k, "air") /\ k = key /\ serving' = "turning"
<1>1. serving' = "turning" /\ k = key'
  BY DEF Turn
<1>2. CASE TakeRequest
  <2>1. air # <<>> /\ key' = key /\ serving = "open" /\ Received.kind = "request"
        /\ Received.key = key
    BY <1>1, <1>2 DEF TakeRequest, L!Rotate, L!Take, lock
  <2>2. 1 \in 1..Len(air) /\ air[1] = Received /\ air[1] \in Messages
    BY <2>1, Arrived DEF Base
  <2>3. air[1] \in RequestsOf(k)
    BY <1>1, <2>1, <2>2, RequestOf
  <2>4. Has(air, RequestsOf(k))
    BY <2>2, <2>3 DEF Has
  <2> QED
    BY <1>1, <1>2, <2>1, <2>4 DEF Turn
<1>3. CASE TakeTicket \/ Buffer \/ SeeLinkLost \/ AnswerRequest \/ OpenTicket \/ Restart
  BY <1>1, <1>3 DEF TakeTicket, Buffer, SeeLinkLost, AnswerRequest, OpenTicket, Restart, lock
<1>4. CASE Radio \/ Screen \/ Crashes \/ Binder \/ OnSessionKey \/ Press
  BY <1>1, <1>4, LockKept DEF Turn
<1> QED
  BY <1>2, <1>3, <1>4, Steps DEF Firmware

LEMMA TurnOfBack ==
  ASSUME Base, Next, NEW k, Turn(k, "back")'
  PROVE  Turn(k, "back") \/ (OpenTicket /\ k = master) \/ (AnswerRequest /\ k = key)
<1>1. TypeOK /\ answers \in Seq(Answers) /\ Has(answers', AnswersOf(k))
  BY Typed DEF Base, Turn
<1>2. CASE OpenTicket \/ AnswerRequest
  <2>1. PICK a \in Answers :
          /\ a.key = key'
          /\ answers' = IF link = "ready" /\ ~gone THEN Append(answers, a) ELSE answers
    BY <1>2, Answered
  <2>2. a \in AnswersOf(k) => k = key'
    BY <2>1, AnswerOf
  <2>3. Has(answers, AnswersOf(k)) \/ a \in AnswersOf(k)
    BY <1>1, <2>1, Appended
  <2>4. (OpenTicket /\ key' = master) \/ (AnswerRequest /\ key' = key)
    BY <1>2 DEF OpenTicket, AnswerRequest, L!Open, L!Respond
  <2> QED
    BY <2>2, <2>3, <2>4 DEF Turn
<1>3. CASE ~OpenTicket /\ ~AnswerRequest
  BY <1>1, <1>3, AnswersKept DEF Part, Turn
<1> QED
  BY <1>2, <1>3

LEMMA TurnOfDecode ==
  ASSUME Base, Next, NEW k, Turn(k, "decode")'
  PROVE  Turn(k, "decode") \/ (SetSessionNonce /\ Turn(k, "back") /\ decoding' = Head(answers)
                                 /\ answers # <<>>)
<1>1. TypeOK /\ answers \in Seq(Answers) /\ decoding' # NoAnswer /\ k = decoding'.key
  BY Typed DEF Base, Turn
<1>2. CASE decoding' = decoding
  BY <1>1, <1>2 DEF Turn
<1>3. CASE SetSessionNonce /\ decoding' = Head(answers) /\ answers # <<>>
  <2>1. Head(answers) \in Answers
    BY <1>1, <1>3, Dropped
  <2>2. Head(answers) \in AnswersOf(k)
    BY <1>1, <1>3, <2>1, AnswerOf
  <2>3. Has(answers, AnswersOf(k))
    BY <1>1, <1>3, <2>2, Dropped
  <2> QED
    BY <1>3, <2>3 DEF Turn
<1> QED
  BY <1>1, <1>2, <1>3, Decoded

\* The turn passes from one place to another.
LEMMA Handed ==
  ASSUME NEW k, Exclusive(k), NEW src \in Places, NEW dst \in Places, ~Turn(k, src)' \/ src = dst,
         \A p \in Places : Turn(k, p)' => Turn(k, p) \/ (p = dst /\ Turn(k, src))
  PROVE  Exclusive(k)'
<1> SUFFICES ASSUME NEW p \in Places, NEW r \in Places, Turn(k, p)', Turn(k, r)' PROVE p = r
  BY DEF Exclusive
<1> QED
  BY DEF Exclusive

LEMMA InTurnsStep ==
  ASSUME Base, Shielded, "link" \notin crossed, InTurns, Unopened, Next
  PROVE  InTurns'
<1>1. /\ TypeOK /\ air \in Seq(Messages) /\ answers \in Seq(Answers)
      /\ key \in {0} \cup opened /\ opened \subseteq tickets /\ appSealed \subseteq tickets \X Nat
      /\ \A i \in 1..Len(air) : Message(air[i], tickets, appSealed)
      /\ \A i \in 1..Len(answers) : Reply(answers[i], opened)
      /\ decoding # NoAnswer => Reply(decoding, opened)
      /\ serving = "turning" => key # 0
  BY Typed DEF Base, Numbered, Drawn, Addressed, NoKey
<1>2. \A i \in 1..Len(air) : air[i].kind = "request" =>
        /\ <<air[i].key, air[i].nonce>> \in appSealed /\ air[i].nonce \in Nat
        /\ air[i].key \in tickets
  <2>1. \A i \in 1..Len(air) : air[i] \in Messages
    BY <1>1
  <2>2. \A m \in Messages : m.nonce \in Nat
    BY DEF Messages
  <2>3. ASSUME NEW i \in 1..Len(air), air[i].kind = "request"
        PROVE  <<air[i].key, air[i].nonce>> \in appSealed
    BY <1>1, <2>3 DEF Message
  <2> QED
    BY <1>1, <2>1, <2>2, <2>3
\* Nobody has the turn under a key before its ticket is there.
<1>3. ASSUME NEW k, k \notin tickets PROVE ~Turn(k, "air") /\ ~Turn(k, "lock") /\ ~Turn(k, "back")
                                           /\ ~Turn(k, "decode")
  <2>1. ~Turn(k, "air")
    <3>1. \A i \in 1..Len(air) : air[i] \in RequestsOf(k) => air[i].kind = "request" /\ air[i].key = k
      BY <1>1, RequestOf
    <3> QED
      BY <1>2, <1>3, <3>1 DEF Turn, Has
  <2>2. ~Turn(k, "lock") /\ ~Turn(k, "decode")
    BY <1>1, <1>3 DEF Turn, Reply
  <2>3. ~Turn(k, "back")
    <3>1. \A i \in 1..Len(answers) : answers[i] \in AnswersOf(k) => answers[i].key = k
      BY <1>1, AnswerOf
    <3> QED
      BY <1>1, <1>3, <3>1 DEF Turn, Has, Reply
  <2> QED
    BY <2>1, <2>2, <2>3
\* Nor when it is being opened.
<1>4. ASSUME OpenTicket PROVE \A p \in Places : ~Turn(master, p)
  <2>1. serving = "opening" /\ Unused(appSealed, master)
    BY <1>4 DEF OpenTicket, Unopened
  <2>2. Shield /\ ~Has(intents, Enabling) /\ answers = <<>> /\ decoding = NoAnswer
    BY <2>1 DEF Shielded
  <2>3. ~Turn(master, "app") /\ ~Turn(master, "lock") /\ ~Turn(master, "decode")
    BY <2>1, <2>2 DEF Turn, Armed, Shield
  <2>4. ~Turn(master, "back")
    BY <2>2, Nothing DEF Turn
  <2>5. ~Turn(master, "air")
    <3>1. \A i \in 1..Len(air) : air[i] \in RequestsOf(master) =>
            air[i].kind = "request" /\ air[i].key = master
      BY <1>1, RequestOf
    <3> QED
      BY <1>2, <2>1, <3>1 DEF Turn, Has, Unused
  <2> QED
    BY <2>3, <2>4, <2>5 DEF Places
<1>5. ASSUME NEW k \in tickets' PROVE Exclusive(k)'
  <2>1. CASE k \notin tickets
    <3>1. OnSessionKey
      BY <2>1, <1>5, Steps, TicketsKept DEF Crashes, PressCrash
    <3>2. ~Turn(k, "air")' /\ ~Turn(k, "lock")' /\ ~Turn(k, "back")' /\ ~Turn(k, "decode")'
      <4>1. ~Press /\ ~OpenTicket /\ ~AnswerRequest /\ ~SetSessionNonce /\ ~TakeRequest
        BY <1>5, <2>1, TicketsKept DEF Firmware, Binder
      <4> QED
        BY <1>3, <2>1, <4>1, TurnOfAir, TurnOfLock, TurnOfBack, TurnOfDecode
    <3> QED
      BY <3>2 DEF Exclusive, Places
  <2>2. CASE k \in tickets
    <3> USE DEF Places
    <3>1. Exclusive(k)
      BY <2>2 DEF InTurns
    <3>2. ~OnSessionKey \/ k # appKey'
      BY <2>2, TicketSent
    <3>3. CASE Press
      <4>1. ~Turn(k, "app")'
        <5>1. button' = FALSE /\ intents' = intents /\ ~Has(intents, Enabling)
          BY <3>3 DEF Press, InTurns, Alone
        <5> QED
          BY <5>1 DEF Turn, Armed
      <4>2. \A p \in Places : Turn(k, p)' => Turn(k, p) \/ (p = "air" /\ Turn(k, "app"))
        <5>1. ~OnSessionKey /\ ~Decrypt /\ ~TakeRequest /\ ~OpenTicket /\ ~AnswerRequest
              /\ ~SetSessionNonce
          <6>1. presses' = presses + 1 /\ presses \in Nat
            BY <1>1, <3>3 DEF Press, TypeOK
          <6> QED
            BY <6>1 DEF OnSessionKey, Decrypt, TakeRequest, OpenTicket, AnswerRequest,
               SetSessionNonce, history
        <5>2. Turn(appKey, "app")
          BY <3>3 DEF Press, Turn, Armed
        <5> QED
          BY <5>1, <5>2, TurnOfApp, TurnOfAir, TurnOfLock, TurnOfBack, TurnOfDecode
      <4> QED
        BY <3>1, <4>1, <4>2, Handed
    <3>4. CASE TakeRequest /\ serving' = "turning"
      <4>1. air # <<>> /\ air' = Tail(air) /\ Received.kind = "request" /\ Received.key = key
            /\ key' = key /\ serving = "open"
        BY <3>4 DEF TakeRequest, L!Rotate, L!Take, lock
      <4>2. k = key => ~Turn(k, "air")'
        <5>1. Received = Head(air) /\ Head(air) \in Messages
          BY <1>1, <4>1, Dropped DEF Received
        <5>2. k = key => Head(air) \in RequestsOf(k)
          BY <4>1, <5>1, RequestOf
        <5>3. Once(air, RequestsOf(k))
          BY <2>2 DEF InTurns
        <5> QED
          BY <1>1, <4>1, <5>2, <5>3, Dropped DEF Turn
      <4>3. ~Press /\ ~OnSessionKey /\ ~Decrypt /\ ~OpenTicket /\ ~AnswerRequest /\ ~SetSessionNonce
        BY <3>4, <4>1 DEF Press, OnSessionKey, Decrypt, OpenTicket, AnswerRequest, SetSessionNonce,
           device
      <4>4. CASE k = key
        <5>1. \A p \in Places : Turn(k, p)' => Turn(k, p) \/ (p = "lock" /\ Turn(k, "air"))
          BY <4>3, TurnOfApp, TurnOfAir, TurnOfLock, TurnOfBack, TurnOfDecode
        <5> QED
          BY <3>1, <4>2, <4>4, <5>1, Handed
      <4>5. CASE k # key
        <5>1. \A p \in Places : Turn(k, p)' => Turn(k, p)
          BY <4>3, <4>5, TurnOfApp, TurnOfAir, TurnOfLock, TurnOfBack, TurnOfDecode
        <5> QED
          BY <3>1, <5>1 DEF Exclusive
      <4> QED
        BY <4>4, <4>5
    <3>5. CASE AnswerRequest
      <4>1. serving = "turning" /\ serving' = "open"
        BY <3>5 DEF AnswerRequest
      <4>2. ~Press /\ ~OnSessionKey /\ ~Decrypt /\ ~OpenTicket /\ ~TakeRequest /\ ~SetSessionNonce
        BY <4>1 DEF Press, OnSessionKey, Decrypt, OpenTicket, TakeRequest, SetSessionNonce, device
      <4>3. ~Turn(k, "lock")' /\ Turn(key, "lock")
        BY <4>1 DEF Turn
      <4>4. \A p \in Places : Turn(k, p)' => Turn(k, p) \/ (p = "back" /\ Turn(k, "lock"))
        BY <4>2, <4>3, TurnOfApp, TurnOfAir, TurnOfLock, TurnOfBack, TurnOfDecode
      <4> QED
        BY <3>1, <4>3, <4>4, Handed
    <3>6. CASE SetSessionNonce
      <4>1. answers # <<>> /\ answers' = Tail(answers) /\ Head(answers) \in Answers
            /\ (decoding' = decoding \/ decoding' = Head(answers)) /\ decoding = NoAnswer
        BY <1>1, <3>6, Dropped DEF SetSessionNonce
      <4>2. ~Press /\ ~OnSessionKey /\ ~Decrypt /\ ~OpenTicket /\ ~TakeRequest /\ ~AnswerRequest
        <5>1. answers' # answers
          BY <1>1, <4>1, Dropped
        <5>2. Len(answers') < Len(answers)
          BY <1>1, <4>1, Dropped
        <5>3. ~OpenTicket /\ ~AnswerRequest
          BY <3>6 DEF SetSessionNonce, OpenTicket, AnswerRequest, device
        <5> QED
          BY <5>1, <5>3 DEF Press, OnSessionKey, Decrypt, TakeRequest, device
      <4>3. CASE Turn(k, "decode")'
        <5>1. decoding' = Head(answers) /\ k = Head(answers).key
          BY <4>1, <4>3 DEF Turn
        <5>2. Head(answers) \in AnswersOf(k) /\ Once(answers, AnswersOf(k))
          BY <2>2, <4>1, <5>1, AnswerOf DEF InTurns
        <5>3. ~Turn(k, "back")'
          BY <1>1, <4>1, <5>2, Dropped DEF Turn
        <5>4. \A p \in Places : Turn(k, p)' => Turn(k, p) \/ (p = "decode" /\ Turn(k, "back"))
          BY <4>2, TurnOfApp, TurnOfAir, TurnOfLock, TurnOfBack, TurnOfDecode
        <5> QED
          BY <3>1, <5>3, <5>4, Handed
      <4>4. CASE ~Turn(k, "decode")'
        <5>1. \A p \in Places : Turn(k, p)' => Turn(k, p)
          BY <4>2, <4>4, TurnOfApp, TurnOfAir, TurnOfLock, TurnOfBack
        <5> QED
          BY <3>1, <5>1 DEF Exclusive
      <4> QED
        BY <4>3, <4>4
    <3>7. CASE Decrypt
      <4>1. decoding # NoAnswer /\ decoding' = NoAnswer
        BY <3>7 DEF Decrypt
      <4>2. ~Press /\ ~OnSessionKey /\ ~SetSessionNonce /\ ~OpenTicket /\ ~TakeRequest /\ ~AnswerRequest
        BY <4>1 DEF Press, OnSessionKey, SetSessionNonce, OpenTicket, TakeRequest, AnswerRequest,
           crypto
      <4>3. ~Turn(k, "decode")'
        BY <4>1 DEF Turn
      <4>4. \A p \in Places : Turn(k, p)' => Turn(k, p) \/ (p = "app" /\ Turn(k, "decode"))
        BY <4>2, TurnOfApp, TurnOfAir, TurnOfLock, TurnOfBack, TurnOfDecode
      <4> QED
        BY <3>1, <4>3, <4>4, Handed
    <3>8. CASE OpenTicket
      <4>1. serving = "opening" /\ serving' = "open"
        BY <3>8 DEF OpenTicket
      <4>2. ~Press /\ ~OnSessionKey /\ ~Decrypt /\ ~AnswerRequest /\ ~TakeRequest /\ ~SetSessionNonce
        BY <4>1 DEF Press, OnSessionKey, Decrypt, AnswerRequest, TakeRequest, SetSessionNonce, device
      <4>3. CASE k = master
        <5>1. \A p \in Places : Turn(k, p)' => p = "back"
          BY <1>4, <3>8, <4>2, <4>3, TurnOfApp, TurnOfAir, TurnOfLock, TurnOfBack, TurnOfDecode
        <5> QED
          BY <5>1 DEF Exclusive
      <4>4. CASE k # master
        <5>1. \A p \in Places : Turn(k, p)' => Turn(k, p)
          BY <4>2, <4>4, TurnOfApp, TurnOfAir, TurnOfLock, TurnOfBack, TurnOfDecode
        <5> QED
          BY <3>1, <5>1 DEF Exclusive
      <4> QED
        BY <4>3, <4>4
    <3>9. CASE ~Press /\ ~(TakeRequest /\ serving' = "turning") /\ ~AnswerRequest
               /\ ~SetSessionNonce /\ ~Decrypt /\ ~OpenTicket
      <4>1. \A p \in Places : Turn(k, p)' => Turn(k, p)
        BY <3>2, <3>9, TurnOfApp, TurnOfAir, TurnOfLock, TurnOfBack, TurnOfDecode
      <4> QED
        BY <3>1, <4>1 DEF Exclusive
    <3> QED
      BY <3>3, <3>4, <3>5, <3>6, <3>7, <3>8, <3>9
  <2> QED
    BY <2>1, <2>2
<1>6. ASSUME NEW k \in tickets' PROVE Once(air', RequestsOf(k))
  <2>1. Once(air, RequestsOf(k))
    <3>1. CASE k \in tickets
      BY <3>1 DEF InTurns
    <3>2. CASE k \notin tickets
      BY <1>3, <3>2 DEF Turn, Has, Once
    <3> QED
      BY <3>1, <3>2
  <2>2. CASE OnSessionKey
    <3>1. PICK m \in Messages :
            /\ m.kind = "ticket"
            /\ air' = IF link \in {"found", "ready"} THEN Append(air, m) ELSE air
      BY <2>2, TicketSent
    <3>2. m \notin RequestsOf(k)
      BY <3>1, RequestOf
    <3> QED
      BY <1>1, <2>1, <3>1, <3>2, Appended
  <2>3. CASE Press
    <3>1. PICK m \in Messages :
            /\ m.key = appKey
            /\ air' = IF link \in {"found", "ready"} THEN Append(air, m) ELSE air
      BY <2>3, RequestSent
    <3>2. m \in RequestsOf(k) => ~Has(air, RequestsOf(k))
      <4>1. Turn(appKey, "app") /\ appKey \in tickets
        BY <2>3, RequestSent DEF Press, Turn, Armed
      <4>2. ~Turn(appKey, "air")
        BY <4>1 DEF InTurns, Exclusive, Places
      <4> QED
        BY <3>1, <4>2, RequestOf DEF Turn
    <3> QED
      BY <1>1, <2>1, <3>1, <3>2, Appended
  <2> QED
    BY <1>1, <2>1, <2>2, <2>3, Steps, AirKept DEF Part
<1>7. ASSUME NEW k \in tickets' PROVE Once(answers', AnswersOf(k))
  <2>1. Once(answers, AnswersOf(k))
    <3>1. CASE k \in tickets
      BY <3>1 DEF InTurns
    <3>2. CASE k \notin tickets
      BY <1>3, <3>2 DEF Turn, Has, Once
    <3> QED
      BY <3>1, <3>2
  <2>2. CASE OpenTicket \/ AnswerRequest
    <3>1. PICK a \in Answers :
            /\ a.key = key'
            /\ answers' = IF link = "ready" /\ ~gone THEN Append(answers, a) ELSE answers
      BY <2>2, Answered
    <3>2. k = key' => ~Has(answers, AnswersOf(k))
      <4>1. CASE OpenTicket
        <5>1. key' = master
          BY <4>1 DEF OpenTicket, L!Open
        <5> QED
          BY <1>4, <4>1, <5>1 DEF Turn, Places
      <4>2. CASE AnswerRequest
        <5>1. key' = key /\ Turn(key, "lock") /\ key \in tickets
          BY <1>1, <4>2 DEF AnswerRequest, L!Respond, Turn
        <5>2. ~Turn(key, "back")
          BY <5>1 DEF InTurns, Exclusive, Places
        <5> QED
          BY <5>1, <5>2 DEF Turn
      <4> QED
        BY <2>2, <4>1, <4>2
    <3>3. a \in AnswersOf(k) => ~Has(answers, AnswersOf(k))
      BY <3>1, <3>2, AnswerOf
    <3> QED
      BY <1>1, <2>1, <3>1, <3>3, Appended
  <2> QED
    BY <1>1, <2>1, <2>2, AnswersKept DEF Part
<1>8. Alone'
  <2>1. Decrypt => ~Armed \/ intents' = intents
    <3>1. ASSUME Decrypt, intents' # intents PROVE ~Armed
      <4>1. Turn(appKey, "decode") /\ decoding.key = appKey
        BY <3>1, Decrypted DEF Turn
      <4>2. appKey \in tickets
        BY <1>1, <3>1, <4>1, Decrypted DEF Reply
      <4>3. ~Turn(appKey, "app")
        BY <4>1, <4>2 DEF InTurns, Exclusive, Places
      <4> QED
        BY <4>3 DEF Turn
    <3> QED
      BY <3>1
  <2> QED
    BY <2>1, AloneStep DEF InTurns
<1> QED
  BY <1>5, <1>6, <1>7, <1>8 DEF InTurns

-----------------------------------------------------------------------------
(* Nonces only grow.                                                       *)

LEMMA Above ==
  ASSUME NEW U, NEW k, NEW n \in Nat, UpTo(U, k, n)
  PROVE  UpTo(U \cup {<<k, n + 1>>}, k, n + 1)
BY DEF UpTo

\* Whoever encrypts has the turn under its key, and nobody else.
LEMMA Pressing ==
  ASSUME Base, InTurns, Press \/ PressCrash
  PROVE  /\ appSealed' = appSealed \cup {<<appKey, appNonce + 1>>} /\ appNonce \in Nat
         /\ Armed /\ appKey \in tickets /\ UpTo(appSealed, appKey, appNonce)
         /\ \A k, n : k # appKey /\ UpTo(appSealed, k, n) => UpTo(appSealed', k, n)
         /\ \A i \in 1..Len(air) : air[i].kind = "request" => air[i].key # appKey
         /\ serving = "turning" => key # appKey
<1>1. /\ appSealed' = appSealed \cup {<<appKey, appNonce + 1>>} /\ button /\ ~dialog
  BY DEF Press, PressCrash, AuthEncrypt
<1>2. /\ TypeOK /\ appNonce \in Nat /\ appKey \in tickets /\ UpTo(appSealed, appKey, appNonce)
      /\ air \in Seq(Messages)
  BY <1>1, Typed DEF Base, TypeOK, Drawn, NoKey, UpTo
<1>3. Armed /\ Turn(appKey, "app") /\ Exclusive(appKey)
  BY <1>1, <1>2 DEF Armed, Turn, InTurns
<1>4. ~Turn(appKey, "air") /\ ~Turn(appKey, "lock")
  BY <1>3 DEF Exclusive, Places
<1>5. ASSUME NEW i \in 1..Len(air), air[i].kind = "request", air[i].key = appKey PROVE FALSE
  <2>1. air[i] \in RequestsOf(appKey)
    BY <1>2, <1>5, RequestOf
  <2> QED
    BY <1>4, <2>1 DEF Turn, Has
<1>6. \A k, n : k # appKey /\ UpTo(appSealed, k, n) => UpTo(appSealed', k, n)
  BY <1>1 DEF UpTo
<1> QED
  BY <1>1, <1>2, <1>3, <1>4, <1>5, <1>6 DEF Turn

LEMMA Answering ==
  ASSUME Base, InTurns, AnswerRequest
  PROVE  /\ key' = key /\ nonce' = nonce + 1 /\ sealed' = sealed \cup {<<key, nonce + 1>>}
         /\ nonce \in Nat /\ key \in tickets /\ UpTo(sealed, key, nonce)
         /\ serving = "turning" /\ serving' = "open"
         /\ \A k, n : k # key /\ UpTo(sealed, k, n) => UpTo(sealed', k, n)
         /\ Armed => appKey # key
         /\ \A i \in 1..Len(answers) : answers[i].key # key
         /\ decoding # NoAnswer => decoding.key # key
<1>1. /\ key' = key /\ nonce' = nonce + 1 /\ sealed' = sealed \cup {<<key, nonce + 1>>}
      /\ serving = "turning" /\ serving' = "open"
  BY DEF AnswerRequest, L!Respond
<1>2. /\ TypeOK /\ nonce \in Nat /\ key \in tickets /\ UpTo(sealed, key, nonce)
      /\ answers \in Seq(Answers)
  BY <1>1, Typed DEF Base, Numbered, UpTo
<1>3. Turn(key, "lock") /\ Exclusive(key)
  BY <1>1, <1>2 DEF Turn, InTurns
<1>4. ~Turn(key, "app") /\ ~Turn(key, "back") /\ ~Turn(key, "decode")
  BY <1>3 DEF Exclusive, Places
<1>5. ASSUME NEW i \in 1..Len(answers), answers[i].key = key PROVE FALSE
  <2>1. answers[i] \in AnswersOf(key)
    BY <1>2, <1>5, AnswerOf
  <2> QED
    BY <1>4, <2>1 DEF Turn, Has
<1>6. \A k, n : k # key /\ UpTo(sealed, k, n) => UpTo(sealed', k, n)
  BY <1>1 DEF UpTo
<1> QED
  BY <1>1, <1>2, <1>4, <1>5, <1>6 DEF Turn

LEMMA Opening ==
  ASSUME Base, Shielded, "link" \notin crossed, OpenTicket
  PROVE  /\ key' = master /\ nonce' = 1 /\ sealed' = sealed \cup {<<master, 1>>}
         /\ Unused(sealed, master) /\ serving' = "open"
         /\ ~Armed /\ answers = <<>> /\ decoding = NoAnswer
<1>1. /\ key' = master /\ nonce' = 1 /\ sealed' = sealed \cup {<<master, 1>>}
      /\ serving = "opening" /\ serving' = "open" /\ \A n \in opened : n < master
  BY DEF OpenTicket, L!Open
<1>2. Unused(sealed, master)
  <2>1. master \notin opened
    BY <1>1 DEF Base, Numbered, TypeOK, NoKey
  <2> QED
    BY <2>1 DEF Base, Numbered, Unused
<1> QED
  BY <1>1, <1>2 DEF Shielded, Armed, Shield

\* The lock encrypts as it opens a ticket and as it answers; the app as a
\* button is pressed.
LEMMA Sealing ==
  ASSUME Base, Next
  PROVE  /\ sealed' = sealed \/ OpenTicket \/ AnswerRequest
         /\ appSealed' = appSealed \/ Press \/ PressCrash
BY OpenedKept, Steps, SealedKept DEF Crashes

\* The app's nonce under a key that stays.
LEMMA NonceGrows ==
  ASSUME Base, Next, Armed'
  PROVE  /\ appNonce \in Nat /\ appNonce' \in Nat
         /\ \/ appKey' = appKey /\ appNonce <= appNonce'
            \/ OnSessionKey
<1>1. TypeOK /\ appNonce \in Nat
  BY DEF Base, TypeOK
<1>2. CASE SetSessionNonce
  <2>1. answers # <<>> => Head(answers) \in Answers
    BY <1>1, Typed, Dropped
  <2>2. answers # <<>> => Head(answers).nonce \in Nat
    BY <2>1 DEF Answers
  <2> QED
    BY <1>1, <1>2, <2>2 DEF SetSessionNonce
<1>3. CASE Press
  BY <1>1, <1>3, RequestSent
<1>4. CASE OnSessionKey
  BY <1>1, <1>4, TicketSent
<1>5. CASE Crashes
  <2>1. button' = FALSE /\ intents' = <<>>
    BY <1>5 DEF Crashes, OnError, OnSessionKeyCrash, PressCrash, Crash
  <2> QED
    BY <2>1, Nothing DEF Armed
<1>6. CASE Radio \/ Screen \/ Decrypt \/ Firmware \/ Restart
  BY <1>1, <1>6 DEF Radio, LinkUp, OnConnected, OnServicesDiscovered, OnDescriptorWrite,
     LinkLost, ConnectFails, ReportEnd, Screen, OnBindService, OnUnbindService, ConnectTimeout, Connectivity, OnReceive,
     SessionKeyLost, Decrypt, Firmware, TakeTicket, OpenTicket, TakeRequest, AnswerRequest,
     Buffer, SeeLinkLost, Restart, crypto
<1> QED
  BY <1>2, <1>3, <1>4, <1>5, <1>6, Steps DEF Binder

LEMMA AheadStep ==
  ASSUME Base, Shielded, "link" \notin crossed, InTurns, Ahead, Next
  PROVE  Ahead'
<1>1. /\ TypeOK /\ air \in Seq(Messages) /\ answers \in Seq(Answers)
      /\ appNonce \in Nat /\ nonce \in Nat /\ sealed \subseteq tickets \X Nat
  BY Typed DEF Base, TypeOK, Numbered
<1>2. ASSUME Armed' PROVE UpTo(sealed', appKey', appNonce')
  <2>1. CASE OnSessionKey
    <3>1. appKey' \notin tickets /\ sealed' = sealed
      BY <2>1, TicketSent, LockKept
    <3> QED
      BY <1>1, <3>1 DEF UpTo
  <2>2. CASE ~OnSessionKey
    <3>1. appNonce \in Nat /\ appNonce' \in Nat /\ appKey' = appKey /\ appNonce <= appNonce'
      BY <1>2, <2>2, NonceGrows
    <3>2. UpTo(sealed, appKey, appNonce)
      BY <1>2, ArmedStep DEF Ahead
    <3>3. UpTo(sealed, appKey', appNonce')
      BY <3>1, <3>2 DEF UpTo
    <3>4. CASE sealed' = sealed
      BY <3>3, <3>4
    <3>5. CASE OpenTicket
      <4>1. ~Armed /\ ~Decrypt
        BY <3>5, Opening DEF Decrypt
      <4> QED
        BY <1>2, <4>1, ArmedStep
    <3>6. CASE AnswerRequest
      <4>1. Armed
        <5>1. Decrypt => serving' = serving
          BY LockKept DEF Decrypt, device
        <5> QED
          BY <1>2, <3>6, <5>1, ArmedStep, Answering
      <4> QED
        BY <3>1, <3>3, <3>6, <4>1, Answering
    <3> QED
      BY <3>4, <3>5, <3>6, Sealing
  <2> QED
    BY <2>1, <2>2
<1>3. ASSUME NEW i \in 1..Len(air'), air'[i].kind = "request"
      PROVE  UpTo(appSealed', air'[i].key, air'[i].nonce)
  <2>1. \A j \in 1..Len(air) : air[j].kind = "request" =>
          UpTo(appSealed', air[j].key, air[j].nonce)
    BY Sealing, Pressing DEF Ahead
  <2>2. CASE Part(air', air, Messages)
    BY <1>3, <2>1, <2>2 DEF Part
  <2>3. ASSUME NEW m \in Messages, air' = Append(air, m), i \notin 1..Len(air)
        PROVE  air'[i] = m
    BY <1>1, <1>3, <2>3
  <2>4. ASSUME NEW m \in Messages, air' = Append(air, m), i \in 1..Len(air)
        PROVE  air'[i] = air[i]
    BY <1>1, <1>3, <2>4
  <2>5. CASE OnSessionKey
    <3>1. PICK m \in Messages :
            /\ m.kind = "ticket"
            /\ air' = IF link \in {"found", "ready"} THEN Append(air, m) ELSE air
      BY <2>5, TicketSent
    <3>2. i \in 1..Len(air) /\ air'[i] = air[i]
      BY <1>3, <2>3, <2>4, <3>1
    <3> QED
      BY <1>3, <2>1, <3>2
  <2>6. CASE Press
    <3>1. PICK m \in Messages :
            /\ m.nonce = appNonce + 1 /\ m.key = appKey
            /\ air' = IF link \in {"found", "ready"} THEN Append(air, m) ELSE air
      BY <2>6, RequestSent
    <3>2. UpTo(appSealed', m.key, m.nonce)
      BY <2>6, <3>1, Pressing, Above
    <3> QED
      BY <1>3, <2>1, <2>3, <2>4, <3>1, <3>2
  <2> QED
    BY <1>1, <2>2, <2>5, <2>6, Steps, AirKept
<1>4. ASSUME serving' = "turning" PROVE UpTo(appSealed', key', nonce')
  <2>1. CASE TakeRequest
    <3>1. appSealed' = appSealed
      BY <2>1, SealedKept DEF Firmware
    <3>2. air # <<>> /\ key' = key /\ nonce' = Received.nonce /\ Received.kind = "request"
          /\ Received.key = key
      BY <1>4, <2>1 DEF TakeRequest, L!Rotate, L!Take, lock
    <3>3. 1 \in 1..Len(air) /\ Received = air[1]
      BY <1>1, <3>2, Arrived
    <3> QED
      BY <3>1, <3>2, <3>3 DEF Ahead
  <2>2. CASE ~TakeRequest
    <3>1. serving = "turning" /\ UNCHANGED <<key, nonce>>
      <4>1. CASE Firmware \/ Restart
        BY <1>4, <2>2, <4>1 DEF Firmware, TakeTicket, OpenTicket, AnswerRequest, Buffer,
           SeeLinkLost, Restart, lock
      <4> QED
        BY <1>4, <4>1, Steps, LockKept
    <3>2. UpTo(appSealed, key, nonce)
      BY <3>1 DEF Ahead
    <3> QED
      BY <3>1, <3>2, Sealing, Pressing
  <2> QED
    BY <2>1, <2>2
<1>5. ASSUME NEW i \in 1..Len(answers') PROVE UpTo(sealed', answers'[i].key, answers'[i].nonce)
  <2>1. CASE OpenTicket \/ AnswerRequest
    <3>1. PICK a \in Answers :
            /\ a.key = key' /\ a.nonce = nonce'
            /\ answers' = IF link = "ready" /\ ~gone THEN Append(answers, a) ELSE answers
      BY <2>1, Answered
    <3>2. UpTo(sealed', a.key, a.nonce)
      <4>1. CASE OpenTicket
        BY <3>1, <4>1, Opening DEF UpTo, Unused
      <4>2. CASE AnswerRequest
        BY <3>1, <4>2, Answering, Above
      <4> QED
        BY <2>1, <4>1, <4>2
    <3>3. \A j \in 1..Len(answers) : UpTo(sealed', answers[j].key, answers[j].nonce)
      <4>1. CASE OpenTicket
        BY <4>1, Opening
      <4>2. CASE AnswerRequest
        BY <4>2, Answering DEF Ahead
      <4> QED
        BY <2>1, <4>1, <4>2
    <3>4. CASE answers' = answers
      BY <3>3, <3>4
    <3>5. CASE answers' = Append(answers, a)
      <4>1. answers'[i] = a \/ (i \in 1..Len(answers) /\ answers'[i] = answers[i])
        BY <1>1, <1>5, <3>5
      <4> QED
        BY <3>2, <3>3, <4>1
    <3> QED
      BY <3>1, <3>4, <3>5
  <2>2. CASE ~OpenTicket /\ ~AnswerRequest
    BY <1>1, <1>5, <2>2, AnswersKept, OpenedKept DEF Ahead, Part
  <2> QED
    BY <2>1, <2>2
<1>6. ASSUME decoding' # NoAnswer PROVE UpTo(sealed', decoding'.key, decoding'.nonce)
  <2>1. CASE OpenTicket \/ AnswerRequest
    <3>1. decoding' = decoding
      BY <2>1 DEF OpenTicket, AnswerRequest, crypto
    <3>2. AnswerRequest
      BY <1>6, <2>1, <3>1, Opening
    <3> QED
      BY <1>6, <3>1, <3>2, Answering DEF Ahead
  <2>2. CASE ~OpenTicket /\ ~AnswerRequest
    <3>1. sealed' = sealed
      BY <2>2, OpenedKept
    <3>2. CASE decoding' = decoding
      BY <1>6, <3>1, <3>2 DEF Ahead
    <3>3. CASE decoding' = Head(answers) /\ answers # <<>>
      <4>1. 1 \in 1..Len(answers) /\ decoding' = answers[1]
        BY <1>1, <3>3
      <4> QED
        BY <3>1, <4>1 DEF Ahead
    <3> QED
      BY <1>1, <1>6, <3>2, <3>3, Decoded
  <2> QED
    BY <2>1, <2>2
<1> QED
  BY <1>2, <1>3, <1>4, <1>5, <1>6 DEF Ahead

LEMMA UnopenedStep ==
  ASSUME Base, Shielded, "link" \notin crossed, InTurns, Unopened, Next
  PROVE  Unopened'
<1>1. /\ TypeOK /\ air \in Seq(Messages) /\ appSealed \subseteq tickets \X Nat
      /\ (serving = "none" => air = <<>>)
      /\ (serving \in {"connected", "opening"} => Shield)
  BY Typed DEF Base, Drawn, Linked, Shielded
<1>2. ASSUME serving' \in {"connected", "opening"} PROVE appSealed' = appSealed
  <2>1. CASE Press \/ PressCrash
    <3>1. button /\ ~dialog /\ serving' = serving
      BY <2>1, LockKept DEF Press, PressCrash, LinkUp, Crashes, Crash
    <3> QED
      BY <1>1, <1>2, <3>1 DEF Shield
  <2> QED
    BY <2>1, Sealing
<1>3. ASSUME serving' = "opening" PROVE Unused(appSealed', master')
  <2>1. CASE TakeTicket
    <3>1. CASE serving = "connected" /\ air # <<>> /\ Received.kind = "ticket"
                 /\ master' = Received.nonce
      <4>1. 1 \in 1..Len(air) /\ Received = air[1]
        BY <1>1, <3>1, Arrived
      <4> QED
        BY <1>2, <1>3, <3>1, <4>1 DEF Unopened
    <3> QED
      BY <1>3, <2>1, <3>1 DEF TakeTicket, L!Store
  <2>2. CASE ~TakeTicket
    <3>1. serving = "opening" /\ master' = master
      <4>1. CASE Firmware \/ Restart
        BY <1>3, <2>2, <4>1 DEF Firmware, TakeRequest, OpenTicket, AnswerRequest, Buffer,
           SeeLinkLost, Restart, lock
      <4> QED
        BY <1>3, <4>1, Steps, LockKept
    <3> QED
      BY <1>2, <1>3, <3>1 DEF Unopened
  <2> QED
    BY <2>1, <2>2
<1>4. ASSUME serving' = "connected", NEW i \in 1..Len(air'), air'[i].kind = "ticket"
      PROVE  Unused(appSealed', air'[i].nonce)
  <2>1. appSealed' = appSealed
    BY <1>2, <1>4
  <2>2. CASE LinkUp
    <3>1. air = <<>> /\ air' = air
      BY <1>1, <2>2 DEF LinkUp
    <3> QED
      BY <1>4, <3>1
  <2>3. CASE ~LinkUp
    <3>1. serving = "connected"
      <4>1. CASE Firmware \/ Restart
        BY <1>4, <4>1 DEF Firmware, TakeTicket, TakeRequest, OpenTicket, AnswerRequest, Buffer,
           SeeLinkLost, Restart, lock
      <4> QED
        BY <1>4, <2>3, <4>1, Steps, LockKept
    <3>2. \A j \in 1..Len(air) : air[j].kind = "ticket" => Unused(appSealed, air[j].nonce)
      BY <3>1 DEF Unopened
    <3>3. CASE Part(air', air, Messages)
      BY <1>4, <2>1, <3>2, <3>3 DEF Part
    <3>4. CASE OnSessionKey
      <4>1. PICK m \in Messages :
              /\ m.nonce = appKey' /\ appKey' \notin tickets
              /\ air' = IF link \in {"found", "ready"} THEN Append(air, m) ELSE air
        BY <3>4, TicketSent
      <4>2. Unused(appSealed, m.nonce)
        BY <1>1, <4>1 DEF Unused
      <4>3. air'[i] = m \/ (i \in 1..Len(air) /\ air'[i] = air[i])
        BY <1>1, <1>4, <4>1
      <4> QED
        BY <1>4, <2>1, <3>2, <4>2, <4>3
    <3>5. CASE Press
      <4>1. PICK m \in Messages :
              /\ m.kind = "request"
              /\ air' = IF link \in {"found", "ready"} THEN Append(air, m) ELSE air
        BY <3>5, RequestSent
      <4>3. air'[i] = m \/ (i \in 1..Len(air) /\ air'[i] = air[i])
        BY <1>1, <1>4, <4>1
      <4> QED
        BY <1>4, <2>1, <3>2, <4>1, <4>3
    <3> QED
      BY <1>1, <3>3, <3>4, <3>5, Steps, AirKept
  <2> QED
    BY <2>2, <2>3
<1> QED
  BY <1>3, <1>4 DEF Unopened

LEMMA DisjointStep ==
  ASSUME Base, Shielded, "link" \notin crossed, InTurns, Ahead, Unopened, Next,
         appSealed \cap sealed = {}
  PROVE  (appSealed \cap sealed = {})'
<1>1. CASE OpenTicket
  <2>1. Unused(appSealed, master) /\ sealed' = sealed \cup {<<master, 1>>}
    BY <1>1, Opening DEF Unopened, OpenTicket
  <2>2. appSealed' = appSealed
    BY <1>1, SealedKept DEF Firmware
  <2>3. <<master, 1>> \notin appSealed
    BY <2>1 DEF Unused
  <2> QED
    BY <2>1, <2>2, <2>3
<1>2. CASE AnswerRequest
  <2>1. UpTo(appSealed, key, nonce) /\ sealed' = sealed \cup {<<key, nonce + 1>>} /\ nonce \in Nat
    BY <1>2, Answering DEF Ahead
  <2>2. appSealed' = appSealed
    BY <1>2, SealedKept DEF Firmware
  <2>3. <<key, nonce + 1>> \notin appSealed
    BY <2>1 DEF UpTo
  <2> QED
    BY <2>1, <2>2, <2>3
<1>3. CASE Press \/ PressCrash
  <2>1. /\ UpTo(sealed, appKey, appNonce) /\ appNonce \in Nat
        /\ appSealed' = appSealed \cup {<<appKey, appNonce + 1>>}
    BY <1>3, Pressing DEF Ahead
  <2>2. sealed' = sealed
    BY <1>3, LockKept DEF Crashes
  <2>3. <<appKey, appNonce + 1>> \notin sealed
    BY <2>1 DEF UpTo
  <2> QED
    BY <2>1, <2>2, <2>3
<1> QED
  BY <1>1, <1>2, <1>3, Sealing

LEMMA SharedInit == Init => Shielded /\ Apart
<1> SUFFICES ASSUME Init PROVE Shielded /\ Apart
  OBVIOUS
<1> USE DEF Init, Closed, L!Init
<1>1. /\ gatt = "none" /\ serving = "none" /\ ~button /\ decoding = NoAnswer /\ tickets = {}
      /\ air = <<>> /\ answers = <<>> /\ sealed = {} /\ ~Has(intents, Enabling)
  BY Nothing
<1>2. Shielded
  BY <1>1 DEF Shielded
<1>3. InTurns
  BY <1>1, Nothing DEF InTurns, Alone
<1>4. Ahead /\ Unopened
  BY <1>1 DEF Ahead, Unopened, Armed
<1> QED
  BY <1>1, <1>2, <1>3, <1>4 DEF Apart

LEMMA SharedStep ==
  ASSUME Base, Shielded, Apart, [Next]_vars
  PROVE  Shielded' /\ Apart'
<1>1. CASE Next
  <2>1. Shielded'
    BY <1>1, ShieldedStep
  <2>2. ASSUME "link" \notin crossed' PROVE "link" \notin crossed
    BY <1>1, <2>2, CrossedGrows
  <2>3. ASSUME "link" \notin crossed PROVE (appSealed \cap sealed = {})' /\ InTurns' /\ Ahead' /\ Unopened'
    BY <1>1, <2>3, DisjointStep, InTurnsStep, AheadStep, UnopenedStep DEF Apart
  <2> QED
    BY <2>1, <2>2, <2>3 DEF Apart
<1>2. CASE UNCHANGED vars
  <2> USE <1>2 DEF vars, app, crypto, bluetooth, device, history, lock
  <2>1. Shielded'
    BY Zenon DEF Shielded, Shield
  <2>2. InTurns' <=> InTurns
    <3>1. Alone' <=> Alone
      BY Zenon DEF Alone
    <3>2. \A k, p : Turn(k, p)' <=> Turn(k, p)
      <4>1. Armed' <=> Armed
        BY Zenon DEF Armed
      <4>2. \A k : Has(air', RequestsOf(k)) <=> Has(air, RequestsOf(k))
        BY Zenon
      <4>3. \A k : Has(answers', AnswersOf(k)) <=> Has(answers, AnswersOf(k))
        BY Zenon
      <4> QED
        BY <4>1, <4>2, <4>3, Zenon DEF Turn
    <3>3. \A k : Exclusive(k)' <=> Exclusive(k)
      BY <3>2, Zenon DEF Exclusive
    <3>4. \A k : Once(air', RequestsOf(k)) /\ Once(answers', AnswersOf(k))
               <=> Once(air, RequestsOf(k)) /\ Once(answers, AnswersOf(k))
      BY Zenon
    <3> QED
      BY <3>1, <3>3, <3>4, Zenon DEF InTurns
  <2>3. Ahead' <=> Ahead
    BY Zenon DEF Ahead, Armed
  <2>4. Unopened' <=> Unopened
    BY Zenon DEF Unopened
  <2> QED
    BY <2>1, <2>2, <2>3, <2>4 DEF Apart
<1> QED
  BY <1>1, <1>2

-----------------------------------------------------------------------------
(* Nonces alternate.                                                       *)

LEMMA Parity ==
  /\ Odd(1) /\ \A n \in Nat : (Odd(n) => Even(n + 1)) /\ (Even(n) => Odd(n + 1))
BY DEF Odd, Even

\* The lock encrypts at 1, or at the nonce after a request's.
LEMMA OddSealed ==
  ASSUME Base, Shielded, "link" \notin crossed, InTurns, Alternate, Next
  PROVE  /\ \A s \in sealed' : Odd(s[2])
         /\ OpenTicket \/ AnswerRequest => Odd(nonce')
<1>1. CASE OpenTicket
  BY <1>1, Opening, Parity DEF Alternate
<1>2. CASE AnswerRequest
  BY <1>2, Answering, Parity DEF Alternate
<1> QED
  BY <1>1, <1>2, Sealing DEF Alternate

\* The app's nonce, with the turn, is that of the answer that gave it the turn.
LEMMA OddArmed ==
  ASSUME Base, Shielded, "link" \notin crossed, InTurns, Alternate, Next, InTurns',
         Armed', appKey' \in opened'
  PROVE  Odd(appNonce')
<1>1. /\ TypeOK /\ answers \in Seq(Answers) /\ opened \subseteq tickets
  BY Typed DEF Base, Numbered
<1>2. ~OnSessionKey
  BY <1>1, TicketSent, LockKept
<1>3. ~Press /\ ~PressCrash /\ appKey' = appKey
  <2>1. Press => ~Armed'
    <3>1. ASSUME Press PROVE /\ ~Has(intents, Enabling) /\ intents' = intents /\ ~button'
      BY <3>1 DEF Press, InTurns, Alone
    <3> QED BY <3>1 DEF Armed
  <2>2. PressCrash => ~Armed'
    BY Nothing DEF PressCrash, Crash, Armed
  <2> QED BY <1>2, <2>1, <2>2, NonceGrows
<1>4. ~OpenTicket /\ appKey \in opened
  <2>1. ASSUME OpenTicket PROVE FALSE
    <3>1. ~Armed /\ ~Decrypt
      BY <2>1, Opening DEF Decrypt
    <3> QED BY <3>1, ArmedStep
  <2>2. AnswerRequest => opened' = opened
    BY DEF AnswerRequest, L!Respond
  <2> QED BY <1>3, <2>1, <2>2, OpenedKept
<1>5. CASE Decrypt
  <2>1. appNonce' = appNonce
    BY <1>5 DEF Decrypt
  <2> QED BY <1>4, <1>5, <2>1, ArmedStep DEF Alternate
<1>6. CASE SetSessionNonce
  <2>1. CASE Head(answers).nonce > appNonce
    <3>1. appNonce' = Head(answers).nonce /\ answers # <<>>
      BY <1>6, <2>1 DEF SetSessionNonce
    <3>2. 1 \in 1..Len(answers) /\ Head(answers) = answers[1]
      BY <1>1, <3>1
    <3> QED BY <3>1, <3>2 DEF Alternate
  <2>2. CASE ~(Head(answers).nonce > appNonce)
    <3>1. appNonce' = appNonce /\ ~Decrypt
      BY <1>6, <2>2 DEF SetSessionNonce, Decrypt
    <3> QED BY <1>4, <3>1, ArmedStep DEF Alternate
  <2> QED BY <2>1, <2>2
<1>7. CASE ~Decrypt /\ ~SetSessionNonce
  <2>1. Armed
    BY <1>7, ArmedStep
  <2>2. appNonce' = appNonce
    <3>1. CASE Crashes
      <4>1. button' = FALSE /\ intents' = <<>>
        BY <3>1 DEF Crashes, OnError, OnSessionKeyCrash, PressCrash, Crash
      <4> QED BY <4>1, Nothing DEF Armed
    <3>2. CASE Radio \/ Screen \/ Firmware \/ Restart
      BY <3>2 DEF Radio, LinkUp, OnConnected, OnServicesDiscovered, OnDescriptorWrite,
         LinkLost, ConnectFails, ReportEnd, Screen, OnBindService, OnUnbindService, ConnectTimeout, Connectivity,
         OnReceive, SessionKeyLost, Firmware, TakeTicket, OpenTicket, TakeRequest,
         AnswerRequest, Buffer, SeeLinkLost, Restart, crypto
    <3> QED BY <1>2, <1>3, <1>7, <3>1, <3>2, Steps DEF Binder
  <2> QED BY <1>4, <2>1, <2>2 DEF Alternate
<1> QED BY <1>5, <1>6, <1>7

LEMMA AlternateStep ==
  ASSUME Base, Shielded, "link" \notin crossed, InTurns, Unopened, Alternate, Next, InTurns'
  PROVE  Alternate'
<1>1. /\ TypeOK /\ air \in Seq(Messages) /\ answers \in Seq(Answers)
      /\ appNonce \in Nat /\ nonce \in Nat
  BY Typed DEF Base, TypeOK, Numbered
<1>2. ASSUME NEW k \in opened', NEW n \in Nat, <<k, n>> \in appSealed' PROVE Even(n)
  <2>1. CASE OpenTicket
    <3>1. appSealed' = appSealed /\ opened' = opened \cup {master} /\ serving = "opening"
      BY <2>1, SealedKept DEF Firmware, OpenTicket, L!Open
    <3>2. k \in opened
      BY <1>2, <3>1 DEF Unopened, Unused
    <3> QED BY <1>2, <3>1, <3>2 DEF Alternate
  <2>2. CASE Press \/ PressCrash
    <3>1. /\ appSealed' = appSealed \cup {<<appKey, appNonce + 1>>} /\ Armed
          /\ opened' = opened
      BY <2>2, Pressing, LockKept DEF Crashes
    <3>2. CASE <<k, n>> \in appSealed
      BY <1>2, <3>1, <3>2 DEF Alternate
    <3>3. CASE k = appKey /\ n = appNonce + 1
      BY <1>1, <1>2, <3>1, <3>3, Parity DEF Alternate
    <3> QED BY <1>2, <3>1, <3>2, <3>3
  <2>3. CASE ~OpenTicket /\ ~Press /\ ~PressCrash
    <3>1. appSealed' = appSealed
      BY <2>3, Sealing
    <3>2. opened' = opened
      <4>1. AnswerRequest => opened' = opened
        BY DEF AnswerRequest, L!Respond
      <4> QED BY <2>3, <4>1, OpenedKept
    <3> QED BY <1>2, <3>1, <3>2 DEF Alternate
  <2> QED BY <2>1, <2>2, <2>3
<1>3. ASSUME NEW i \in 1..Len(answers') PROVE Odd(answers'[i].nonce)
  <2>1. CASE OpenTicket \/ AnswerRequest
    <3>1. PICK m \in Answers :
            /\ m.nonce = nonce'
            /\ answers' = IF link = "ready" /\ ~gone THEN Append(answers, m) ELSE answers
      BY <2>1, Answered
    <3>2. answers'[i] = m \/ (i \in 1..Len(answers) /\ answers'[i] = answers[i])
      BY <1>1, <1>3, <3>1
    <3> QED BY <2>1, <3>1, <3>2, OddSealed DEF Alternate
  <2>2. CASE ~OpenTicket /\ ~AnswerRequest
    BY <1>1, <1>3, <2>2, AnswersKept DEF Alternate, Part
  <2> QED BY <2>1, <2>2
<1>4. ASSUME decoding' # NoAnswer PROVE Odd(decoding'.nonce)
  <2>1. CASE decoding' = decoding
    BY <1>4, <2>1 DEF Alternate
  <2>2. CASE decoding' = Head(answers) /\ answers # <<>>
    <3>1. 1 \in 1..Len(answers) /\ decoding' = answers[1]
      BY <1>1, <2>2
    <3> QED BY <3>1 DEF Alternate
  <2> QED BY <1>1, <1>4, <2>1, <2>2, Decoded
<1>5. ASSUME serving' = "turning" PROVE Even(nonce')
  <2>1. CASE TakeRequest
    <3>1. CASE serving = "turning" /\ nonce' = nonce
      BY <3>1 DEF Alternate
    <3>2. CASE ~(serving = "turning" /\ nonce' = nonce)
      <4>1. air # <<>> /\ nonce' = Received.nonce /\ Received.kind = "request"
            /\ Received.key = key /\ key \in opened
        BY <1>5, <2>1, <3>2 DEF TakeRequest, L!Rotate, L!Take, lock
      <4>2. <<key, Received.nonce>> \in appSealed /\ Received.nonce \in Nat
        BY <1>1, <4>1, Arrived DEF Base, Addressed, Message
      <4> QED BY <4>1, <4>2 DEF Alternate
    <3> QED BY <3>1, <3>2
  <2>2. CASE ~TakeRequest
    <3>1. serving = "turning" /\ nonce' = nonce
      <4>1. CASE Firmware \/ Restart
        BY <1>5, <2>2, <4>1 DEF Firmware, TakeTicket, OpenTicket, AnswerRequest, Buffer,
           SeeLinkLost, Restart, lock
      <4> QED BY <1>5, <4>1, Steps, LockKept
    <3> QED BY <3>1 DEF Alternate
  <2> QED BY <2>1, <2>2
<1>6. Armed' /\ appKey' \in opened' => Odd(appNonce')
  BY OddArmed
<1>7. \A s \in sealed' : Odd(s[2])
  BY OddSealed
<1> QED BY <1>2, <1>3, <1>4, <1>5, <1>6, <1>7 DEF Alternate

LEMMA AlternatingInit == Init => Alternating
<1> SUFFICES ASSUME Init PROVE Alternate
  BY DEF Alternating
<1>1. /\ sealed = {} /\ opened = {} /\ answers = <<>> /\ decoding = NoAnswer
      /\ serving = "none"
  BY DEF Init, Closed, L!Init
<1> QED BY <1>1 DEF Alternate

LEMMA AlternatingStep ==
  ASSUME Base, Shielded, Apart, Alternating, [Next]_vars
  PROVE  Alternating'
<1>1. CASE Next
  <2> SUFFICES ASSUME "link" \notin crossed' PROVE Alternate'
    BY DEF Alternating
  <2>1. "link" \notin crossed
    BY <1>1, CrossedGrows
  <2>2. InTurns /\ Unopened /\ InTurns' /\ Alternate
    BY <1>1, <2>1, SharedStep DEF Apart, Alternating
  <2> QED BY <1>1, <2>1, <2>2, AlternateStep
<1>2. CASE UNCHANGED vars
  BY <1>2, Zenon DEF vars, app, crypto, bluetooth, device, history, lock, Alternating,
     Alternate, Armed
<1> QED BY <1>1, <1>2

-----------------------------------------------------------------------------
(* One message at a time.                                                  *)

\* What is asked for on one link is not waited for on the next.
LEMMA AskedStep ==
  ASSUME Base, Asked, Next, crossed' = {}
  PROVE  Asked'
<1> USE DEF app, crypto, bluetooth, device
<1>1. /\ TypeOK /\ pending \in Nat /\ link \in {"none", "up", "found", "ready"}
      /\ intents \in Seq(Intents)
      /\ link = "ready" \/ Followed(intents, {"ready"})
      /\ Once(intents, {"ready"}) /\ (link # "none" => ~Has(intents, Ends))
      /\ gatt # "none" \/ intents # <<>> => bound
  BY Typed DEF Base, TypeOK, Broadcast, Linked
<1>2. ASSUME link' = link, pending' \in {0, pending},
             Has(intents, Ends) => Has(intents', Ends),
             Has(intents', {"ready"}) => Has(intents, {"ready"})
      PROVE  Asked'
  BY <1>2 DEF Asked
<1>3. ASSUME pending' = 0 PROVE Asked'
  BY <1>3 DEF Asked
<1>4. ASSUME link' = "none", Has(intents', Ends) PROVE Asked'
  BY <1>4 DEF Asked
<1>5. ASSUME NEW x \in Intents \ {"ready"}, intents' = Append(intents, x)
      PROVE  /\ Has(intents, Ends) \/ x \in Ends => Has(intents', Ends)
             /\ Has(intents', {"ready"}) => Has(intents, {"ready"})
  BY <1>1, <1>5, Queued
<1>6. CASE Crashes \/ OnUnbindService
  <2>1. pending' = 0
    BY <1>6 DEF OnUnbindService, Crashes, OnError, OnSessionKeyCrash, PressCrash, Crash
  <2> QED
    BY <1>3, <2>1
<1>7. CASE LinkUp
  <2>1. link = "none" /\ link' = "up" /\ pending' = pending /\ ~Has(intents, Ends)
    BY <1>1, <1>7, Contained, NoEnds DEF LinkUp
  <2> QED
    BY <1>3, <2>1 DEF Asked
<1>8. CASE OnConnected \/ OnServicesDiscovered
  <2>1. link = "up" /\ link' \in {"up", "found"} /\ pending' = pending
    BY <1>8 DEF OnConnected, OnServicesDiscovered
  <2> QED
    BY <1>3, <2>1 DEF Asked
<1>9. CASE OnDescriptorWrite
  <2>1. link = "found" /\ pending' = pending
    BY <1>9 DEF OnDescriptorWrite
  <2> QED
    BY <1>3, <2>1 DEF Asked
<1>10. CASE LinkLost \/ ConnectFails \/ (Restart /\ link # "none")
  <2>1. PICK x \in {"disconnected", "error"} : intents' = Append(intents, x)
    BY <1>10 DEF LinkLost, ConnectFails, Restart, ReportEnd
  <2>2. link' = "none" /\ x \in Ends /\ x \in Intents \ {"ready"}
    BY <1>10 DEF LinkLost, ConnectFails, LinkEnds, Restart, ReportEnd, Ends, Intents
  <2> QED
    BY <1>4, <1>5, <2>1, <2>2
<1>11. CASE (Restart /\ link = "none") \/ SetSessionNonce \/ Firmware \/ OnBindService \/ Press
  <2>1. UNCHANGED <<link, pending, intents>>
    BY <1>11 DEF Restart, SetSessionNonce, Firmware, TakeTicket, OpenTicket, TakeRequest,
       AnswerRequest, Buffer, SeeLinkLost, OnBindService, Press
  <2> QED
    BY <1>2, <2>1
<1>12. CASE Decrypt \/ Connectivity
  <2>1. UNCHANGED <<link, pending>>
    BY <1>12 DEF Decrypt, Connectivity
  <2>2. intents' = intents \/ \E x \in Intents \ {"ready"} : intents' = Append(intents, x)
    <3>1. CASE Connectivity
      <4>1. "connectivity" \in Intents \ {"ready"}
        BY DEF Intents
      <4> QED
        BY <3>1, <4>1 DEF Connectivity
    <3>2. CASE Decrypt
      <4>1. decoding.code # "ready"
        BY <3>2, Decrypted DEF Enabling
      <4> QED
        BY <3>2, <4>1, Decrypted
    <3> QED
      BY <1>12, <3>1, <3>2
  <2> QED
    BY <1>2, <1>5, <2>1, <2>2
<1>13. CASE ConnectTimeout
  <2>1. pending' = pending /\ link' = "none"
    BY <1>13 DEF ConnectTimeout, LinkEnds, LinkStays
  <2>2. /\ Has(intents, Ends) => Has(intents', Ends)
        /\ link # "none" => Has(intents', Ends)
        /\ Has(intents', {"ready"}) => Has(intents, {"ready"})
    BY <1>1, <1>13, TimedOut DEF Ends
  <2> QED
    BY <1>2, <1>4, <2>1, <2>2
<1>14. CASE OnSessionKey \/ SessionKeyLost
  <2>1. /\ UNCHANGED <<link, intents>>
        /\ pending' = pending \/ (pending > 0 /\ pending' = pending - 1)
    BY <1>14 DEF OnSessionKey, SessionKeyLost
  <2>2. pending' = pending \/ (pending > 0 /\ (pending = 1 => pending' = 0))
    BY <2>1
  <2> QED
    BY <2>1, <2>2 DEF Asked
<1>15. CASE OnReceive
  <2>1. /\ intents # <<>> /\ intents' = Tail(intents) /\ link' = link
        /\ \A S : Has(intents, S) <=> Head(intents) \in S \/ Has(intents', S)
        /\ \A S : Once(intents, S) => ~(Head(intents) \in S /\ Has(intents', S))
    <3>1. link' = link
      BY <1>15 DEF OnReceive, OnAnswered, OnReconnect, OnReady
    <3> QED
      BY <1>1, <1>15, <3>1, Taken
  <2>2. CASE Head(intents) \in Ends
    <3>1. Head(intents) = "disconnected" /\ OnReconnect(Head(intents))
      BY <1>15, <2>2 DEF OnReceive, OnAnswered, OnReconnect, OnReady, Ends
    <3>2. pending' = pending /\ ~(pending > 0)
      BY <3>1 DEF OnReconnect, Crossing
    <3>3. pending' = 0
      BY <1>1, <3>2
    <3> QED
      BY <1>3, <3>3
  <2>3. CASE Head(intents) = "ready" /\ OnReady(Head(intents))
    <3>1. pending' = pending + 1 /\ Has(intents, {"ready"}) /\ ~Has(intents', {"ready"})
      BY <1>1, <2>1, <2>3 DEF OnReady
    <3>2. link = "none" => Has(intents', Ends)
      BY <1>1, <2>1, <2>3, OrderDropped
    <3>3. link \in {"none", "ready"}
      BY <1>1, <3>1, NotFollowed
    <3>4. link = "ready" => pending' = 1
      BY <3>1 DEF Asked
    <3> QED
      BY <2>1, <3>1, <3>2, <3>3, <3>4 DEF Asked
  <2>4. CASE Head(intents) \notin Ends /\ ~OnReady(Head(intents))
    <3>1. pending' = pending
      BY <1>15, <2>4 DEF OnReceive, OnAnswered, OnReconnect
    <3> QED
      BY <1>2, <2>1, <2>4, <3>1
  <2> QED
    BY <2>2, <2>3, <2>4 DEF OnReady
<1> QED
  BY <1>6, <1>7, <1>8, <1>9, <1>10, <1>11, <1>12, <1>13, <1>14, <1>15, Steps
     DEF Radio, Screen, Binder

\* A key that comes on a link finds the lock waiting for its ticket.
LEMMA KeyAwaited ==
  ASSUME Base, Shielded, "link" \notin crossed, Asked, Awaited, OnSessionKey, link # "none"
  PROVE  /\ link = "ready" /\ pending = 1 /\ pending' = 0 /\ ~Has(intents, {"ready"})
         /\ serving = "connected" /\ air = <<>> /\ answers = <<>> /\ decoding = NoAnswer
         /\ ~Armed
<1>1. pending > 0 /\ link # "up" /\ pending' = pending - 1
  BY DEF OnSessionKey
<1>2. link = "ready" /\ pending = 1 /\ ~Has(intents, {"ready"})
  BY <1>1 DEF Base, TypeOK, Asked
<1> QED
  BY <1>1, <1>2 DEF Awaited, Shielded, Armed, Shield

\* A press on a link finds it at rest.
LEMMA PressAtRest ==
  ASSUME Base, Shielded, "link" \notin crossed, Awaited, Settled, Press, link # "none"
  PROVE  /\ link = "ready" /\ pending # 1 /\ ~Has(intents, {"ready"})
         /\ AtRest(appKey, appNonce) /\ answers = <<>> /\ decoding = NoAnswer
<1>1. button /\ ~dialog /\ link # "up"
  BY DEF Press
<1>2. serving # "connected" /\ Armed
  BY <1>1 DEF Shielded, Shield, Armed
<1> QED
  BY <1>1, <1>2 DEF Base, TypeOK, Awaited, Settled

\* What keeps the link, the lock and all that is on its way.
Quiet ==
  \/ OnConnected \/ OnServicesDiscovered \/ OnDescriptorWrite
  \/ OnReceive \/ OnBindService \/ Connectivity \/ SessionKeyLost

LEMMA QuietKeeps ==
  ASSUME Quiet
  PROVE  UNCHANGED <<air, answers, decoding, serving, buffered, key, nonce, appKey, appNonce>>
<1> USE DEF crypto, device, lock
<1>1. CASE OnConnected \/ OnServicesDiscovered \/ OnDescriptorWrite
  BY <1>1 DEF OnConnected, OnServicesDiscovered, OnDescriptorWrite
<1>2. CASE OnReceive \/ OnBindService \/ Connectivity \/ SessionKeyLost
  BY <1>2 DEF OnReceive, OnBindService, Connectivity, SessionKeyLost
<1> QED
  BY <1>1, <1>2 DEF Quiet

LEMMA OnLink ==
  ASSUME Next, link' # "none"
  PROVE  LinkUp \/ Quiet \/ SetSessionNonce \/ Decrypt \/ Firmware \/ OnSessionKey \/ Press
<1>1. ~LinkLost /\ ~ConnectFails /\ ~Restart /\ ~Crashes
  BY DEF LinkLost, LinkEnds, ConnectFails, bluetooth, Restart, Crashes, OnError,
     OnSessionKeyCrash, PressCrash, Crash
<1>2. ~OnUnbindService /\ ~ConnectTimeout
  BY DEF OnUnbindService, ConnectTimeout, LinkEnds, LinkStays
<1> QED
  BY <1>1, <1>2, Steps DEF Radio, Screen, Binder, Quiet

LEMMA AwaitedStep ==
  ASSUME Base, Shielded, "link" \notin crossed, Asked, Awaited, Settled, Next
  PROVE  Awaited'
<1> USE DEF app, crypto, bluetooth, device
<1> DEFINE Waits == \/ link \in {"up", "found"}
                    \/ link = "ready" /\ (pending = 1 \/ Has(intents, {"ready"}))
<1> SUFFICES ASSUME Waits' PROVE serving' = "connected" /\ air' = <<>>
  BY DEF Awaited
<1>1. /\ TypeOK /\ link \in {"none", "up", "found", "ready"} /\ pending \in Nat
      /\ (serving = "none" => air = <<>>) /\ intents \in Seq(Intents)
      /\ link' # "none"
  BY Typed DEF Base, TypeOK, Linked
<1>2. CASE LinkUp
  BY <1>1, <1>2 DEF LinkUp
<1>3. CASE Quiet \/ SetSessionNonce \/ Decrypt \/ Firmware
  <2>1. ASSUME link # "ready" PROVE Waits
    <3>1. link' = link \/ link \in {"up", "found"}
      BY <1>3, <1>1 DEF Quiet, OnConnected, OnServicesDiscovered, OnDescriptorWrite, OnReceive,
         OnBindService, Connectivity, SessionKeyLost, OnAnswered, OnReconnect, OnReady,
         SetSessionNonce, Decrypt, Firmware, TakeTicket, OpenTicket, TakeRequest, AnswerRequest,
         Buffer, SeeLinkLost
    <3> QED
      BY <1>1, <2>1, <3>1
  <2>2. ASSUME link = "ready" PROVE Waits
    <3>1. ~OnConnected /\ ~OnServicesDiscovered /\ ~OnDescriptorWrite
      BY <2>2 DEF OnConnected, OnServicesDiscovered, OnDescriptorWrite
    <3>2. pending = 0 \/ pending = 1
      BY <2>2 DEF Asked
    <3>3. CASE SetSessionNonce \/ Firmware \/ OnBindService \/ SessionKeyLost
      <4>1. link' = link /\ intents' = intents /\ (pending' = pending \/ pending' = pending - 1)
        BY <3>3 DEF SetSessionNonce, Firmware, TakeTicket, OpenTicket, TakeRequest, AnswerRequest,
           Buffer, SeeLinkLost, OnBindService, SessionKeyLost
      <4>2. pending' = 1 => pending = 1
        BY <3>2, <4>1
      <4> QED
        BY <2>2, <4>1, <4>2
    <3>4. CASE Decrypt \/ Connectivity
      <4>1. link' = link /\ pending' = pending
        BY <3>4 DEF Decrypt, Connectivity
      <4>2. intents' = intents \/ \E x \in Intents \ {"ready"} : intents' = Append(intents, x)
        <5>1. CASE Connectivity
          <6>1. "connectivity" \in Intents \ {"ready"}
            BY DEF Intents
          <6> QED
            BY <5>1, <6>1 DEF Connectivity
        <5>2. CASE Decrypt
          <6>1. decoding.code # "ready"
            BY <5>2, Decrypted DEF Enabling
          <6> QED
            BY <5>2, <6>1, Decrypted
        <5> QED
          BY <3>4, <5>1, <5>2
      <4>3. Has(intents', {"ready"}) => Has(intents, {"ready"})
        BY <1>1, <4>2, Queued
      <4> QED
        BY <2>2, <4>1, <4>3
    <3>5. CASE OnReceive
      <4>1. \A S : Has(intents, S) <=> Head(intents) \in S \/ Has(intents', S)
        BY <1>1, <3>5, Taken
      <4>2. link' = link /\ (pending' = pending \/ Head(intents) = "ready")
        BY <3>5 DEF OnReceive, OnAnswered, OnReconnect, OnReady
      <4> QED
        BY <2>2, <4>1, <4>2
    <3> QED
      BY <1>3, <3>1, <3>3, <3>4, <3>5 DEF Quiet
  <2>3. serving = "connected" /\ air = <<>>
    <3>1. Waits
      BY <2>1, <2>2
    <3> QED
      BY <3>1 DEF Awaited
  <2>4. CASE Quiet \/ SetSessionNonce \/ Decrypt
    BY <2>3, <2>4, QuietKeeps DEF SetSessionNonce, Decrypt
  <2>5. CASE Firmware
    <3>1. link # "none"
      BY <1>1, <2>5 DEF Firmware, TakeTicket, OpenTicket, TakeRequest, AnswerRequest, Buffer,
         SeeLinkLost
    <3>2. ~gone
      BY <3>1 DEF Base, Linked
    <3> QED
      BY <2>3, <2>5, <3>2 DEF Firmware, TakeTicket, OpenTicket, TakeRequest, AnswerRequest, Buffer,
         SeeLinkLost
  <2> QED
    BY <1>3, <2>4, <2>5
<1>4. CASE OnSessionKey
  <2>1. link' = link /\ intents' = intents
    BY <1>4 DEF OnSessionKey
  <2> QED
    BY <1>1, <1>4, <2>1, KeyAwaited
<1>5. CASE Press
  <2>1. link' = link /\ intents' = intents /\ pending' = pending
    BY <1>5 DEF Press
  <2> QED
    BY <1>1, <1>5, <2>1, PressAtRest
<1> QED
  BY <1>1, <1>2, <1>3, <1>4, <1>5, OnLink

\* What is left of a queue of one.
LEMMA Short ==
  ASSUME NEW T, NEW q \in Seq(T), Len(q) <= 1
  PROVE  q = <<>> \/ (Len(q) = 1 /\ Tail(q) = <<>> /\ SubSeq(q, 1, Len(q) - 1) = <<>>)
<1>1. CASE Len(q) = 0
  BY <1>1
<1>2. CASE Len(q) = 1
  <2>1. q # <<>> /\ Tail(q) = <<>>
    <3>1. q # <<>>
      <4>1. Len(<<>>) = 0
        OBVIOUS
      <4>2. Len(q) # 0
        BY <1>2
      <4> QED
        BY <4>1, <4>2, Zenon
    <3>2. Len(Tail(q)) = 0 /\ Tail(q) \in Seq(T)
      BY <1>2, <3>1, Dropped
    <3> QED
      BY <3>1, <3>2
  <2>2. SubSeq(q, 1, 0) = <<>>
    <3>1. SubSeq(q, 1, 0) \in Seq(T)
      BY <1>2
    <3>2. Len(SubSeq(q, 1, 0)) = 0
      BY <1>2
    <3> QED
      BY <3>1, <3>2
  <2>3. Len(q) - 1 = 0
    BY <1>2
  <2> QED
    BY <1>2, <2>1, <2>2, <2>3
<1>3. Len(q) = 0 \/ Len(q) = 1
  <2>1. Len(q) \in Nat
    OBVIOUS
  <2> QED
    BY <2>1
<1> QED
  BY <1>1, <1>2, <1>3, Zenon

LEMMA OneMessageStep ==
  ASSUME Base, Shielded, "link" \notin crossed, Asked, Awaited, OneMessage, Settled, Next
  PROVE  OneMessage'
<1> USE DEF app, crypto, bluetooth, device
<1>1. /\ TypeOK /\ air \in Seq(Messages) /\ buffered = 0 /\ serving # "overrun" /\ Len(air) <= 1
      /\ air # <<>> => serving = IF air[1].kind = "ticket" THEN "connected" ELSE "open"
      /\ (serving = "none" => air = <<>>)
  BY Typed DEF Base, OneMessage, Linked
<1>2. ASSUME air' = air, serving' = serving, buffered' = buffered PROVE OneMessage'
  BY <1>1, <1>2 DEF OneMessage
<1>3. ASSUME air' = <<>>, serving' # "overrun", buffered' = 0 PROVE OneMessage'
  BY <1>3 DEF OneMessage
<1>4. \/ air = <<>>
      \/ Len(air) = 1 /\ Tail(air) = <<>> /\ SubSeq(air, 1, Len(air) - 1) = <<>>
  BY <1>1, Short
<1>5. CASE Radio \/ Screen \/ Crashes \/ Binder
  <2>1. buffered' = buffered
    BY <1>5, LockKept
  <2>2. air' \in {air, SubSeq(air, 1, Len(air) - 1)}
    <3>1. CASE Radio \/ Binder
      BY <3>1 DEF Radio, LinkUp, OnConnected, OnServicesDiscovered, OnDescriptorWrite,
         LinkLost, ConnectFails, ReportEnd,
         LinkEnds, Binder, SetSessionNonce, Decrypt
    <3>2. CASE Screen
      BY <3>2 DEF Screen, OnBindService, OnUnbindService, ConnectTimeout, Connectivity, OnReceive,
         SessionKeyLost, LinkEnds, LinkStays
    <3>3. CASE Crashes
      BY <3>3 DEF Crashes, OnError, OnSessionKeyCrash, PressCrash, Crash, LinkEnds
    <3> QED
      BY <1>5, <3>1, <3>2, <3>3
  <2>3. serving' = serving \/ (LinkUp /\ serving = "none" /\ serving' = "connected")
    BY <1>5, LockKept
  <2>4. CASE LinkUp /\ serving = "none" /\ serving' = "connected"
    <3>1. air' = <<>>
      BY <1>1, <2>4 DEF LinkUp
    <3> QED
      BY <1>1, <1>3, <2>1, <2>4, <3>1
  <2>5. CASE serving' = serving
    BY <1>1, <1>2, <1>3, <1>4, <2>1, <2>2, <2>5
  <2> QED
    BY <2>3, <2>4, <2>5
<1>6. CASE Firmware
  <2>1. ~Buffer
    <3>1. ASSUME Buffer PROVE FALSE
      <4>1. air # <<>> /\ serving \in {"connected", "open"}
            /\ (Received.kind = "ticket") # (serving = "connected")
        BY <1>1, <3>1 DEF Buffer
      <4>2. Received = air[1]
        BY <1>1, <4>1, Arrived
      <4> QED
        BY <1>1, <4>1, <4>2
    <3> QED
      BY <3>1
  <2>2. CASE TakeTicket \/ TakeRequest
    <3>1. air # <<>> /\ air' = Tail(air) /\ buffered' = buffered
          /\ serving' \in {serving, "opening", "turning"}
      BY <2>2 DEF TakeTicket, TakeRequest
    <3> QED
      BY <1>1, <1>3, <1>4, <3>1
  <2>3. CASE OpenTicket \/ AnswerRequest
    <3>1. serving \in {"opening", "turning"} /\ serving' = "open" /\ air' = air
          /\ buffered' = buffered
      BY <2>3 DEF OpenTicket, AnswerRequest
    <3> QED
      BY <1>1, <1>3, <3>1
  <2>4. CASE SeeLinkLost
    BY <1>3, <2>4 DEF SeeLinkLost
  <2> QED
    BY <1>6, <2>1, <2>2, <2>3, <2>4 DEF Firmware
<1>7. CASE Restart
  BY <1>3, <1>7 DEF Restart
<1>8. ASSUME NEW m \in Messages, air = <<>>, air' = Append(air, m), buffered' = buffered,
             serving' = serving,
             serving = IF m.kind = "ticket" THEN "connected" ELSE "open"
      PROVE  OneMessage'
  <2>1. Len(air') = 1 /\ air'[1] = m
    BY <1>1, <1>8
  <2> QED
    BY <1>1, <1>8, <2>1 DEF OneMessage
<1>9. CASE OnSessionKey \/ Press
  <2>1. buffered' = buffered /\ serving' = serving
    BY <1>9 DEF OnSessionKey, Press
  <2>2. CASE air' = air
    BY <1>2, <2>1, <2>2
  <2>3. CASE OnSessionKey /\ air' # air
    <3>1. PICK m \in Messages :
            /\ m.kind = "ticket"
            /\ air' = IF link \in {"found", "ready"} THEN Append(air, m) ELSE air
      BY <2>3, TicketSent
    <3>2. serving = "connected" /\ air = <<>>
      BY <2>3, <3>1, KeyAwaited
    <3> QED
      BY <1>8, <2>1, <2>3, <3>1, <3>2
  <2>4. CASE Press /\ air' # air
    <3>1. PICK m \in Messages :
            /\ m.kind = "request"
            /\ air' = IF link \in {"found", "ready"} THEN Append(air, m) ELSE air
      BY <2>4, RequestSent
    <3>2. serving = "open" /\ air = <<>>
      BY <2>4, <3>1, PressAtRest DEF AtRest
    <3> QED
      BY <1>8, <2>1, <2>4, <3>1, <3>2
  <2> QED
    BY <1>9, <2>2, <2>3, <2>4
<1> QED
  BY <1>5, <1>6, <1>7, <1>9, Steps

\* A queue of one.
LEMMA Single ==
  ASSUME NEW T, NEW x \in T
  PROVE  Len(Append(<<>>, x)) = 1 /\ Append(<<>>, x)[1] = x
OBVIOUS

LEMMA SettledStep ==
  ASSUME Base, Shielded, "link" \notin crossed, InTurns, Asked, Awaited, OneMessage, Settled, Next
  PROVE  Settled'
<1> USE DEF app, crypto, bluetooth, device
<1> SUFFICES ASSUME link' = "ready"
    PROVE  /\ answers' # <<>> =>
                /\ Len(answers') = 1 /\ AtRest(answers[1].key, answers[1].nonce)'
                /\ decoding' = NoAnswer
           /\ decoding' # NoAnswer => AtRest(decoding.key, decoding.nonce)' /\ answers' = <<>>
           /\ Armed' => AtRest(appKey, appNonce)' /\ answers' = <<>> /\ decoding' = NoAnswer
  BY DEF Settled
<1>1. /\ TypeOK /\ air \in Seq(Messages) /\ answers \in Seq(Answers)
      /\ (answers # <<>> => link = "ready")
      /\ (decoding # NoAnswer => link \in {"none", "ready"})
      /\ (link # "none" => ~gone)
  BY Typed DEF Base, Linked, TypeOK
<1>2. link \in {"found", "ready"}
  BY OnLink DEF LinkUp, Quiet, OnConnected, OnServicesDiscovered, OnDescriptorWrite, OnReceive,
     OnBindService, Connectivity, SessionKeyLost, OnAnswered, OnReconnect, OnReady,
     SetSessionNonce, Decrypt, Firmware, TakeTicket, OpenTicket, TakeRequest, AnswerRequest,
     Buffer, SeeLinkLost, OnSessionKey, Press
\* Before the app has subscribed, there is nothing.
<1>3. CASE link = "found"
  <2>1. answers = <<>> /\ decoding = NoAnswer /\ serving = "connected" /\ air = <<>>
    BY <1>1, <1>3 DEF Awaited
  <2>2. ~Armed
    BY <2>1 DEF Shielded, Armed, Shield
  <2>3. OnDescriptorWrite
    BY <1>3, OnLink DEF LinkUp, Quiet, OnConnected, OnServicesDiscovered, OnReceive,
       OnBindService, Connectivity, SessionKeyLost, OnAnswered, OnReconnect, OnReady,
       SetSessionNonce, Decrypt, Firmware, TakeTicket, OpenTicket, TakeRequest, AnswerRequest,
       Buffer, SeeLinkLost, OnSessionKey, Press
  <2>4. answers' = <<>> /\ decoding' = NoAnswer
    BY <2>1, <2>3 DEF OnDescriptorWrite
  <2>5. ~Armed'
    <3>1. ~Decrypt
      BY <2>1 DEF Decrypt
    <3> QED
      BY <2>2, <3>1, ArmedStep
  <2> QED
    BY <2>4, <2>5
<1>4. CASE link = "ready"
  <2>1. /\ answers # <<>> =>
             /\ Len(answers) = 1 /\ AtRest(answers[1].key, answers[1].nonce)
             /\ decoding = NoAnswer
        /\ decoding # NoAnswer => AtRest(decoding.key, decoding.nonce) /\ answers = <<>>
        /\ Armed => AtRest(appKey, appNonce) /\ answers = <<>> /\ decoding = NoAnswer
    BY <1>4 DEF Settled
  <2>2. CASE Quiet
    <3>1. UNCHANGED <<air, answers, decoding, serving, key, nonce, appKey, appNonce>>
      BY <2>2, QuietKeeps
    <3>2. Armed' => Armed
      <4>1. ~Decrypt \/ decoding' = decoding
        BY <3>1
      <4>2. Decrypt => decoding' # decoding
        BY DEF Decrypt
      <4> QED
        BY <4>1, <4>2, ArmedStep
    <3> QED
      BY <2>1, <3>1, <3>2 DEF AtRest
  <2>3. CASE SetSessionNonce
    <3>1. /\ answers # <<>> /\ answers' = Tail(answers)
          /\ decoding = NoAnswer /\ decoding' \in {decoding, Head(answers)}
          /\ UNCHANGED <<air, serving, key, nonce>>
      BY <2>3 DEF SetSessionNonce, lock
    <3>2. ~Armed'
      <4>1. ~Decrypt
        BY <3>1 DEF Decrypt
      <4> QED
        BY <2>1, <3>1, <4>1, ArmedStep
    <3>3. answers' = <<>> /\ Head(answers) = answers[1]
      <4>1. Len(Tail(answers)) = 0 /\ Tail(answers) \in Seq(Answers)
        BY <1>1, <2>1, <3>1
      <4> QED
        BY <1>1, <3>1, <4>1
    <3> QED
      BY <2>1, <3>1, <3>2, <3>3 DEF AtRest
  <2>4. CASE Decrypt
    <3>1. /\ decoding # NoAnswer /\ decoding' = NoAnswer /\ answers' = answers
          /\ UNCHANGED <<air, serving, key, nonce, appKey, appNonce>>
      BY <2>4 DEF Decrypt, lock
    <3>2. answers' = <<>>
      BY <2>1, <3>1
    <3>3. Armed' => decoding.key = appKey /\ decoding.nonce = appNonce
      BY <2>1, <3>1, ArmedStep
    <3> QED
      BY <2>1, <3>1, <3>2, <3>3 DEF AtRest
  <2>5. CASE OnSessionKey
    <3>1. answers = <<>> /\ decoding = NoAnswer /\ ~Armed
      BY <1>4, <2>5, KeyAwaited
    <3>2. answers' = answers /\ decoding' = decoding /\ ~Decrypt
      BY <2>5, <3>1 DEF OnSessionKey, Decrypt
    <3> QED
      BY <3>1, <3>2, ArmedStep
  <2>6. CASE Press
    <3>1. answers = <<>> /\ decoding = NoAnswer
      BY <1>4, <2>6, PressAtRest
    <3>2. answers' = answers /\ decoding' = decoding
      BY <2>6 DEF Press
    <3>3. ~Armed'
      <4>1. button' = FALSE /\ intents' = intents /\ ~Has(intents, Enabling)
        BY <2>6 DEF Press, InTurns, Alone
      <4> QED
        BY <4>1 DEF Armed
    <3> QED
      BY <3>1, <3>2, <3>3
  <2>7. CASE OpenTicket \/ AnswerRequest
    <3>1. /\ serving \in {"opening", "turning"} /\ serving' = "open" /\ air' = air
          /\ decoding' = decoding
      BY <2>7 DEF OpenTicket, AnswerRequest
    <3>2. answers = <<>> /\ decoding = NoAnswer /\ ~Armed
      BY <2>1, <3>1 DEF AtRest
    <3>3. air = <<>>
      BY <3>1 DEF OneMessage
    <3>4. ~Armed'
      BY <3>2, ArmedStep DEF Decrypt
    <3>5. PICK a \in Answers :
            /\ a.key = key' /\ a.nonce = nonce'
            /\ answers' = IF link = "ready" /\ ~gone THEN Append(answers, a) ELSE answers
      BY <2>7, Answered
    <3>6. CASE answers' = answers
      BY <3>1, <3>2, <3>4, <3>6
    <3>7. CASE answers' = Append(<<>>, a)
      <4>1. Len(answers') = 1 /\ answers'[1] = a
        BY <3>7, Single
      <4> QED
        BY <3>1, <3>2, <3>3, <3>4, <3>5, <4>1 DEF AtRest
    <3> QED
      BY <3>2, <3>5, <3>6, <3>7
  <2>8. CASE TakeTicket \/ TakeRequest \/ Buffer
    <3>1. air # <<>> /\ answers' = answers /\ decoding' = decoding
      BY <2>8 DEF TakeTicket, TakeRequest, Buffer
    <3>2. answers = <<>> /\ decoding = NoAnswer /\ ~Armed
      BY <2>1, <3>1 DEF AtRest
    <3>3. ~Armed'
      BY <3>2, ArmedStep DEF Decrypt
    <3> QED
      BY <3>1, <3>2, <3>3
  <2>9. ~SeeLinkLost /\ ~LinkUp
    BY <1>1, <1>4 DEF SeeLinkLost, LinkUp
  <2> QED
    BY <2>2, <2>3, <2>4, <2>5, <2>6, <2>7, <2>8, <2>9, OnLink DEF Firmware
<1> QED
  BY <1>2, <1>3, <1>4

LEMMA PhasesInit == Init => Phases
<1> SUFFICES ASSUME Init PROVE Phases
  OBVIOUS
<1>1. /\ gatt = "none" /\ serving = "none" /\ ~button /\ decoding = NoAnswer /\ link = "none"
      /\ air = <<>> /\ answers = <<>> /\ pending = 0 /\ buffered = 0
  BY DEF Init, Closed
<1>2. Len(<<>>) <= 1
  OBVIOUS
<1>3. OneMessage
  BY <1>1, <1>2 DEF OneMessage
<1> QED
  BY <1>1, <1>3 DEF Phases, Asked, Awaited, Settled

LEMMA PhasesStep ==
  ASSUME Base, Shielded, Apart, Phases, [Next]_vars
  PROVE  Phases'
<1>1. CASE Next
  <2> SUFFICES ASSUME crossed' = {} PROVE Asked' /\ Awaited' /\ OneMessage' /\ Settled'
    BY DEF Phases
  <2>1. crossed = {}
    BY <1>1, CrossedGrows
  <2>2. "link" \notin crossed /\ Asked /\ Awaited /\ OneMessage /\ Settled /\ InTurns
    BY <2>1 DEF Phases, Apart
  <2> QED
    BY <1>1, <2>2, AskedStep, AwaitedStep, OneMessageStep, SettledStep
<1>2. CASE UNCHANGED vars
  <2> USE <1>2 DEF vars, app, crypto, bluetooth, device, history, lock
  <2>1. Asked' <=> Asked
    BY Zenon DEF Asked
  <2>2. Awaited' <=> Awaited
    BY Zenon DEF Awaited
  <2>3. OneMessage' <=> OneMessage
    BY Zenon DEF OneMessage
  <2>4. Settled' <=> Settled
    BY Zenon DEF Settled, AtRest, Armed
  <2>5. crossed' = crossed
    OBVIOUS
  <2> QED
    BY <2>1, <2>2, <2>3, <2>4, <2>5 DEF Phases
<1> QED
  BY <1>1, <1>2

LEMMA AppHolds == Spec => []AppInv
<1>1. Init => AppInv
  BY BaseInit, SharedInit, AlternatingInit, PhasesInit DEF AppInv
<1>2. AppInv /\ [Next]_vars => AppInv'
  BY BaseStep, SharedStep, AlternatingStep, PhasesStep DEF AppInv
<1> QED
  BY <1>1, <1>2, PTL DEF Spec

\* However messages, answers and whole links are lost, and whatever is pressed:
\* the app never encrypts twice under a nonce of a key, nor under one the lock
\* encrypts under, unless a connection was begun before the end of the last was
\* handled (Cryptography.java, main.c: both draw from one sequence of nonces).
THEOREM NoncesStayApart == Spec => []NoncesApart
<1>1. AppInv => NoncesApart
  BY DEF AppInv, Base, Drawn, Apart, NoncesApart
<1> QED
  BY <1>1, AppHolds, PTL

\* However messages, answers and whole links are lost: in a session the lock has
\* opened it encrypts under odd nonces and the app under even ones, unless a
\* connection was begun too early (Cryptography.java, main.c: each counts on
\* from a nonce of the other).
THEOREM NoncesAlternate == Spec => []EvenAndOdd
<1>1. AppInv => EvenAndOdd
  <2> SUFFICES ASSUME Drawn, Alternate, NEW s \in appSealed, s[1] \in opened
               PROVE  Even(s[2])
    BY DEF AppInv, Base, Alternating, Alternate, EvenAndOdd, Odd, Even
  <2>1. s[2] \in Nat /\ s = <<s[1], s[2]>>
    BY DEF Drawn
  <2> QED BY <2>1 DEF Alternate
<1> QED BY <1>1, AppHolds, PTL

\* However the app's threads and the radio interleave, and whatever is lost: a
\* button that can be pressed belongs to the session the lock has open, at its
\* nonce, with nothing on its way, or to no link, unless something crossed from
\* one link to the next (LockPresenter.java: onConnecting() leaves the buttons
\* enabled).
THEOREM ButtonsAreReady == Spec => []ReadyMeansOpen
<1>1. AppInv => ReadyMeansOpen
  <2> SUFFICES ASSUME Base, Shielded, Phases, Pressable, crossed = {}
      PROVE  /\ link \in {"none", "ready"}
             /\ link = "ready" => /\ serving = "open" /\ buffered = 0
                                 /\ key = appKey /\ nonce = appNonce
                                 /\ air = <<>> /\ answers = <<>> /\ decoding = NoAnswer
    BY DEF AppInv, ReadyMeansOpen
  <2>1. Armed /\ serving # "connected"
    BY DEF Pressable, Armed, Shielded, Shield
  <2>2. Awaited /\ OneMessage /\ Settled /\ link \in {"none", "up", "found", "ready"}
    BY DEF Phases, Base, TypeOK
  <2> QED
    BY <2>1, <2>2 DEF Awaited, OneMessage, Settled, AtRest
<1> QED
  BY <1>1, AppHolds, PTL

\* The app never writes past the lock's buffer, which bounds nothing, as long
\* as nothing crossed from one link to the next (main.c:
\* ble_evt_attributes_value(), LockControllerImpl.java).
THEOREM OverrunsNeedCrossing == Spec => []OverrunNeedsCrossing
<1>1. AppInv => OverrunNeedsCrossing
  BY DEF AppInv, Phases, OneMessage, OverrunNeedsCrossing
<1> QED
  BY <1>1, AppHolds, PTL
=============================================================================
