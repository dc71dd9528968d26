----------------------------- MODULE AppSession -----------------------------
(***************************************************************************)
(* The screen of one lock in the Android app, the Bluetooth service and    *)
(* the request for a session key, together with the lock.                  *)
(*                                                                         *)
(* Three threads meet: the UI thread takes broadcasts (`intents`), answers *)
(* of the server and presses, the Bluetooth callbacks run on a binder      *)
(* thread, and the lock works through what it receives.  The server is     *)
(* external: it answers a request with a ticket that was not handed out    *)
(* before.  The lock keeps the promise of Lock; of its buffer only the     *)
(* length matters here.                                                    *)
(***************************************************************************)
EXTENDS Naturals, FiniteSets, SequencesExt

CONSTANTS
  MaxTickets,   \* bound: tickets of the server
  MaxPresses,   \* bound: presses of the buttons
  MaxFaults     \* bound: what goes wrong or is switched off

ASSUME AppSessionAssumption ==
  MaxTickets \in Nat /\ MaxPresses \in Nat /\ MaxFaults \in Nat

TICKET_LEN == 72
REQUEST_LEN == 41

NoKey == 0
NoAnswer == [key |-> NoKey, nonce |-> 0, code |-> "none"]

VARIABLES
  bound,       \* the screen is open and its receiver registered
  dialog,      \* the modal progress dialog is shown
  button,      \* the lock and unlock buttons are enabled
  online,      \* there is network connectivity
  intents,     \* broadcasts on their way to the UI thread
  pending,     \* requests for a session key of this screen
  orphans,     \* and of screens that were closed
  appKey,      \* Cryptography.sessionKey, named by its ticket
  appNonce,    \* Cryptography.sessionNonce
  gatt,        \* bluetoothGatt: "none", "idle", "connecting", "connected"
  timer,       \* the connection time-out is posted
  decoding     \* the answer handleMessage() has taken the nonce of
app == <<bound, dialog, button, online, intents, pending, orphans>>
crypto == <<appKey, appNonce, decoding>>

VARIABLES
  link,        \* "none", "up", "found" (services discovered), "ready"
  gone,        \* the lock still has to see that the link was lost
  air,         \* messages the lock has not seen yet
  answers,     \* answers the app has not seen yet
  serving,     \* "none", "connected", "opening", "open", "turning",
               \* "overrun": more than msg_buf holds was written to it
  buffered     \* bytes of messages that came in the wrong state
bluetooth == <<gatt, timer, link>>
device == <<gone, air, answers, serving, buffered>>

VARIABLES
  tickets,     \* tickets handed out
  presses, faults,
  appSealed,   \* <<key, nonce>> under which the app encrypted
  crossed      \* what has crossed from one link to the next: "key", a session
               \* key asked for on a link that was lost; "link", a connection
               \* begun before the last answer or the end of the last was handled
history == <<tickets, presses, faults, appSealed, crossed>>

VARIABLES master, key, nonce, opened, rotated, sealed
lock == <<master, key, nonce, opened, rotated, sealed>>
vars == <<app, crypto, bluetooth, device, history, lock>>

L == INSTANCE Lock WITH Nonces <- Nat

Closed ==
  /\ bound = FALSE /\ dialog = FALSE /\ button = FALSE
  /\ intents = <<>> /\ pending = 0 /\ orphans = 0
  /\ appKey = NoKey /\ appNonce = 0 /\ decoding = NoAnswer
  /\ gatt = "none" /\ timer = FALSE

Init ==
  /\ Closed /\ online = TRUE
  /\ link = "none" /\ gone = FALSE /\ air = <<>> /\ answers = <<>>
  /\ serving = "none" /\ buffered = 0
  /\ tickets = {} /\ presses = 0 /\ faults = 0
  /\ appSealed = {} /\ crossed = {}
  /\ L!Init

Fault == faults < MaxFaults /\ faults' = faults + 1

-----------------------------------------------------------------------------
(* The radio *)

\* The link ends; of what was being written the last message may be lost.
LinkEnds ==
  /\ link' = "none" /\ answers' = <<>>
  /\ gone' = (gone \/ link # "none")
  /\ air' \in {air, SubSeq(air, 1, Len(air) - 1)}

LinkStays == UNCHANGED <<link, answers, gone, air>>

\* The app's process dies of an exception on its UI thread.
Crash ==
  /\ bound' = FALSE /\ dialog' = FALSE /\ button' = FALSE
  /\ intents' = <<>> /\ pending' = 0 /\ orphans' = 0
  /\ appKey' = NoKey /\ appNonce' = 0 /\ decoding' = NoAnswer
  /\ gatt' = "none" /\ timer' = FALSE
  /\ LinkEnds
  /\ UNCHANGED <<online, serving, buffered, lock>>

\* The lock is in range and advertises: it has seen the last link end.  So has
\* the screen: the UI thread is quicker than the radio.
LinkUp ==
  /\ gatt = "connecting" /\ link = "none"
  /\ serving = "none" /\ ~gone
  /\ ~Contains(intents, "disconnected") /\ ~Contains(intents, "error")
  /\ link' = "up" /\ serving' = "connected"
  /\ UNCHANGED <<app, crypto, gatt, timer, gone, air, answers, buffered,
                 history, lock>>

\* Mutant: the time-out stays.
OnConnectedKeepsTimer ==
  /\ link = "up" /\ gatt = "connecting"
  /\ gatt' = "connected"
  /\ UNCHANGED <<app, crypto, link, timer, device, history, lock>>
\* onConnectionStateChange(): connected, and the time-out is removed.
OnConnected ==
  /\ link = "up" /\ gatt = "connecting"
  /\ gatt' = "connected" /\ timer' = FALSE
  /\ UNCHANGED <<app, crypto, link, device, history, lock>>

OnServicesDiscovered ==
  /\ link = "up" /\ gatt = "connected" /\ link' = "found"
  /\ UNCHANGED <<app, crypto, gatt, timer, device, history, lock>>

\* Mutant: COMMUNICATION_READY is broadcast for the notification, too.
OnDescriptorWriteTwice ==
  /\ link = "found" /\ link' = "ready"
  /\ intents' = intents \o <<"ready", "ready">>
  /\ UNCHANGED <<bound, dialog, button, online, pending, orphans, crypto, gatt, timer,
                 device, history, lock>>
\* The notification is subscribed to: COMMUNICATION_READY.
OnDescriptorWrite ==
  /\ link = "found" /\ link' = "ready"
  /\ intents' = Append(intents, "ready")
  /\ UNCHANGED <<bound, dialog, button, online, pending, orphans, crypto, gatt, timer,
                 device, history, lock>>

\* onConnectionStateChange(): DISCONNECTED, or an error status, which leaves
\* the time-out where it is.
ReportEnd(intent) ==
  /\ gatt' = "idle" /\ timer' = (timer /\ intent = "error")
  /\ intents' = Append(intents, intent)

\* Out of range.  A callback waits for the one before it to return.
LinkLost ==
  /\ link # "none" /\ decoding = NoAnswer /\ Fault /\ LinkEnds
  /\ \E intent \in {"disconnected", "error"} : ReportEnd(intent)
  /\ UNCHANGED <<bound, dialog, button, online, pending, orphans, crypto,
                 serving, buffered, tickets, presses, appSealed, crossed,
                 lock>>

\* An attempt to connect ends with an error status before there is a link; the
\* UI thread has handled the end of the last.
ConnectFails ==
  /\ gatt = "connecting" /\ link = "none" /\ Fault
  /\ ~Contains(intents, "disconnected") /\ ~Contains(intents, "error")
  /\ ReportEnd("error")
  /\ UNCHANGED <<bound, dialog, button, online, pending, orphans, crypto, link,
                 device, tickets, presses, appSealed, crossed, lock>>

-----------------------------------------------------------------------------
(* BluetoothService, on the binder thread *)

\* handleMessage(): an answer under an old nonce throws, and Android drops it.
SetSessionNonce ==
  /\ answers # <<>> /\ decoding = NoAnswer
  /\ answers' = Tail(answers)
  /\ IF Head(answers).nonce > appNonce
     THEN decoding' = Head(answers) /\ appNonce' = Head(answers).nonce
     ELSE UNCHANGED <<decoding, appNonce>>
  /\ UNCHANGED <<app, appKey, bluetooth, gone, air, serving, buffered,
                 history, lock>>

\* ... and is decrypted under the key and the nonce there are now.
Decrypt ==
  /\ decoding # NoAnswer /\ decoding' = NoAnswer
  /\ intents' = IF decoding.key = appKey /\ decoding.nonce = appNonce /\ bound
                THEN Append(intents, decoding.code) ELSE intents
  /\ UNCHANGED <<bound, dialog, button, online, pending, orphans, appKey, appNonce,
                 bluetooth, device, history, lock>>

-----------------------------------------------------------------------------
(* LockControllerImpl and LockPresenter, on the UI thread *)

\* connect(): a gatt that exists is used again, without a time-out.
Connect ==
  /\ gatt' = IF link = "none" THEN "connecting" ELSE gatt
  /\ timer' = (timer \/ gatt = "none")

\* onStart(): onBindService() and onServiceConnected().
OnBindService ==
  /\ ~bound /\ bound' = TRUE
  /\ button' = FALSE /\ dialog' = online
  /\ IF online THEN Connect ELSE UNCHANGED <<gatt, timer>>
  /\ crossed' = crossed \cup {c \in {"link"} : decoding # NoAnswer}
  /\ UNCHANGED <<online, intents, pending, orphans, crypto, link, device, tickets,
                 presses, faults, appSealed, lock>>

\* onStop(): close() and onUnbind().  What is on its way to the receiver is
\* dropped; the binder thread finishes the answer it is at.
OnUnbindService ==
  /\ bound /\ Fault
  /\ bound' = FALSE /\ dialog' = FALSE /\ button' = FALSE /\ intents' = <<>>
  /\ orphans' = orphans + pending /\ pending' = 0
  /\ gatt' = "none" /\ timer' = FALSE /\ LinkEnds
  /\ UNCHANGED <<online, crypto, serving, buffered, tickets, presses, appSealed,
                 crossed, lock>>

\* The time-out: disconnect() and DEVICE_NOT_FOUND; the dialog that tells so
\* closes the screen.
ConnectTimeout ==
  /\ timer /\ timer' = FALSE
  /\ IF link = "none" THEN gatt' = "idle" /\ LinkStays
                      ELSE gatt' = "idle" /\ LinkEnds
  /\ intents' = intents \o (IF link = "none" THEN <<"notFound">>
                                             ELSE <<"notFound", "disconnected">>)
  /\ UNCHANGED <<bound, dialog, button, online, pending, orphans, crypto,
                 serving, buffered, history, lock>>

\* The network comes or goes; the receiver reads the connectivity itself.
Connectivity ==
  /\ Fault /\ online' = ~online
  /\ intents' = IF bound THEN Append(intents, "connectivity") ELSE intents
  /\ UNCHANGED <<bound, dialog, button, pending, orphans, crypto, bluetooth, device,
                 tickets, presses, appSealed, crossed, lock>>

\* onReceive() of a broadcast that changes only what the screen shows.
OnAnswered(intent) ==
  /\ CASE intent = "ticketOk" -> dialog' = FALSE /\ button' = TRUE
       [] intent = "done" -> button' = TRUE /\ UNCHANGED dialog
       [] intent = "notFound" -> dialog' = FALSE /\ UNCHANGED button
  /\ UNCHANGED <<pending, bluetooth, history>>

\* What OnReconnect(intent) takes over from the link before.
Crossing(intent) ==
  crossed' = crossed \cup
    {c \in {"key", "link"} :
       \/ c = "key" /\ intent = "disconnected" /\ pending > 0
       \/ c = "link" /\ intent = "connectivity" /\ online
                    /\ Contains(Tail(intents), "disconnected")}

\* Mutant: onConnecting() does not show the dialog.
OnReconnectQuiet(intent) ==
  /\ intent \in {"disconnected", "connectivity"}
  /\ dialog' = (dialog /\ (intent = "connectivity" => online))
  /\ button' = (button /\ (intent = "connectivity" => online))
  /\ IF online THEN Connect ELSE UNCHANGED <<gatt, timer>>
  /\ Crossing(intent)
  /\ UNCHANGED <<pending, link, tickets, presses, faults, appSealed>>
\* onConnectToLock(); onConnecting() leaves the buttons as they are.
OnReconnect(intent) ==
  /\ intent \in {"disconnected", "connectivity"}
  /\ dialog' = IF intent = "connectivity" THEN online ELSE (dialog \/ online)
  /\ button' = (button /\ (intent = "connectivity" => online))
  /\ IF online THEN Connect ELSE UNCHANGED <<gatt, timer>>
  /\ Crossing(intent)
  /\ UNCHANGED <<pending, link, tickets, presses, faults, appSealed>>

\* requestSessionKey(), also while one of an earlier link is pending.
OnReady(intent) ==
  /\ intent = "ready"
  /\ pending' = pending + 1
  /\ UNCHANGED <<dialog, button, bluetooth, history>>

OnReceive ==
  /\ intents # <<>>
  /\ \/ /\ Head(intents) \in {"ticketOk", "done", "notFound"}
        /\ OnAnswered(Head(intents))
     \/ OnReconnect(Head(intents))
     \/ OnReady(Head(intents))
  /\ intents' = Tail(intents)
  /\ UNCHANGED <<bound, online, orphans, crypto, device, lock>>

\* initializationError()
OnError ==
  /\ intents # <<>> /\ Head(intents) = "error"
  /\ Crash /\ UNCHANGED history

\* writeCharacteristic(): the lock gets it, or there is no link.
WriteCharacteristic(kind, n) ==
  IF link \in {"found", "ready"}
  THEN air' = Append(air, [kind |-> kind, key |-> appKey', nonce |-> n])
  ELSE UNCHANGED air

SetSessionKey(n) == appKey' = n /\ appNonce' = 0

\* The server's answer: the key is set and the ticket written.
OnSessionKey ==
  /\ pending > 0 /\ link # "up" /\ pending' = pending - 1
  /\ \E n \in 1..MaxTickets \ tickets :
       /\ tickets' = tickets \cup {n} /\ SetSessionKey(n)
       /\ WriteCharacteristic("ticket", n)
  /\ UNCHANGED <<bound, dialog, button, online, intents, orphans, decoding, bluetooth,
                 gone, answers, serving, buffered, presses, faults,
                 appSealed, crossed, lock>>

\* The answer finds no service yet or no screen any more, or it is a refusal:
\* the exception ends the process.
OnSessionKeyCrash ==
  /\ \/ pending > 0 /\ link = "up" /\ UNCHANGED faults
     \/ orphans > 0 /\ UNCHANGED faults
     \/ pending > 0 /\ Fault
  /\ Crash /\ UNCHANGED <<tickets, presses, appSealed, crossed>>

\* An IOException: nobody is told.
SessionKeyLost ==
  /\ Fault
  /\ \/ pending > 0 /\ pending' = pending - 1 /\ UNCHANGED orphans
     \/ orphans > 0 /\ orphans' = orphans - 1 /\ UNCHANGED pending
  /\ UNCHANGED <<bound, dialog, button, online, intents, crypto, bluetooth, device,
                 tickets, presses, appSealed, crossed, lock>>

\* Mutant of AuthEncrypt: the nonce of the last answer is used.
AuthEncryptSame ==
  appSealed' = appSealed \cup {<<appKey, appNonce>>} /\ UNCHANGED <<appKey, appNonce>>
AuthEncrypt ==
  /\ appNonce' = appNonce + 1 /\ UNCHANGED appKey
  /\ appSealed' = appSealed \cup {<<appKey, appNonce + 1>>}

\* onLock() and onUnlock(); the nonce is used whether it can be sent or not.
Press ==
  /\ bound /\ button /\ ~dialog /\ link # "up"
  /\ presses < MaxPresses /\ presses' = presses + 1
  /\ button' = FALSE /\ AuthEncrypt
  /\ WriteCharacteristic("request", appNonce')
  /\ UNCHANGED <<bound, dialog, online, intents, pending, orphans, decoding, bluetooth,
                 gone, answers, serving, buffered, tickets, faults,
                 crossed, lock>>

\* There is no service yet: the exception comes after the encryption.
PressCrash ==
  /\ bound /\ button /\ ~dialog /\ link = "up"
  /\ presses < MaxPresses /\ presses' = presses + 1
  /\ appSealed' = appSealed \cup {<<appKey, appNonce + 1>>}
  /\ Crash /\ UNCHANGED <<tickets, faults, crossed>>

-----------------------------------------------------------------------------
(* The lock *)

\* Its answer: notified to a phone that has subscribed.
Answer(k, n, code) ==
  answers' = IF link = "ready" /\ ~gone
             THEN Append(answers, [key |-> k, nonce |-> n, code |-> code])
             ELSE answers

Received == Head(air)
Length == IF Received.kind = "ticket" THEN TICKET_LEN ELSE REQUEST_LEN

TakeTicket ==
  /\ air # <<>> /\ serving = "connected" /\ buffered = 0
  /\ Received.kind = "ticket"
  /\ IF Received.nonce > master THEN L!Store(Received.nonce) /\ serving' = "opening"
                                ELSE UNCHANGED <<serving, lock>>
  /\ air' = Tail(air)
  /\ UNCHANGED <<app, crypto, bluetooth, gone, answers, buffered, history>>

OpenTicket ==
  /\ serving = "opening" /\ L!Open /\ serving' = "open"
  /\ Answer(master, 1, "ticketOk")
  /\ UNCHANGED <<app, crypto, bluetooth, gone, air, buffered, history>>

\* A request that does not open has its nonce taken all the same.
TakeRequest ==
  /\ air # <<>> /\ serving = "open" /\ buffered = 0
  /\ Received.kind = "request"
  /\ IF Received.nonce <= nonce THEN UNCHANGED <<serving, lock>>
     ELSE IF Received.key = key THEN L!Rotate(Received.nonce) /\ serving' = "turning"
     ELSE L!Take(Received.nonce) /\ UNCHANGED serving
  /\ air' = Tail(air)
  /\ UNCHANGED <<app, crypto, bluetooth, gone, answers, buffered, history>>

\* Mutant: the lock answers under the nonce of the request.
AnswerRequestSame ==
  /\ serving = "turning" /\ serving' = "open"
  /\ sealed' = sealed \cup {<<key, nonce>>}
  /\ Answer(key, nonce, "done")
  /\ UNCHANGED <<app, crypto, bluetooth, gone, air, buffered, history,
                 master, key, nonce, opened, rotated>>
AnswerRequest ==
  /\ serving = "turning" /\ L!Respond /\ serving' = "open"
  /\ Answer(key, nonce + 1, "done")
  /\ UNCHANGED <<app, crypto, bluetooth, gone, air, buffered, history>>

\* A whole message of the other kind stays in the buffer; the next one goes
\* past its end.
Buffer ==
  /\ air # <<>> /\ serving \in {"connected", "open"}
  /\ buffered > 0 \/ (Received.kind = "ticket") # (serving = "connected")
  /\ buffered' = buffered + Length
  /\ IF buffered' > TICKET_LEN THEN serving' = "overrun" ELSE UNCHANGED serving
  /\ air' = Tail(air)
  /\ UNCHANGED <<app, crypto, bluetooth, gone, answers, history, lock>>

\* FSM_DISCONNECTED: the buffer is reset, and the lock advertises.
SeeLinkLost ==
  /\ gone /\ air = <<>> /\ serving \in {"none", "connected", "open"}
  /\ gone' = FALSE /\ serving' = "none" /\ buffered' = 0
  /\ UNCHANGED <<app, crypto, bluetooth, air, answers, history, lock>>

\* The lock loses power; the phone sees the link end, or time out.
Restart ==
  /\ decoding = NoAnswer /\ Fault
  /\ serving' = "none" /\ buffered' = 0 /\ gone' = FALSE /\ air' = <<>>
  /\ L!Forget /\ link' = "none" /\ answers' = <<>>
  /\ IF link = "none" THEN UNCHANGED <<gatt, timer, intents>>
     ELSE \E intent \in {"disconnected", "error"} : ReportEnd(intent)
  /\ UNCHANGED <<bound, dialog, button, online, pending, orphans, crypto,
                 tickets, presses, appSealed, crossed>>

-----------------------------------------------------------------------------
Ui == OnReceive \/ OnError
Binder == SetSessionNonce \/ Decrypt
Firmware == TakeTicket \/ OpenTicket \/ TakeRequest \/ AnswerRequest \/ Buffer
              \/ SeeLinkLost

\* After an overrun nothing is known of the lock: here it does nothing more
\* until it restarts.
Next ==
  \/ LinkUp \/ OnConnected \/ OnServicesDiscovered \/ OnDescriptorWrite \/ LinkLost
  \/ ConnectFails \/ Binder \/ Ui \/ Firmware \/ Restart
  \/ OnBindService \/ OnUnbindService \/ ConnectTimeout \/ Connectivity
  \/ OnSessionKey \/ OnSessionKeyCrash \/ SessionKeyLost \/ Press \/ PressCrash

Spec == Init /\ [][Next]_vars

\* The threads of the app run, and so does the lock.
FairSpec == Spec /\ WF_vars(Ui) /\ WF_vars(Binder) /\ WF_vars(Firmware)
-----------------------------------------------------------------------------
Messages ==
  [kind : {"ticket", "request"}, key : 0..MaxTickets, nonce : Nat]
Answers ==
  [key : 0..MaxTickets, nonce : Nat, code : {"none", "ticketOk", "done"}]

\* The type invariant; what lies in the lock's buffer while it does not
\* overrun is at most one ticket, and a session key is asked for once on each
\* link (LockControllerImpl.java).
TypeOK ==
  /\ {bound, dialog, button, online, timer, gone} \subseteq BOOLEAN
  /\ crossed \subseteq {"key", "link"}
  /\ intents \in Seq({"ready", "ticketOk", "done", "disconnected", "error",
                       "notFound", "connectivity"})
  /\ pending \in Nat /\ orphans \in Nat /\ pending + orphans <= MaxFaults + 1
  /\ appKey \in 0..MaxTickets /\ appNonce \in Nat /\ decoding \in Answers
  /\ gatt \in {"none", "idle", "connecting", "connected"}
  /\ link \in {"none", "up", "found", "ready"}
  /\ air \in Seq(Messages) /\ answers \in Seq(Answers)
  /\ serving \in {"none", "connected", "opening", "open", "turning",
                  "overrun"}
  /\ serving = "overrun" \/ buffered \in 0..TICKET_LEN
  /\ tickets \subseteq 1..MaxTickets
  /\ presses \in 0..MaxPresses /\ faults \in 0..MaxFaults

\* The time-out is never posted for a connection that has been made, and none
\* stays behind when there is nothing to time out: it outlives an attempt only
\* while the error that ends the process is on its way to the UI thread
\* (connect(), its time-out and onConnectionStateChange() in
\* BluetoothService.java).
TimeoutOfAttempt ==
  timer => gatt = "connecting" \/ (gatt = "idle" /\ Contains(intents, "error"))

Pressable == bound /\ button /\ ~dialog

\* A button that can be pressed belongs to a session the lock has open: under
\* the app's key, at the app's nonce, with nothing on its way either side, or
\* to no link at all, unless something crossed from one link to the next.
\* onConnecting() leaves the buttons enabled and relies on the dialog alone
\* (LockPresenter.java).
ReadyMeansOpen ==
  Pressable /\ crossed = {} =>
    /\ link \in {"none", "ready"}
    /\ link = "ready" => /\ serving = "open" /\ buffered = 0
                        /\ key = appKey /\ nonce = appNonce
                        /\ air = <<>> /\ answers = <<>> /\ decoding = NoAnswer

\* The app never encrypts twice under one nonce of a key, and never under one
\* the lock encrypts under: both sides draw from one sequence, in turns, also
\* when messages are lost, when presses cannot be sent and when a session key
\* crosses; but not if a connection was begun before the end of the last was
\* handled (Cryptography.java).
NoncesApart ==
  /\ "link" \notin crossed => appSealed \cap sealed = {}
  /\ Cardinality(appSealed) = presses

\* Lock and app share one sequence of nonces by turns: the lock encrypts under
\* odd ones, the app under even ones, in any session the lock has opened and
\* whatever is lost, unless a connection was begun before the end of the last
\* was handled.  So the lock only counts on from even nonces, which is what
\* lets it count bytes differently (Cryptography.java, main.c).
EvenAndOdd ==
  "link" \notin crossed =>
    /\ \A s \in sealed : s[2] % 2 = 1
    /\ \A s \in appSealed : s[1] \in opened => s[2] % 2 = 0
    /\ serving = "turning" => nonce % 2 = 0

\* The app writes past the lock's buffer only after something crossed from
\* one link to the next: the lock bounds nothing and relies on the app to write
\* one message at a time (main.c, LockControllerImpl.java).
OverrunNeedsCrossing == serving = "overrun" => crossed # {}

\* A request written on a link is answered on the screen, unless the link is
\* lost or something crossed: nonces stay in step although either side alone
\* decides which it takes.
PressAnswered ==
  (\E i \in 1..Len(air) : air[i].kind = "request")
    ~> (button \/ link # "ready" \/ crossed # {})
=============================================================================
