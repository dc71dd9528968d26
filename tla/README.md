# Verification of esloq

TLA+ models, TLC runs and TLAPS proofs about esloq, a door lock opened from a
phone. This document assumes the repository's sources at hand; line numbers are
those of `src/firmware/avr/src/main.c` unless another file is named.

## 1. The system

A **server** (Django) keeps for each lock a master key and a nonce, and hands a
user with access a *ticket*: a fresh session key sealed under the master key
with the next nonce. The **app** (Android) fetches a ticket, connects to the
lock over Bluetooth LE, writes the ticket, waits for the lock's answer, and then
writes *requests* (rotate clockwise, rotate counter-clockwise) sealed under the
session key with increasing session nonces. The **lock** is an AVR
microcontroller that drives a BLE module over a UART with flow control; it
checks tickets and requests, turns the motor and answers each message.

### Components

| Component | State | Operations | Talks to | Modules |
|---|---|---|---|---|
| FSM and protocol (`main.c`, `crypto.c`) | `state`, `msg_buf`, `att_write_buffer`, `session_key`, `session_nonce`; in EEPROM `master_nonce`, `master_key` | `fsm_process()`, the `ble_rsp_*` and `ble_evt_*` handlers, `process_ticket_msg()`, `process_request_msg()`, `soft_reset()` | the module, by BGAPI packets | `LockFirmware`, `Lock`, `NonceBytes` |
| UART (`uart.c`, `timer.c`) | `rxbuffer`, its two indices and `rxbuffer_size` | `uart_rx()`, `uart_tx()`, the receive interrupt | main loop / interrupt, by shared variables | `UartRing`, `MainLoop` |
| Main loop, buttons, motor, sleep (`button.c`, `motor_control.c`, `power_down()`) | `request`, motor pins, overflow count of timer 0 | the three interrupts, rotation with time-out, sleep and wake-up | by shared variables | `MainLoop` |
| BGAPI bindings (`cmd_def.c`, `cmd_def.h`, `stubs.c`) | tables of messages and handlers, the packet being built | `ble_send_message()`, `ble_get_msg_hdr()`, `ble_process_packet()` | UART, handlers | `Bgapi`, `BgapiPackets` |
| BLE module (`bg/*.xml`, firmware of the vendor) | connection, advertising settings, attributes | answers commands, reports events | UART, radio | external, in each of the above |
| Server: tickets (`views.py`) | `Esloq.nonce`, `Esloq.key` | `getlockticket()`, rename | database, app | `Server` |
| Server: access (`views.py`, `permissions.py`) | `LockAccess` rows | grant, revoke, remove all; permission checks | database, app | `Server` |
| Server: logs, push registrations | `Log`, `FcmRegistration` rows | insert, list, remove | database, app | `Server`, in part |
| App: lock session (`lock/`, `Cryptography.java`) | gatt, broadcasts, session key and nonce, buttons and dialog | connect, send ticket, send request, handle message, time-out | lock, server pipeline | `AppSession`, `NonceBytes` |
| App: requests to the server (`data/`) | queued intents, pending callbacks | post, get, token | server | `AppSession`, in part |
| App: local cache (`data/`) | SQLite tables | insert, update and delete on results and push messages | server, screens | none |

`PROJECT.json` also lists what is left out by choice: screens, debug output,
token verification, the vendored cryptography.

### What is hard

* A ticket or a request is written in parts of 18 bytes; connections come and
  go between parts, and `msg_buf` must match them.
* The nonce goes to EEPROM before the ticket is authenticated (697, 703); the
  power may go at any of these points.
* The module's answers and events arrive in one stream and most handlers set
  `state` whatever it is: a connection or a disconnection can overtake an answer.
* MCU and module restart separately, the reset of the module by the MCU may not
  reach it (206), and a time-out inside a command leaves them with different
  ideas of where a command ends.
* `rxbuffer_size` and `request` are shared with interrupts without protection;
  the decision to sleep is taken some instructions before the sleep.
* Four tables of the bindings are indexed by one another's positions.
* Nonces are read, incremented and saved by concurrent requests on the server,
  and permissions are checked in queries before the write they allow.
* Nonces are arrays of bytes, which the lock compares and counts on unsigned and
  the app signed, with different carries.
* App callbacks answer for a connection that may be gone, on threads of their own.

The list with lines is `hazards` in `PROJECT.json`.

### What makes each component correct

* Protocol: tickets open sessions in order and at most once; a request turns
  the motor at most once; no nonce is used twice under a key; only the newest
  session is served.
* FSM and module: the lock always comes to advertise or to serve a connected
  phone again; it advertises with all its settings; it listens when a phone is
  connected; messages never mix.
* Ring: frames whole and in order; no byte read that is not there.
* Main loop: a press is carried out; the motor always stops; the MCU always
  wakes up for the module; commands stay in step with the module.
* Bindings: a command goes out with the bytes and the length its definition
  has; a message reaches its own handler, with all the bytes the handler reads.
* Server: who has access gets a ticket the lock takes, in the end; who lost it
  gets in no more; only administrators change who has it.
* App: a press goes into the session it was meant for and is answered; no
  nonce is used by both sides; no message overruns the lock's buffer.

## 2. Modules

Each module `M` has an `MCM` that TLC runs (`NonceBytes` needs none), and its
theorems in `M_proofs`; those
of `LockFirmware` about its dialogue with the module are in `LockLink_proofs`.
`Lock` is the centre: the firmware
implements it, the server's and the app's models take the lock from it.

            LockFirmware --implements--> Lock <--INSTANCE-- Server
            (messages, module)            ^
                                          +------INSTANCE-- AppSession
            MainLoop ----EXTENDS----> Bgapi <--EXTENDS-- BgapiPackets
            (interrupts, packets)     (tables)
            UartRing (bytes of the packets)      NonceBytes (bytes of the nonces)

### `Lock` — what the lock promises

Six variables: the newest ticket stored, the key and the last nonce of the
session, and the history of tickets opened, requests carried out and nonces used.
A ticket is stored only if newer, opens a session only once and in order, a
request turns the motor and an answer is sealed only at a newer nonce of the key
of an opened ticket. Restarts forget the session and nothing else.

### `LockFirmware` — the lock

| Variable | Code |
|---|---|
| `state` | `state` (51-72) |
| `turn` | the place in `main()`: `fsm` before `fsm_process()`, `pkt` before `ble_process_packet()`, `open` between the EEPROM write and the decryption of a ticket, `respond` during a rotation, `sleep` in `power_down()`, `overrun` after a `memcpy` past `msg_buf` |
| `msgBuf` | `msg_buf`: its length and the parts it holds |
| `sessionKey`, `sessionNonce`, `attWrite` | `session_key`, `session_nonce`, `att_write_buffer`: in SRAM, lost by every restart |
| `masterNonce` | `master_nonce_eeprom` |
| `toBle`, `toMcu` | the commands in the module's UART; the packets in the ring, and after them those the module still holds |
| `delivered` | how many packets of `toMcu` were in the ring when the MCU fell asleep: only what comes after them moves the wake-up pin (308) |
| `link`, `advertising`, `advSetup`, `air` | the module: connected, advertising, the settings it was given, parts not reported yet |
| `opened`, `rotated`, `sealed` | history: tickets opened, requests carried out, nonces used to encrypt |

There is one action per case of `fsm_process()` (`Fsm...`, `RefuseTicket`,
`StoreTicketNonce`, `ForgedTicket`, `OpenSession`, `RefuseRequest`,
`ForgedRequest`, `StartRequest`, `RespondRequest`), one per handler
(`Evt...`, `Rsp...`), and the module's side: it runs the firmware's commands in
order, answers each, and reports connections, disconnections and written parts.
The calls that last (a ticket with its EEPROM write, a request with its
rotation) are two actions, so that a loss of power or a packet falls between.

The phone is the most general one: while connected it writes any message, one
at a time: genuine tickets and requests in any order and as often as it likes,
and tickets sealed under no key. A key is named by the nonce of its ticket. The
first 24 bytes of a buffer with parts of several messages may be any nonce; such
a buffer never decrypts.

`Promise` is the refinement mapping to `Lock`: `master_nonce`, the key and the
nonce of the session as they are, a session only as long as a ticket opened it.

Abstractions: nonces are naturals (that the byte-wise comparison and increment
are an order and its successor is `NonceBytes`); a low battery changes one response code and is left
out; the encryption's error codes cannot occur (the library's function returns
0); a packet is one element of the ring, whose bytes are `UartRing`'s subject;
an EEPROM write is atomic; the buttons' rotations are `MainLoop`'s. The hard
reset that follows a restart is taken to reboot the module (`SoftReset`,
`PowerLoss`), and so in `UartRing`: with line 206 that holds only if switching
the pin's pull-up is enough, or both lost power. A restart that leaves the module
running is not in these two models.

Faults, counted by `MaxFaults`: `power` (loss of power), `soft` (the watchdog
reset after a UART error), `module` (the module reboots alone), `params` (the
connection's parameters change), `write` (the module refuses an attribute write).

### `NonceBytes` — the bytes of a nonce

`is_greater_than()` (353), `increment_array()` (402) and the app's
`incrementByteArray()` (`Tools.java`, 35) as the loops they are, one step per
byte: `Differ`, `Alike`, `End`; `Carry`, `Increment`, `Outside`; `AppCarry`,
`AppIncrement`. The first byte is the most significant one in all of them. `i >=
0` always holds of the lock's unsigned counter, so that after a carry out of the
first byte it goes on at 255, past the array: `Outside`. The app's bytes are
signed: it carries at `Byte.MAX_VALUE`, and a byte that is larger on the lock is
negative there. Either a function is called with any nonces (`Call`), or lock and
app count on in turn, as they do in a session from the nonce 0 on (`Turn`).

`OneCounting` is what allows one counter for both in `LockFirmware` and
`AppSession`: the two never disagree, because the lock only counts on from nonces
the app drew, whose last byte is even. That they alternate so is a premise here
and the property `EvenAndOdd` of `AppSession`, which holds unless a connection was
begun too early; after that the one counter stands for the bytes of both only up
to the nonce 127. A nonce of the models is its rank among the arrays without a
byte above `MAX_VALUE`. Their first bytes are not negative,
so that the app's comparison as signed numbers (`isValidSessionNonce()`) is the
same order.

### `UartRing` — the receive ring

`rxbuffer`, its indices and count as in `uart.c`; the interrupt is an action
(`UsartRx`), `uart_rx()` one action per access to the shared count, with
`rxbuffer_size--` split into `LoadSize` and `StoreSize`. `ble_process_packet()`
is `ProcessPacket` and `Continue`: a header, then a payload of the length the
header carries. Bytes are named by frame and index. A time-out may fire whenever
the ring looks empty. The counters wrap at the ring's size, as 8-bit counters of
a 256-slot ring do. Nothing withdraws RTS here: main may be away (rotating) for
any time, and the model stops when an unread byte is overwritten.

### `Bgapi` and `BgapiPackets` — the bindings

`Bgapi` is data: the rows of `apis` with their parameters (`cmd_def.c`), the
number of arguments each `ble_cmd_*` macro passes and the packed structures
(`cmd_def.h`), the tables of handlers, and which handlers are empty
(`stubs.c`; the others are in `main.c`). `ParameterSize` gives the bytes of each type of parameter.

`BgapiPackets` runs messages through the code: `Call`, then `FillFixed` or
`FillArray` for each parameter and `Output` (`ble_send_message()`); `ReadHeader`,
`ReadPayload` or `PayloadTimeout`, and `Find` or `NotFound`
(`ble_process_packet()`, `ble_get_msg_hdr()`). Values of parameters are left out,
lengths and positions are kept. The bounds are `DataLens`, the bytes of data a
message may carry, and `Classes` and `Numbers`, the headers there may be on the
line. `Matching` is specification and not code: the messages of the module that a
header names, by kind, class and number, which the lookup by position is
compared with. The code's own search, `ble_find_msg_hdr()`, is not modelled and
would be no such measure: it compares the type byte, in which commands and
responses are both 0x00 (`cmd_def.h`, 223-224), and so returns the row of a
command for the header of a response. `ble_get_msg_hdr()` falls back on it only
when the type under the mask 0x80 is neither 0x00 nor 0x80, which never happens.

### `MainLoop` — main(), interrupts, motor and sleep

`pc` is the place in `main()`, `back` where a command or a rotation returns to.
`state` is grouped by what `fsm_process()` does in it: `Configure` (a command of
the configuration is due), `Await` (its response is), `Advertising` (sleep),
`Serving` (nothing to do), `Message` (a ticket or a request is complete). The
interrupts are `PinChange`, `Int0` and `Overflow`; `pending` and `int0` are the
interrupt flag and the enable bit. `FsmAdvertising`, `Sleep` and `WakeUp` are
`power_down()` and `ble_wakeup()`: RTS withdrawn, the pin tested, asleep, up again. `Turn`,
`EnableCurrentSense`, `Jammed`, `TimedOut` are a rotation. `SendUnit`,
`LengthTimeout` and `DataTimeout` are `uart_tx()`: a length byte and two parts
of the command, each of which the module may take too late; `frame` is what the
module still expects. `held` are packets the module holds until RTS.

A reset forgets `request`, and may or may not reach the module (`MainInit`):
`ble_hard_reset_init()` sets `DDRD |= (1 < PIND3)` (206), a comparison and not a
shift, so that the reset pin stays an input. A module that is not reset keeps
what it held and what it expected of a command.

Assumed of the surroundings: a press outlasts the instructions between the test
of `state` and the sleep; the module hands packets over within the UART's
time-out once RTS is there.

### `Server` — requests about one lock

Django runs here without `ATOMIC_REQUESTS`: every query commits by itself. A
request of a user is the record `req[u]`, and goes through `Check` (the queries
of the permission classes), `Read` (the row the view works on), `Write` (the row
saved with every column, inserted or deleted) and `Reply`, with other users'
steps between; `Fail` drops it anywhere. `SaveTicket` is `getlockticket()`,
`SaveName` the rename (it puts back the nonce it read), `InsertAccess`,
`DeleteAccess`, `DeleteAccesses` and `WriteLogs` the others. `Deliver`,
`OpenSession` and `Restart` are the phone at the door and the lock, through `Lock`.

Left out: requests that only read; the lock's name; inserting users and push
registrations; more than one request at a time of one user. Once a lock has no
users any user may claim it, and two may at once (`permissions.py` says so):
`emptied` marks that.

### `AppSession` — the app and the lock

Variables of the screen and its service (`bound`, `dialog`, `button`, `online`,
`intents`, `pending`, `gatt`, `timer`), of `Cryptography` (`appKey`, `appNonce`,
`decoding`), of the radio (`link`, `air`, `answers`) and of the lock (`serving`,
`buffered`, and `Lock`'s variables). Actions: the radio's callbacks
(`LinkUp`, `OnConnected`, `OnServicesDiscovered`, `OnDescriptorWrite`,
`LinkLost`, `ConnectFails`), `handleMessage()` as `SetSessionNonce` and `Decrypt` on the binder
thread, what the UI thread does with broadcasts (`OnReceive`, `OnError`), with the
server's answer (`OnSessionKey`) and with presses (`Press`), the screen's start
and stop, the time-out, and the lock's steps. Exceptions on the UI thread end the
process (`Crash`); those in a Bluetooth callback are swallowed by Android. An
error status leaves the time-out posted (`BluetoothService.java`, 120-140):
`ReportEnd` keeps it, and it may fire until the error has ended the process.

`Buffer` is a message the lock gets in the wrong state: it stays in `msg_buf`,
and the next one may run past its end (617). `crossed` marks the histories in
which the code allows that, by what has crossed from one link to the next:
`"key"`, a link was lost while a session key was asked for on it, so that the
ticket, or two of them, arrive on the next; and `"link"`, a broadcast of the
connectivity began the next connection (`LockControllerImpl.java`, 79) while the
end of the last link, and perhaps an answer, were still on their way to the UI
thread, or a screen was opened while the binder thread was still at an answer for
the screen before. The dialog of the new connection is then closed by the old answer, and
the buttons are enabled on a link without a session. A press on such a link that
has no services yet ends the process after the encryption (`PressCrash`).

Steps that stand for more than one: `OnBindService` takes `onBindService()` and
the asynchronous `onServiceConnected()` together, so that a screen closed between
the two, whose `close()` finds no service to unbind, is not represented.
`AuthEncrypt` draws a nonce and encrypts at once; the binder thread could set the
nonce of an answer between the two, but a button that can be pressed has an answer
under way only in crossed histories (`ReadyMeansOpen`).

Assumed: Bluetooth stays switched on; broadcasts on their way are dropped when
the screen closes; callbacks of one gatt come one at a time; the UI thread has
handled the end of a link before the radio builds the next; parts of a message
that arrive while the lock answers are `LockFirmware`'s subject. The server is
external here: the app in the repository expects another interface
(`requestsessionkey` with `success`, `sessionKey`, `lockTicket`) than the REST
server has (`session_key`, `ticket`), so that the two are not composed.

## 3. Runs

| Run | Expect | What it shows |
|---|---|---|
| `lock` | pass | two tickets, two request nonces, power losses, watchdog resets, refused writes: `TicketsInOrder`, `RotateOnce`, `NonceUsedOnce`, `NewestSession`, and `KeepsPromise`, the refinement of `Lock`; `AdvertisesComplete`, `ServesLink`, `FreshConnection`, `TicketComplete`, `SessionKept` |
| `reachable` | pass | with fairness and any one fault of any kind: `Reachable`, with its three exceptions |
| `asleep` | violation | `PacketsHandled`: a packet in the ring is slept over |
| `params` | violation | `SessionKept` fails when connection parameters change |
| `reboot` | violation | `TicketComplete` fails after a reboot of the module alone |
| `frames` | pass | four frames of up to two payload bytes through a ring of four slots, until an unread byte is overwritten: `FramesInOrder`, `NeverAhead` |
| `mainloop` | pass | three presses and events, rotations of two overflows: `PressServed`, `ModuleServed`, `FullTurn`, `MotorStops` |
| `length` | violation | `CommandsInStep`: a length byte that times out is ignored |
| `packets` | pass | every command and every header, with 0 to 40 bytes of data: `CommandWhole`, `HandlerFits`, `OnlyUnknownResets` |
| `server` | pass | three users, three requests besides the Asker's tickets: `WritesByAdmins`, `RevokedStaysOut`, `AskerServed` |
| `session` | pass | two tickets, two presses, four faults: `TimeoutOfAttempt`, `ReadyMeansOpen`, `NoncesApart`, `EvenAndOdd`, `OverrunNeedsCrossing`, `PressAnswered` |
| `nonces` | pass | every pair of nonces of three bytes, and a session through all of the app's: `ComparesOrder`, `LockCounts`, `AppCounts`, `OneCounting` |

**Findings.** (1) `ble_evt_connection_status()` tests `flags & 5` for "flags =
0101": either bit is enough, and a parameters-change event of a live connection
(flags 1001) drops the session to `CONNECTED`. The phone's next request is then
left in `msg_buf` as if it were part of a ticket. (2) A module reboot raises
`system_boot` but no disconnection, and `ble_evt_system_boot()` does not reset
`msg_buf`: parts of two messages make up 72 bytes and `process_ticket_msg()`
runs on the mixture (which it refuses, possibly after storing its first bytes as
the new master nonce). (3) `power_down()` tests only the wake-up pin: a
packet that came into the ring with the answer to `set_mode`, such as the event
of a connection, is slept over until the module has something else to say or a
button is pressed; the connected phone is not served and the module, connected,
does not advertise. (4) `uart_tx()` drops the result of `send_byte()` for the
length byte (`uart.c`, 81), although "-1 if a timeout occured" (74) is promised of
it: the data follows without its length, the module takes the first byte of the
command for one, and main goes on out of step with it. The next time-out in the
data ends in a reset, which brings the two back in step only if it reaches the
module (206).

`Reachable` counts a connection only in the states that take the phone's messages
(`PhoneServed`), and has three exceptions: `msg_buf` was overrun and the model has
stopped; the MCU sleeps over packets it has not read (finding 3); or the module
has rebooted alone and the phone then never leaves. In the last, a response to a
command of the module's former life puts the FSM in a waiting state, or to sleep
in `ADVERTISING`, under a link whose event it ignores; it recovers with the next
disconnection.

More observations are hazards and not runs. A ticket the lock refuses is
answered with nothing (883), so that the app's dialog stays. The decrement of
`rxbuffer_size` (`uart.c`, 125) is unprotected: when the interrupt falls between
its load and its store, a byte that is there is not seen, and its frame ends in a
watchdog reset unless more bytes follow in time; the frames stay whole and in
order nevertheless (`frames`). `incrementByteArray()` is described as "Increment
little endian byte array" (`Tools.java`, 31), but counts from the last byte, which
is the least significant one everywhere, and carries at 127: the 64th request of a
session skips half of the numbers of two bytes, which does no harm
(`OneCounting`). A link lost
while a session key is asked for, or a connection begun too early, can bring a
ticket into an open session, or a request to a lock that waits for a ticket, and
the message after it then runs past `msg_buf` (`OverrunNeedsCrossing` shows that
nothing else does). A connection begun too early also lets the app press under a
key whose ticket the lock has still to open, and so use a nonce the lock uses,
too (`NoncesApart` shows that nothing else does); a ticket that merely crosses
does not.

**Bounds and why they are enough.** The replay properties relate at most two
keys and two nonces: a ticket against the one before, a request against its
repetition and against the response after it (request nonces 2 and 3 fall on
and after the lock's first responses); two faults allow a restart on each side
of a session. The link properties depend on the order of packets, not on which
nonce they carry: two waiting events and two faults let a connection, a
disconnection and a reconnection overtake an answer. `reachable` has one ticket
and one request, as its question is in which state the FSM is, and one fault of
any kind, among them the two that `lock` leaves out.
`MaxQueue` bounds only the module's events: answers are always delivered, one
per command. The ring has four slots against frames of two to four bytes, and so
fills within two frames, wraps its indices and its count several times and
holds the end of one frame with the start of the next. In `mainloop` three
presses and events in any combination, besides the packets the module sends
anyway: two events take a phone's message to a rotation, and a press then falls
into it; two presses let the buttons override each other, or one fall into the
rotation of the other; two overflows tell a rotation that starts at zero from
one that starts at what the last one left. In `packets` the tables are the real
ones and `MAX_PAYLOAD` the real 60; 20 bytes are the longest section of an
answer, 26 the scan response, and 40 is more than the firmware sends. Headers
are of the classes 0 to 10 and the numbers 0 to 21, two and one more than any
table has, and 255.
In `nonces`, three bytes have a first, a last and a middle one, and `MAX_VALUE` 3
leaves the lock two bits beside the app's one: all 262144 pairs are compared, all
512 nonces are counted on by both, and a session goes through the 64 of the app,
with carries out of one, two and three bytes. In `server`, three requests let a rename or a grant and a revocation overlap with a ticket
and with each other, for an administrator, a member and a stranger. In
`session`, four faults allow two changes of connectivity, a broadcast of which
begins a connection too early, and two lost links; or a link lost, a second one
during the reconnection, a closed screen and a restart. Two tickets are one for
each of two links, or one that crosses into the session of the other; two presses
are one on each side of a reconnection.

**Deadlock** is checked in `packets` only, where no step may stop the code. The
lock's model stops after an overrun, the ring's when a byte is overwritten, and with
bounded faults, presses, events and requests the environment may stop for good.

**Fairness.** `LockFirmware`: `WF(Mcu)`, as `main()` is an endless loop and each of
its steps is finite (asleep, the MCU wakes by the wake-up pin when a packet is
there); `WF(ModuleRuns)`, as the module answers every command it has taken, which
the firmware relies on in its `_W` states. Phones and faults have no fairness.
`MainLoop`: `main()`, each interrupt, the timer and the module's hand-over
run, and nobody holds a button forever; what the module raises, presses and jams
have none. `Server`: the Asker asks again, its requests are served, its phone is at
the lock and the lock opens a stored ticket; the other users have none.
`AppSession`: the UI thread, the binder thread and the firmware run; the radio,
the server and the user have none.

## 4. Proofs

`LockFirmware_proofs`, for every set of tickets and requests, every number of
faults of every kind and any queue bound:

* `TypeCorrect`: `Spec => []TypeOK`.
* `SessionIsNewest`, `TicketsOpenInOrder`, `RequestsRotateOnce`,
  `NoncesUsedOnce`: the four safety properties of the tickets and requests.
* `FirmwareKeepsPromise`: `Spec => KeepsPromise`, the firmware implements `Lock`.

They follow from one inductive invariant, `Inv`: `TypeOK`; `MasterCovers`, the
stored master nonce is at least every nonce that opened a session; `Storing`,
between the EEPROM write and the decryption the buffered nonce is the stored
one and above all the opened ones; `NoncesCovered`, whatever was carried out or
sealed under the current key has a nonce at most the session nonce, and under
any other key belongs to an opened ticket; `Responding`, what holds during a
rotation; and `NewestSession`. The properties themselves are not inductive:
that a ticket is newer than all opened ones rests on the EEPROM nonce bounding
them (it survives the restarts that clear everything else), and that a response's
nonce is unused rests on the session nonce bounding every use of the key. `Inv`
is preserved by each group of actions (`InvTicket`, `InvOpenSession`,
`InvRequest`, `InvFsm`, `InvPacket`, `InvOutside`), and the action properties
follow from `Inv` and the guard of the action. For the refinement, every step of
the firmware is, under `Inv`, the step of `Lock` its group maps to, or leaves
`Lock`'s variables as they are.

`LockLink_proofs`, for the same sets, and for as long as the module does not
reboot alone (`"module" \notin Faults`); losses of power, watchdog resets,
refused writes and changed connection parameters may fall anywhere:

* `AdvertisingIsComplete`, `ConnectedIsServed`, `ConnectionsStartFresh`,
  `TicketsAreComplete`: four of the properties of `lock`.
* `SessionsAreKept`: the fifth, also without changed parameters
  (`"params" \notin Faults`); with them `params` violates it.

The hypothesis cannot be dropped: each of the five fails when `Faults` has
`"module"`. A module that has rebooted answers a command of its former life or
raises `system_boot` while the firmware waits for another answer, and then
configuration runs ahead of its answers (`reboot` shows `TicketComplete`; the
others fail with that fault as well). The lock comes round again nevertheless, once
the phone leaves, which `reachable` checks with that fault among the others.

None of the five is inductive: that no setting is missed rests on the order of
commands and answers, that a session starts fresh on the order of events. The
invariant `LinkInv` states the protocol between MCU and module:

* `Turned`: the states in which `fsm_process()` and the handlers leave each other.
* `Dialogue`: one command at a time. In a state that waits, either the module
  has still to run the one command it waits for (`Asked`), or its answer is the
  first packet on its way that is not an answer to a write (`Answered`); in all
  others only events and such answers are under way (`Settled`).
* `Settings`: which settings the module has, by state and by what is answered.
* `Linked`: of the events under way, a connection comes before all others and a
  disconnection after them; none is there before the module advertises; a link
  the FSM has not heard of has its event under way.
* `Fresh`: outside of a connection `msg_buf` is empty.

`TicketsAreComplete` needs `Messaging` on top, about the parts of messages: each
part in the buffer, in the queue and in the air continues the one before it, or
begins a message where the one before it ends (`Stream`), and the buffer holds
the beginning of a message, or a whole request and one part more (`Shaped`), so
that 72 bytes are always the four parts of one ticket. It is stated up to the
overrun of `msg_buf`, after which the model stops.

`UartRing_proofs`, for a ring of any size from 2, any length of the header and
of the payloads, and any number of frames:

* `RingTypes`: `Spec => []TypeOK`, no index leaves the ring.
* `NeverReadsAhead`: `Spec => []NeverAhead`. The invariant `Counted` adds that the
  value in the register is covered by bytes not yet taken off, and that a zero
  met by the decrement is a full ring whose count has wrapped.
* `FramesStayInOrder`: `Spec => []FramesInOrder`, on top of the other two, up to
  the point where a byte that was not read is overwritten. The
  invariant `Ordered` follows a byte from the line to the handler: what was sent
  is frame after frame (`Streamed`), the ring holds what was received and not
  taken (`RingHolds`), and what `ble_process_packet()` has is the beginning of
  the frame after the last one handled (`Lengths`, `Reading`, `Handled`). That
  the count may be too low, or wrap, delays the reader and never moves it.

`MainLoop_proofs`, for any threshold of the motor timer and any number of
presses and events:

* `LoopTypes`: `Spec => []TypeOK`.
* `RotationsLast`: `Spec => FullTurn`. `Turning` says that the motor turns exactly
  while `main()` waits for it and that the overflows since the reset of the timer
  are those of this rotation; `Returning`, where either returns to.

`Server_proofs`, for any set of users and any number of requests:

* `RowsApart`: `Spec => []TypeOK`; of it, that two users never share the id of a
  row, and no row has an id still to be given out, takes an argument.
* `AdminsWrite`: `Spec => WritesByAdmins`, although a check and the write it
  allows are apart and the requester may lose its access in between.
  `Remembered` says that whoever is an administrator has been one; `Authorized`,
  that a grant, revocation or removal past its check is by one who has been an
  administrator. A revocation by somebody without access passes the first of its
  checks; it then ends at the second, as the row it names, of somebody else, can
  only be its own if ids were used again, and they are not.
* `RevocationHolds`: `Spec => RevokedStaysOut`, by a case for each action: none
  brings a user who is shut out a ticket the lock has not passed.

`AppSession_proofs`, for any number of tickets, presses and faults:

* `AppTypes`: `Spec => []TypeOK`. That no more session keys are waited for than
  `MaxFaults + 1` is `Counted`: one is asked for on each link that became ready,
  and every such link but the last was lost by a fault.
* `TimeoutsEnd`: `Spec => []TimeoutOfAttempt`, in every history (`Timed`): the
  time-out belongs to an attempt, or to one whose error is still to be handled.
* `NoncesStayApart`: `Spec => []NoncesApart`, also when session keys cross.
* `NoncesAlternate`: `Spec => []EvenAndOdd`, likewise.
* `ButtonsAreReady`, `OverrunsNeedCrossing`: `Spec => []ReadyMeansOpen` and
  `Spec => []OverrunNeedsCrossing`, as long as nothing crosses.

None of them is inductive, as each relates the app to the lock across all that
is on its way between them. `AppInv` has five parts. `Base` holds in every
history: the lock's nonce bounds what it sealed under its key (`Numbered`) and
the app's what it sealed under its own, one for each press (`Drawn`); messages
and answers are of tickets and sessions there have been (`Addressed`); what app,
radio and lock know of the link, and what may still be under way by then
(`Linked`); when the time-out may be posted (`Timed`); and the broadcasts, of
which one asks for a key and one is the end of a link (`Broadcast`), the latter
last unless a connection was begun too early (`Ordered`). `Shielded`, unless a connection was begun too early: until the
lock has opened a session, an enabled button is behind the dialog, and no answer
is on its way. `Apart`, under the same condition, is a token for each key
(`InTurns`): an enabled button, a request on its way, the lock at work, an answer
on its way and an answer being decoded exclude each other, and there is at most
one of each. Whoever has the token has a nonce that bounds what the other has
sealed (`Ahead`), and nothing was sealed under a ticket that is still to open
(`Unopened`). Tokens are lost with links and messages, never doubled. `Alternating`, under the
same condition, is the parity of nonces: odd with an answer and with the app that
has one, even with a request and in the lock that has one. `Phases`,
as long as nothing crosses: a session key is waited for only on a ready link and
only before anything is written (`Asked`, `Awaited`), there is one message at a
time of the kind the lock waits for (`OneMessage`), and with an answer on its way,
or an enabled button, the lock is at rest at that nonce (`Settled`).

The conditions on `crossed` are those of the properties and cannot be dropped:
with four faults TLC violates `ReadyMeansOpen` and `OverrunNeedsCrossing`, with
five `NoncesApart`, if `crossed` does not count connections begun too early.

`BgapiPackets_proofs`, for the real tables, any headers of two bytes, any lengths
of data and a `MAX_PAYLOAD` of 16 to 236 bytes:

* `LookupByPosition`: for every header, `ble_get_msg_hdr()`, which indexes tables
  by the class and the number, finds the one response or event of that class and
  number in `apis`, and nothing where there is none (`Matching`).
* `PacketTypes`: `Spec => []TypeOK`. `CommandsGoWhole`: `Spec => []CommandWhole`.
  `HandlersFit`: `Spec => []HandlerFits`. `OnlyUnknownReset`:
  `Spec => []OnlyUnknownResets`.

The tables are proved row by row to agree: the parameters of a row fill the bytes
its structure has and take the arguments its macro passes (`CommandMeasured`,
`ModuleMeasured`), and an array is always the last of them. `PacketInv` carries
that through the code: while a packet is filled, what is left of the parameters
measures what is left of the payload and of the arguments (`FillInv`); a sent
packet, a received header and a message with its handler are rows of the right
kind (`SentInv`, `ReceiveInv`, `HandlerInv`). TLC checks `PacketInv`, too.

`NonceBytes_proofs`, for nonces of 1 to 255 bytes and any odd `Byte.MAX_VALUE`
with twice as many values of the lock's bytes:

* `ByteTypes`: `Spec => []TypeOK`. `ComparisonsOrder`: `Spec => []ComparesOrder`.
* `LockCountsOn`: `Spec => []LockCounts`, with the only nonce at which
  `increment_array()` leaves its array. `AppCountsOn`: `Spec => []AppCounts`.
* `CountingIsOne`: `Spec => []OneCounting`.

`LoopInv` says what each loop leaves behind it: a comparison equal bytes, an
increment bytes that were the largest and are 0 (`Carried`), before untouched
ones. At the end that is `CountedOn`, and `CountedOnIsNext` shows without
arithmetic on numbers of 24 digits that nothing lies between the two arrays: the
first bytes in which one between them differs from either contradict each other.
`SessionInv` adds the parity of the last byte, by whose turn it is.

Assumptions: the named `ASSUME`s of the modules (nonces are positive naturals;
faults are of the known kinds; the ring has at least two slots; headers are bytes
and the payload of a packet is counted in one; the lock's loops count the bytes of a
nonce in one byte, and the largest signed byte is odd; the motor timer
has a threshold; the first two users are two, and the value for nobody is no
user), and what the models take for granted above: the cryptography is ideal,
each ticket has its own fresh key, EEPROM writes are atomic.

Only model-checked: the liveness properties (`Reachable`, `PressServed`,
`ModuleServed`, `MotorStops`, `AskerServed`, `PressAnswered`), which the prover
does not reach.

## 5. Not modelled

* **A torn EEPROM write.** A loss of power in the middle of writing the nonce
  (697) leaves a mixture of two nonces, which the code cannot detect.
* **A hard reset that does not reach the module** (`1 < PIND3`, 206), outside of
  `MainLoop`: see section 2.
* **Local cache and push messages** of the app: tables filled from the server's
  answers and shown. **Screens**: they forward to the modelled parts.
* **Reads of the server**, its users and push registrations: no step of these
  reads what another modelled step writes and then changes anything.
* **Token verification, debug output**: no state the protocol depends on.
* **avrnacl**: used through what it promises, that a message opens only under
  its key and nonce.
