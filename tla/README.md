# A formal model of ganymede-esp

`ganymede-esp` is the firmware of an ESP32-S2 that drives grow lights and
reports climate measurements. It registers itself with Auth0, polls a gRPC
service for its configuration, and uploads measurements, all over one HTTP/2
session at a time. It is C on FreeRTOS: a handful of preemptive tasks that talk
through a mutex, a queue, task notifications, event groups, static buffers and
flash. The repository has no tests.

This directory holds TLA+ modules for that program, the TLC configurations that
check them, and proofs that TLAPS checks. Paths such as `net/http2/http2.c` are
relative to the repository's `src/`.

## 1. Inventory

| Component | State it keeps | Operations | Talks to |
|---|---|---|---|
| `net/http2/http2.c` | `http2_mutex_`, `http2_event_queue_` (2 events), a static receive buffer, one heap-allocated session | acquire, connect, perform, release; `http2_task_` (priority 4) carries connect and perform out | nghttp2, esp_tls; called by auth and api |
| `net/auth/auth.c` | an event group (connected, refresh, register), a periodic timer, two static buffers, two tokens in flash | `auth_task_` (priority 6): refresh or interactive registration; `auth_request_register`, `auth_get_token` | http2, NVS, Wi-Fi/IP events, console |
| `api/ganymede/v2/api.c` | static token, payload and response buffers | one gRPC call: acquire, connect, token, pack, perform, unpack, release | http2, auth; called by poll and measurements |
| `app/poll.c` | an event group (connected, refresh), a periodic timer, the last response in flash | `poll_task_` (priority 4): apply the stored response, then poll, store, apply; `poll_request_refresh` | api, identity, lights, NVS, events, console |
| `app/lights.c` | `incoming_light_config`, the adopted configuration, GPIO levels | `lights_update_config` (from poll), `lights_task_` (priority 3) every 10 s | GPIO, clock |
| `app/measurements.c` | a bucket of 100 samples and a cursor | `measurements_task_` (priority 4): sample every 60 s, push a full bucket | am2320, api, identity |
| `drivers/am2320.c` | none | read over I2C, CRC-16, conversion | I2C |
| `app/identity.c` | the device id under a mutex | get, set, MAC address | poll, measurements |
| `net/wifi/wifi.c` | an event group | connect, reconnect on every disconnection; the task starts the driver and then only logs | events heard by auth and poll |
| `app/main.c` | a line buffer | initialises all of the above in order, then reads console commands | auth, poll |
| `*.proto`, CMake, sdkconfig, certificates, nghttp2 port headers | none at run time | | |

What is hard about it:

* **Concurrency.** The HTTP/2 session is shared by three tasks through a mutex,
  but every call is executed by a fourth task that holds a bare pointer to the
  session, and the answer comes back as a task notification, which carries no
  identity. nghttp2's receive buffer is one static array.
* **Failure half-way.** acquire can fail after it took the mutex, and its caller
  still calls release. A perform returns the last status it has seen whatever
  ended its loop. The two OAuth tokens are two writes to flash.
* **Time.** A call is given up after five seconds, but its stream lives on in
  the session. Registration polls until a code expires.
* **Stale state.** Response buffers are static and never cleared. The session's
  buffer and cursor survive from one call to the next.
* **Requests as bits.** Timer, console and network events set and clear bits of
  an event group that a task waits for and clears *after* it has done the work.
* **Boot.** Tasks run from the moment they are created, while `app_main` still
  creates what they use, and network events are told only to handlers that are
  registered by then.
* **Edges.** The sensor's sign and magnitude, the C remainder of a negative
  offset, `1 << port` for ports nobody checks, writes longer than one TLS chunk,
  a table indexed by a status of -1.
* **Restarts.** A configuration or token is written, then used; the power can
  fail in between, and a malformed configuration panics the device.

What makes each component correct:

* http2: one session at a time; no use of a freed session; every call answered
  exactly once with its own result; a body reported OK is the whole body of
  that call; calls and mutex holdings end.
* auth: stored tokens belong together and never go back; every request is
  served; attempts end; a successful refresh is stored.
* poll: every request leads to a poll; the configuration in effect survives a
  restart and follows the server; local time is the configuration's.
* lights: outputs follow one adopted configuration; none is leaked or used
  after it is freed.
* measurements, api, am2320: every sample that the server gets is what the sensor
  measured, once; every sample it does not get is accounted for; shared buffers
  stay apart; requests fit their buffer; nothing allocated is left.
* boot: no task or handler uses an object before it exists; a connection that is
  lost comes back, and the tasks that depend on it know.

`PROJECT.json` lists each hazard at the line where it bites, with the properties
that cover it.

## 2. Modules and plan

    SessionService  <==implements==  Http2
         ^                             |  one step "HandlePerform"
         | INSTANCE                    v
         |                        Http2Perform    Transfer
        Api                         (way in)      (way out)
         ^
         | EXTENDS                Auth, Poll --configuration--> Lights
    Measurements --EXTENDS--> Am2320
                                  Boot (order of creation, network events)

`X_proofs` EXTENDS `X` and holds the theorems about it; `Measurements_proofs`
holds those about `Api` too. `MCX` gives `X` its constants for TLC.

1. `SessionService`, `Http2`, `Http2_proofs` (done). Everything else in the
   firmware stands on this hand-off, and it is where the concurrency is.
2. `Http2Perform` and `Transfer` (done): the inside of one call, the way in and
   the way out.
3. `Auth` and `Poll` (done), with the time zone: the two event-driven tasks;
   `Lights` (done): the pointer that Poll's configurations are handed over
   through, and the pins.
4. `Api` over `SessionService`, and `Measurements`, which composes it with
   `Am2320`, poll_task, auth_task and restarts (done): from the sensor to the server.
5. `Boot` (done): the order of creation, and the events that come too early.
6. A proof module for each of them (done): every safety invariant and every
   action property of the runs that pass is a theorem.
7. Left: `Http2Perform` as a refinement of what `Api` takes a perform to be (one
   response, whole if the status is OK), which now rests on `GrpcOkIsWhole`.

Every module declares its parameters as CONSTANTS with named assumptions, has
one action per step of the code, and uses no RECURSIVE operator. A definition
whose comment begins with "Variant:" is not part of the specification: it is a
plausible mistake in the action that follows it, kept to show that a property
would notice.

## 3. What each module models

### SessionService: the promise

A task wants the session, grabs it when nobody holds it, asks questions and
collects one answer for each, discards the session and drops it. A perform can
only be answered "ok" if the session is secured, which only a connect call
does. No queue, memory, task or notification.

### Http2: `http2_session_acquire/connect/release`, `http2_perform`, `http2_task_`

`pc[t]` says where caller `t` stands; labels are the points of the code between
which another task can run:

| Labels | Code |
|---|---|
| `acquire`, `malloc`, `tls`, `ng` | `http2_session_acquire`, lines 511, 515, 519, 525 |
| `acquired`, `connected`, `refused` | the caller has the session; connect not called, went through, failed |
| `sent`, `blocked` | between `xQueueSend` and `xTaskNotifyWait`; inside it |
| `free`, `give` | `http2_session_release`, before line 604, before line 606 |
| `unwind`, `unwind_give`, `failed` | the same release called by a failing acquire; acquire has returned NULL |

`live` and `ng` are the allocated sessions and those with an nghttp2 side; `conn`
is the esp_tls state that `http2_session_check_tls_conn_` looks at; `queue`,
`serving` and `outcome` are `http2_task_`; `notified` is each task's pending
notification. `xTaskNotifyWait(0xFFFFFFFF, ...)` clears the value on entry only
if none is pending, so `EnterWait` changes nothing but the label.

Abstracted: what a call does on the wire (a result), ports and host names. Left
out: a NULL from `malloc`, which line 516 dereferences. A caller performs only
once its connect succeeded, which all three callers do (`api.c:65`,
`auth.c:212`, `auth.c:280`), and `http2_task_` still does its own check.

The refinement mapping: `holder` is the mutex; a task in a call is "asking"
until its notification is pending, then "answered"; `secured` is that some
session's TLS connection is done.

### Http2Perform: `http2_session_perform_internal_` and the nghttp2 callbacks

One caller at a time, as `Http2` shows, so there is one session. `Start` resets
the cursor and the results and submits the request (or `StartFails`: no TLS connection, or
nghttp2 refuses), then `SendRequest`s, `SendReturns`, `RecvFrame`s,
`RecvWouldBlock` and the loop condition alternate. A request that a timed-out
call left unsent leaves during a later call of the session. The server may answer with a
body of any length up to `MaxChunks`, a good or a bad status, and may end the
stream early at any frame. Streams are independent: `RecvFrame` may take the
next frame of any stream of the session, a stream that a timed-out call left
behind included, since `http2_on_data_`, `http2_on_header_` and
`http2_on_stream_close_` do not look at the stream. A gRPC status is a trailer,
an HTTP status a header; which one the session listens to follows from its user
(api.c: one perform per session; auth.c: repeated performs). After a callback
failure or a connection error no more frames are delivered.

Chunks are `<<call, index>>`, so a property can tell whose byte is where; the
caller's buffer takes `DestLength` chunks. `buffer` is the two static buffers
themselves (api.c's and auth.c's): all zero at first, and nobody ever clears them.
`dest` is what the current call has written, of the length `dest_cursor`, which
no caller is told. `Put` is the write of `http2_on_data_`: the chunk goes behind
what is there, and the zero that should end it goes one byte too far (line 254), so
one old byte stays between the two; a zero beyond a full buffer is dropped. A chunk
is one place of the buffer. A chunk that does not fit (`RecvTooLarge`) ends the loop
and is gone; nghttp2 may or may not be able to go on with the session, so `broken`
takes either value and the session may be used for another call.

### Transfer: `http2_data_provider_`, `http2_tls_send_`

The way out of the same loop. A perform queues HEADERS and DATA; nghttp2 packs one
frame at a time and offers it to `http2_tls_send_`, again from its beginning after
every WOULDBLOCK. A byte is `<<stream, call, place>>`: the stream that carries it,
the call whose payload it is from, its place there. `outbox`, `frame` and `sent`
are nghttp2's queue, the frame it is sending and `http2_tls_send_`'s cursor;
`record` is the record that esp_tls holds on to when a write would block (mbedTLS
flushes it before it accepts anything else, and reports the length it is then
given); `wire` is what has left. Three things of the code are kept as they are:
every chunk starts at `data` (line 159), EOF is set whatever is left (line 232),
and the payload is the session's, not the stream's (line 229), so a DATA frame that
a given-up call left behind is filled from the next call's payload. A dead
connection writes nothing more, so a perform on one is not an action. The length
of a HEADERS frame stands for nghttp2's header compression; a frame's nine-byte
header is one byte of the model.

### Api: `ganymede_api_v2_perform_`

One label per point at which another task can run; the session is an instance of
`SessionService`, which `Http2` implements. `token`, `payload` and `response` are
the static buffers; a message is named by what it carries and a response by the
message it answers, so a buffer that holds another task's message shows.
`http2_task_` is `Secure`, `Deliver` (the request leaves, from the buffers as they
are then), `Respond` (all of the response is stored, or some of it) and `Reply`.
`auth_task_` competes for the session and renews the token before it releases it.
A status of -1 makes `grpc_status_to_str` read before its table: `Log` and
`LogPanics` are the two outcomes. (For 0, 1 and 2 it gives the name of the status
before; from 3 on the names are right, because code 2 is missing in both the
enumeration and the table.)

One assumption is about the server: an answer with status OK has a body. A gRPC
message has at least its five bytes of prefix; for a stream that ends with OK and
no message at all, `Unpack` would be given what an earlier answer has left in
`response_buffer_`, as `Http2Perform` shows (`FirstCallIsOwn`).

### Am2320: the frame and its CRC

`Crc16` is the loop of `crc_16`, byte by byte and bit by bit, over sets of bit
positions; `Temperature` and `RelativeHumidity` are the conversions. Floats are
kept as the integers they are made from.

### Measurements: from the sensor to the server

`measurements_task_` with its three parallel arrays, the push and its cleanup,
composed with `Api`. Every `malloc` of the request is a step that succeeds or fails
(`BuildMeasurement`, `BuildTimestamp`, `BuildAtmosphere`), every label of the cleanup
a step of its own (`CleanupTimestamp`, `CleanupMeasurement`, `Cleanup`), and `blocks`
is what is allocated. A list that is NULL is written through: `ListPanics`. `Climate` gives
what the sensor measures in each interval *and* the frame it sends for that, so
conversions are compared with the measurement and not with themselves. The bus
may deliver the frame, the frame with any one bit turned, only zeros or only ones;
the driver accepts what passes its CRC. A failed read leaves the bucket alone, a
failed allocation or call empties it. `uploaded` is what the server has received.
`Panic` and `ListPanics` restart the device; flash, the clock and the server go on.
`identity_get_device_id` waits without limit and so cannot fail.

### Boot: `app_main`, `wifi_task_` and the event handlers

`BootSequence` is the list of what `app_main` creates; a task is a script of the
objects its steps use, of which the last is its loop. The default event loop
carries `start`, `disconnected`, `got_ip` and `lost_ip` to the handlers that are
registered when the event is dispatched; `wifi_event_handler_` connects again.
`missed` remembers who was not there for the last `got_ip`. An initialisation that
fails under ERROR_CHECK is a `Restart`. Out of range and back in range (`Roam`) is
always possible, `LeaseLost` while the link is down.

### Auth: `auth_task_` and the tokens

Labels follow `auth_task_`, `auth_perform_refresh_`,
`auth_perform_interactive_register_` and `auth_perform_wait_for_token_`. The
access tokens are numbered in the order in which the server issues them and each
remembers its grant, the registration it belongs to; a refresh token is named by
its grant. `response_buffer_` is what the JSON parser would make of it: junk, an
error document, a device code, or a token. A call that fails may leave the
buffer as it was. `nvs_set_str` may fail; a crash may come between any two
steps, and keeps flash only. `owed` is a history variable: the requests nobody
has begun to serve.

### Poll: `poll_task_`, `app_poll_init`, the stored response

The main task is still inside `app_poll_init` while `poll_task_`, of higher
priority, handles the stored response. Both sides of flash can fail unnoticed: a
write (`Store`, `lossy`), and at the start the opening, the reading or the unpacking
of what is there (`ReadStored`, `unread`); the task goes on without. It registers
its two event handlers one after the other, and hears no event before that. Configurations are numbered versions with
two attributes: `complete` (light_config and poll_period are there: they are
dereferenced unchecked) and `long` (the period is at least ten minutes, so the
timer is restarted with it, if it is running). A panic restarts the device.
Each configuration has a time zone (`Offset`): `TimeZone` computes the two numbers
that `poll_set_timezone_` prints, with C's division, and `TzSet` reads them as the
C library does. For a positive offset that is not of whole hours
(`Misprinted`) the minutes are negative and the string is malformed: `XXX-05:-30`
for +05:30. `TzSet` then reads what newlib's scan into an unsigned short makes of
it, which is not the offset.

### Lights: `lights_task_` and `lights_update_config`

`poll_task_` writes `incoming_light_config` without a lock and `lights_task_`, of
lower priority, reads it at five places, each an action (`WaitForConfig`,
`TakeFirst`, `Compare`, `TakeArgument`, `Adopt`; where the compiler merges two
reads, the case in which nothing happens between them is the one that applies). The heap is a set of
addresses, reused after a free. When it is exhausted, the clone is NULL and the
pointer is overwritten with it; `Panic` is the dereference that follows.

A configuration is a sequence of luminaires over ports 0 to 63; nothing in the code
checks a port or that only one luminaire has it, and neither does the model. `Mask` is
what `1 << port` gives on this chip: the port modulo 32, and for 31 the sign bit,
which becomes all the bits from 31 up when the int is widened to the 64 bits of the
mask. gpio_config refuses pins that the ESP32-S2 does not have, or that are inputs
only, and ERROR_CHECK turns that into a restart (`Refused`, `Panic`). `outputs` are
the pins enabled, `high` the levels set, enabled or not; of several luminaires on
one port the last has the last word (`LastOnPort`). A schedule has an `intensity`,
which the code never reads; what was asked for (`Asked`, `Dark`) does. `drift`
remembers the pins that were reconfigured for another configuration than the one
then adopted, and forgets a pin when a reconfiguration next touches it.

Left out: ports above 63, of which the SDK's own shift is undefined; schedules
without a start or a stop, which are dereferenced unchecked; the glitch between two
luminaires of one port, since `Recompute` sets all levels in one step.

## 4. Runs

| Run | Module, cfg | Bounds | Distinct states |
|---|---|---|---|
| `http2` | `MCHttp2`, `Http2.cfg` | 3 tasks, 2 addresses, 2 performs per session | 17,542 |
| `http2_perform` | `MCHttp2Perform`, `Http2Perform.cfg` | 2 calls, bodies up to 3 chunks, buffers of 2 | 273,143 |
| `auth` | `MCAuth`, `Auth.cfg` | 3 tokens, 2 timer ticks, 1 crash, 1 network loss | 135,813 |
| `poll` | `MCPoll`, `Poll.cfg` | 3 configurations, 2 power losses, panics without limit | 257,788 |
| `lights` | `MCLights`, `Lights.cfg` | 3 addresses, 4 configurations, 3 moments of a day | 169,216 |
| `transfer` | `MCTransfer`, `Transfer.cfg` | 3 calls, payloads up to 3 bytes, 2 bytes per DATA frame and per chunk, 12 bytes written | 444,219 |
| `upload` | `MCMeasurements`, `Measurements.cfg` | bucket of 2, 4 intervals, 2 poll requests, 2 tokens | 1,376,820 |
| `boot` | `MCBoot`, `Boot.cfg` | 1 restart | 228,732 |
| `upload_payload` | `MCMeasurements`, `MeasurementsPayload.cfg` | the shipped bucket of 100 and buffer of 2048, nobody else polls | violated, see section 6 |
| `http2_perform_late`, `auth_refresh`, `poll_request` | `Http2PerformLate.cfg`, `AuthRefresh.cfg`, `PollRequest.cfg` | the bounds of the passing run | violated, see section 6 |

**http2.** Three tasks are the firmware's three callers, so this instance is the
real one as far as tasks go. Two addresses let a freed session's address be
reused or not. Two performs show that a session is used again; nothing depends
on their number, which the proofs confirm. The run checks:
`RxBufferExclusive` (at most one nghttp2 session, owned by the holder of the
mutex), `SessionsAccountedFor` (mutex and allocation go together, nothing
leaks), `ServedSessionAlive` (no use after free, and the owner is parked in that
very call), `OneReplyPerCall` (no lost and no stray notification),
`SendNeverBlocks` (the queue is never full when it matters), `EveryCallReturns`,
`MutexGivenBack`, and `ImplementsService`.

**http2_perform.** Two calls are what it takes for one call to disturb another:
two on one session, or one on each of two. Three chunks against a buffer of two
make a body that does not fit; bodies of 0, 1 and 2 chunks do fit, with and
without room to spare. The run shows that a gRPC call that reports OK has its
whole body in order (`GrpcOkIsWhole`: because the status is a trailer and gRPC
sessions make one call, not because the code checks) and finds it at the start of
its buffer. `FirstCallIsOwn` is what the caller of a session's first call finds when
it reads its buffer: a beginning of its own response, and behind it nothing newer
than the call before: one old byte if there was a body, all of an earlier response
if there was none. The buffers outlive sessions, so both are reached with two
calls. `ChunkStoredOnce` says that no chunk is stored twice and `PerformReturns`
that every perform ends.

**auth.** Three tokens allow a registration, a refresh and another registration,
which is the shortest history in which a pair of tokens can be mixed up and an
old one return. The run shows `CredentialsPaired` (the order of the two writes,
and giving up after a failure of the first, are what keeps the access token from
being older than the refresh token's registration), `AccessNeverGoesBack`,
`RequestsOnRecord` (a request is not forgotten when the other kind is served),
`RequestsServed` and `AttemptsEnd`.

**poll.** Three configurations let a complete one follow an incomplete one and a
short period a long one; their offsets are five and a
half hours east, three and a half west and one hour east. The run shows
`ConfigSurvivesRestart` (only a write of the latest answer that failed, or a read that
failed at this start, loses a configuration, and the next success makes it good),
`ZoneFollowsConfig` (local time is UTC plus the offset of the configuration in effect,
restarts included, if *and only if* the offset is not one of the misprinted ones),
`RequestsServed` (the timer makes up for requests that are cleared unserved) and
`ConfigConverges`.

**lights.** Three addresses hold one configuration in use, one handed over and
one lost, which also is where the heap ends. The four configurations share a pin,
drop a pin and use both polarities; one has two luminaires on one port, one a port
above 31, one the port 31 that is refused. Their photo periods end, run over midnight
(never active in this code), overlap, and have an intensity of zero. The run shows
`AdoptedAlive` (no use after free in spite of the unlocked pointer: only
`lights_task_` frees, and only what it has adopted), `OnlyDroppedLeak` (what poll
replaces too early is the only leak), `OutputsFollowConfig` and `HandedOverIsAdopted`.
`OutputsFollowConfig` has two halves. The enabled pins are the ports modulo 32 of the
adopted configuration, except on the pins in `drift`, where a race with `poll_task_`
has left them wrong until a reconfiguration touches them again. Every luminaire on a
real pin has the level that its schedules ask for, except exactly those for which
only periods of zero intensity are in progress: they are lit.

**transfer.** Three calls: one that leaves its DATA behind, one that fills it, one
after. Headers of two or three bytes against chunks of two are frames that fit one
chunk and frames that take two; payloads of up to three bytes against two per frame
are payloads that are cut. Twelve bytes are three calls with frames of two, or two
with longer ones. The run shows `WireIsExact` (as long as every frame fits a
chunk, what leaves is what nghttp2 packed, each byte once and in order, however
often a write is refused), `BodyIsOwn` (the DATA of a stream is its own call's
payload unless an earlier call was given up unsent, and never a byte twice) and
`RequestLeaves`. A frame longer than a chunk goes out with its first bytes
repeated; the model does so too, and `WireIsExact` promises nothing after it.

**upload.** Two samples are the smallest bucket with an order, four intervals fill
it twice, so a bucket can be lost and the next one arrive. Two poll requests tell
one response from the next, two tokens let auth_task renew one while calls are
made. The first four frames of `MCFrames` are a warm room, a cold one, saturated
air at zero and a temperature of -0.1; every single-bit error of each is tried. The
run shows `CallsKeepApart` (the server gets the request and token of the task that
holds the session, and a task gets its own answer, although buffers are shared and
never cleared), `UploadsAreTheSamples` (only genuine samples, each at most once, in
order, and every other sample is in the bucket or went with a failed upload),
`HeapBalanced` (after each of the failing allocations, the frees of the two functions
together release what was allocated and nothing else, and a call is made with the
whole request) and `UploadsEnd`.

**boot.** One restart at any moment, in boot or after it. The scripts have no
bounds to choose. The run shows `InitBeforeUse` and `LinkRegained`; the exception
in the latter (a listener that registered after `got_ip` waits for the next
connection) is reachable: `auth_task_` or `poll_task_` can be that late.

Deadlock is checked in every run; none of the models can stop.

### Fairness

* A task that is ready is scheduled: weak fairness on each task's steps
  (`http2_task_` and each caller in `Http2`, the loop in `Http2Perform`,
  `auth_task_`, `poll_task_`, `lights_task_`, `wifi_task_`, main, the event loop, the
  callers in `Measurements`). Priorities are not modelled: the
  high-priority tasks block for most of their time. Nothing makes a task begin a
  new acquisition, and `CallAcquire` has no fairness.
* `http2_task_` finishes what it serves. For a perform this is what
  `Http2Perform` shows (`PerformReturns`, from the clock going on: weak fairness
  on `Elapse`). For a connect it is an assumption: TCP and TLS give up in the
  end. The loop at line 357 has no deadline of its own.
* The session's mutex goes to its waiters by priority and in their order, and nobody
  holds it without end: strong fairness on the measurer's `Acquire`. `auth_task_`
  releases what it holds; nothing makes it, or poll_task, begin.
* A socket that is offered a write again and again has room in the end: strong
  fairness on `Write` in `Transfer`, whose loop is otherwise weakly fair.
* An access point that is in reach accepts one of the attempts: strong fairness on
  `Associate` in `Boot`.
* A device code expires (`Expire` in `Auth`), because the clock goes on.
* A periodic timer that runs keeps firing (`TimerCallback` in `Poll`).
* A server that is polled again and again answers in the end: strong fairness on
  `PollAnswered`, used by `ConfigConverges` only in so far as a server that never
  answers teaches the device nothing.
* Connectivity is nobody's duty: the properties that need it say
  `<>[]("connected" \in bits)`.

## 5. Proofs

TLC checks the small instances of section 4. The theorems here hold for every
value of the constants that satisfies the named assumptions of the modules, and
TLAPS checks them to the last leaf. Every invariant follows the same scheme: an
inductive invariant `IInv` (`Started` in `Boot_proofs`) with `Init => IInv` and
`IInv /\ [Next]_vars => IInv'`, one lemma per action or group of actions
(`...Keeps`), then `Invariance == Spec => []IInv`, and each property from it. TLC
has checked each `IInv` as an invariant at the bounds of the module's run. The
theorems are about `Spec`, so they need no fairness.

| Module | Theorem | States |
|---|---|---|
| `Http2_proofs` | `TypeCorrect` | `Spec => []TypeOK` |
| | `RxBufferNeverShared` | `Spec => []RxBufferExclusive` |
| | `NoSessionLost` | `Spec => []SessionsAccountedFor` |
| | `NoUseAfterRelease` | `Spec => []ServedSessionAlive` |
| | `OneReply` | `Spec => []OneReplyPerCall` |
| | `SendersFindRoom` | `Spec => []SendNeverBlocks` |
| | `Refinement` | `Spec => ImplementsService` |
| `Http2Perform_proofs` | `TypeCorrect` | `Spec => []TypeOK` |
| | `OkMeansWhole` | `Spec => []GrpcOkIsWhole` |
| | `FirstCallStaysOwn` | `Spec => []FirstCallIsOwn` |
| | `ChunksStoredOnce` | `Spec => []ChunkStoredOnce` |
| `Transfer_proofs` | `WireStaysExact` | `Spec => []WireIsExact` |
| | `BodyStaysOwn` | `Spec => []BodyIsOwn` |
| `Auth_proofs` | `TypeCorrect` | `Spec => []TypeOK` |
| | `CredentialsStayPaired` | `Spec => []CredentialsPaired` |
| | `RequestsStayOnRecord` | `Spec => []RequestsOnRecord` |
| | `AccessOnlyNewer` | `Spec => AccessNeverGoesBack`, an action property |
| `Poll_proofs` | `TypeCorrect` | `Spec => []TypeOK` |
| | `ConfigSurvives` | `Spec => []ConfigSurvivesRestart` |
| | `ZoneFollows` | `Spec => []ZoneFollowsConfig` |
| | `ZoneRoundTrip` | `TzSet(TimeZone(m)) = m` for offsets that are negative or of whole hours |
| | `ZoneMisread` | `TzSet(TimeZone(m)) # m` for all others |
| `Measurements_proofs` | `TypeCorrect` | `Spec => []TypeOK` |
| | `CallsNeverMix` | `Spec => []CallsKeepApart` |
| | `HeapStaysBalanced` | `Spec => []HeapBalanced` |
| | `SamplesOnceInOrder` | `Spec => []OnceInOrder` |
| | `UploadsGenuine` | `ChecksumSuffices` implies `Spec => []UploadsAreTheSamples` |
| `Lights_proofs` | `TypeCorrect` | `Spec => []TypeOK` |
| | `AdoptedNeverFreed` | `Spec => []AdoptedAlive` |
| | `NothingElseLeaks` | `Spec => []OnlyDroppedLeak` |
| | `PinsFollow` | `Spec => []OutputsFollowConfig` |
| `Boot_proofs` | `InitFirst` | `Spec => []InitBeforeUse` |

### Http2_proofs

For every set of tasks, every non-empty set of addresses and every bound on
performs (`SessionsAssumption`, `MaxPerformsAssumption`, and `NoneAssumption`: NULL
is not a task, an address, a result or an event). None of the invariants is
inductive alone. `IInv` is their common strengthening:

* *Ownership*: a task is between taking and giving the mutex if and only if it
  holds it.
* *Handles*: which labels have a session pointer, and that exactly the pointed-to
  session is allocated, with an nghttp2 side from the end of `ng` on.
* *Secured*: a task may perform only on a connected session, and sessions that
  are not allocated have no connection.
* *InCalls*: a task has a call recorded exactly while it is inside one.
* *Pipeline*: queue, `http2_task_` and notifications together hold one item if
  the owner is in a call and none otherwise, and it is the owner's.
* *ResultSound*: a result "ok" that is on its way means a connected session.

The argument is that there is one owner (`OwnerAlone`), so the queue never holds
more than one event, so the event, or the reply, is the owner's, so the session
it names is the owner's and alive. `Refinement` uses `IInv` to map each action to
a step of `SessionService` or a stutter (`StageMoves` and `StagesStay` say how
labels and stages correspond).

### Http2Perform_proofs

For any number of calls and sessions, bodies and buffers of any length. The
callbacks do not look at the stream, so the properties hold for other reasons,
and these are `IInv`:

* *Counted*: calls are numbered as they are made, a gRPC call is the only one of
  its session, and only what was submitted is on its way.
* *Alone*: during the first call of a session no other stream exists.
* *Streams*: a stream brings chunks in rising order, its status before or behind
  all of them, its end last.
* *Stored*: a chunk in a buffer is not in any stream any more, no buffer holds a
  chunk twice and no two buffers hold the same.
* *First*: what is stored of a first call is a beginning of its body, its stream
  continues exactly there, and once a gRPC status is set all of it is stored.
* *Buffers*: what a call has stored is at the start of its static buffer, with a
  zero two places behind it if there is room, and the rest is of older calls.

`ResponseShape` establishes the shape when the request leaves (`CutIs` for a
response that breaks off), `TailShape` and `TailFollows` keep it as frames arrive, and
`PutIs` says what one write does to a buffer.

### Transfer_proofs

For any payloads, header lengths, chunk and frame sizes, and any calls given up.
`WireIsExact` needs *Whole* (as long as no frame was longer than a chunk, the
cursor of `http2_tls_send_` is 0 whenever nghttp2 hands a frame over, so every
write starts at its first byte). `BodyIsOwn` needs *Queue* (a DATA frame that
waits is the current call's only one, or its call was given up), *Cursor* (the
payload's cursor is past 0 only if the call itself or a stream given up has read
from it) and *Read* (nothing behind the cursor has been sent).

### Auth_proofs

For any number of tokens, ticks, power losses and network losses. Nothing clears
`response_buffer_`, so a refresh may store what a call long past has left. *Issued*
ties tokens to the registrations they belong to, *Buffered* says that the token
in the buffer, stale or not, is no older than the ones in flash, *Storing* that
nothing is called between the parser and the writes. `AccessNeverGoesBack`
follows from *Buffered* and *Storing*. For requests, *TakenUp* says that an
attempt under way has already been taken off what is owed.

### Poll_proofs

For any configurations, any offsets from -12:00 to +14:00, any restarts. *Responded*
and *Newer* follow the response from the call to its handler (never older than
what was applied), *Kept* says that flash has caught up before the handler runs,
unless the latest write failed. `ZoneRoundTrip` and `ZoneMisread` are arithmetic on C's
division; together they are the two directions of `ZoneFollows`.

### Measurements_proofs

For a bucket of any size and any climate, and for every number of tokens from 1
on (flash may hold one from the start). The first half is about `Api`, for messages
from any set: *Owned* (one task is in the session, its holder), *Places* (the caller's label and the session's
stage agree), *Prepared* (token, payload and response buffer hold the owner's
data from the step that fills them to the step that uses them), *Exchanged* and
*Replied*. The argument is that a static buffer is only read and written by the
holder of the mutex, or by `http2_task_` while that holder waits; the labels say so,
no lock of its own does. `Session` is instantiated, so `Http2_proofs!Refinement`
is what this rests on.

The second half adds *Bucket* (samples are in order of time), *Blocks* (what is
allocated at each label, of the measurement that is being built and of those that
are done; `BuildKeeps` and `UndoKeeps` follow it through the allocations and the
cleanup labels), *Calling* (the request of the call is the bucket) and
*Uploaded*: before the request has left, everything the server has is older than
the bucket; if the call succeeds the server has all of it; if it fails the server
may have it, and the bucket is emptied all the same, so nothing is sent twice.

`UploadsGenuine` has a hypothesis. `ChecksumSuffices` says that no reading that
`Accepted` lets through decodes to something other than what was measured.
`Crc16` is a recursive function over bytes and bits, and what it computes for
every frame needs induction over data, which is not available to these provers.
The hypothesis is about constants only; it holds for the frames of the `upload`
run, where all single-bit errors are tried (otherwise the run would find a sample
that is not genuine). `SamplesOnceInOrder`, the part of the property that is not
about the bytes, needs no hypothesis.

### Lights_proofs

For any heap and any configurations over ports 0 to 63, several luminaires on a port
included. `incoming_light_config` has no lock. *Pointers* is what replaces it: what was
handed over is allocated, what is adopted is allocated, and where `lights_task_` is
about to free the old configuration, the two differ. *NewConfig* follows the second
read of the pointer (lines 139 and 141), which may return another value than the
first. *EnabledPins* says that outputs and configuration differ on `drift` and nowhere
else, from the reconfiguration to the next sleep: each reconfiguration removes what it
touches, each adoption of something else adds where the two configurations differ.
*Levels* follows the pins' levels. `MaskAccepted` says that what gpio_config accepts
are single pins below 31, and `MasksApart` that two masks are equal or disjoint.

### Boot_proofs

For any number of restarts. *Started* says that a task has moved only if `app_main`
has created it. `NeededIsCreated` is a fact about `BootSequence` and the scripts:
at the place where each task is created, everything its script uses is too.

### Model-checked only

* Liveness under fairness: `EveryCallReturns`, `MutexGivenBack`, `PerformReturns`,
  `RequestLeaves`, `RequestsServed` (of Auth and of Poll), `AttemptsEnd`,
  `ConfigConverges`, `HandedOverIsAdopted`, `UploadsEnd`, `LinkRegained`. The provers
  do not reason about ENABLED, which weak fairness is made of.
* What `Crc16` computes for every frame (see `ChecksumSuffices`).
* The runs of section 6 that end in a violation: a behaviour, not a theorem.

## 6. Where the code and its comments disagree

Four runs end in a violation:

* **`http2_perform_late`**: `http2.c:30` calls the timeout "a hard limit on rx/tx
  duration". When it strikes, the stream is neither reset nor detached. TLC's
  trace: the first call of an HTTP session times out, the second starts, and the
  first response's data is stored in the second call's buffer. `auth_task_`
  performs again and again on one session while it waits for the user.
* **`auth_refresh`**: `auth.c:288` gives up on a refresh exactly when the status
  is 200, and parses and stores the response otherwise. In the trace the server
  has issued a new token, it is in the buffer, and the attempt has failed.
* **`poll_request`**: `poll.c:31` says of the bit "a Poll was requested". A
  request that comes after the server's answer, while the response is being
  stored or handled, is cleared with the finished one. `RequestsServed` holds all
  the same because the timer is periodic; the request waits for its next period.
* **`upload_payload`**: `api/ganymede/v2/Kconfig:25` calls
  `GRPC_PAYLOAD_BUFFER_LEN` the "length of buffer for payload sent to Ganymede
  server", 2048 by default, and `app/Kconfig:4` collects 100 measurements per
  upload. `api.c:42` packs the request without a look at that length. With a device
  id set and a clock after 1978 a measurement takes 60 bytes, or 5 less for each
  value that is exactly zero; up to 34 fit. The state constraint
  (`EverySampleTaken`) only drops behaviours in which a read fails. What happens
  to the memory behind the buffer is outside the model.

Others are stated by properties of passing runs, which say exactly where the code
does what it should and where it does not:

* `poll.c:65` says "UTC - offset = local"; `device.proto:69` calls the field the
  "offset from UTC". The code follows the latter: it inverts the sign for the C
  library, so that local time is UTC + offset. What the comment says of the GNU
  convention is right. `ZoneFollowsConfig`, `ZoneRoundTrip`.
* For positive offsets that are not of whole hours (+05:30) the string that
  `poll.c:72` prints is no POSIX time zone, and local time is wrong.
  `ZoneFollowsConfig`, `ZoneMisread`.
* `device.proto:140`: "any non-zero value will be interpreted as 'fully-on'", so a
  zero is not. `lights.c:43` never reads the intensity: a period of zero intensity
  lights the lamp. `OutputsFollowConfig` (`Dark`).
* Ports above 31 have their level set on their own pin, but the pin enabled as an
  output is the port modulo 32 (`lights.c:53`, `lights.c:73`): a lamp on pin 33 does
  not light, and pin 1 becomes an output. `OutputsFollowConfig`.
* A call that ends without a body leaves the caller with an earlier response:
  `auth.c:234` and `auth.c:298` parse whatever `response_buffer_` holds, and
  `http2.c:254` ends a shorter response one byte late. `FirstCallIsOwn` bounds this.

## 7. What is not modelled, and why

* `auth_get_token`, a read of flash with no effect on state, is a condition of
  `CopyToken`.
* identity's get and set are one `strncpy` under a mutex that nobody holds
  while waiting for anything else, so they are atomic: setting the id is part of
  `Handle` in `Poll`.
* The handshake loop (`http2.c:357`) is one step, and that it ends an assumption.
* Bytes: the digits of the MAC address, the layout of a gRPC prefix and of protobuf
  messages (only the length of an upload, `PackedLength`), floats. So the 512 bytes of
  `lights.c:161` and the 2048 of `poll.c`, which are packed into like those of
  `api.c:42`, have no property.
* The clock before SNTP has set it: `Measurements` starts with a set clock.
* Parsing of console lines; report_memory.
* nghttp2, esp_tls, esp_wifi, esp_event, cJSON, protobuf-c and NVS are external:
  what they do is taken from how the code uses them (entries marked external in
  `PROJECT.json`). Nothing in the repository calls `nvs_commit`: the models take an
  `nvs_set_*` that returns ESP_OK to be durable, and one that a power loss interrupts
  to leave the old value, which is an assumption about NVS.
* `esp_sntp_init` (`main.c:102`) needs the `esp_netif_init` that `wifi_task_` runs. That
  it has run by then rests on `wifi_task_` being created first, with a higher priority
  than `app_main`; `Boot` has no priorities and leaves this dependency out.
* `Auth` and `Boot` merge the two handler registrations of a task, which `Poll` keeps
  apart. What the two steps add is a disconnection that falls between them: the
  connected bit stays set. In `Auth` calls then fail, which each of them may do
  anyway; in `Boot` the next `got_ip` sets the same bit.
* What a passing property does not say: `WireIsExact` nothing about frames longer
  than a chunk (`http2.c:159`), `BodyIsOwn` nothing about what is cut off
  (`http2.c:232`), `ConfigConverges` nothing about a device that panics from flash at
  every start (`poll.c:168`), `LinkRegained` nothing about a listener that missed
  `got_ip` (`poll.c:228`), `UploadsAreTheSamples` nothing about a name read outside
  its table (`api.c:131`). These are behaviours of the models; the hazards are listed
  without a property.
* Stack depths, log output, certificates, build files, generated code, protobuf
  schemas.
