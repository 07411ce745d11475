# WABridge in TLA+

WABridge connects an Android phone and a Windows computer over the local network: TLS 1.3 with
pinned certificates, one session at a time, and features (clipboard, files, audio, input, display)
as frames on channels of that session. These modules model the life of a session on both platforms,
what travels in it frame by frame, and the Windows window with the capture, renderer, advertiser and
identity around it, and state what must be true of them. TLC checks the properties on small
instances; TLAPS proves nearly all of the safety properties for every value of the constants.

Paths below are relative to the repository; `A/` is
`android/app/src/main/java/com/wabridge/android/` and `W/` is `windows/src/`.

## 1. The system

### Components, their state and their operations

| component | code | state | operations |
|---|---|---|---|
| Coordinator | `W/wabridge_coordinator.cpp` | `running_`, `listener_`, `thread_` | start, stop (close the listener, join), accept loop |
| SecureCoordinator | `W/wabridge_secure_coordinator.cpp` | `active_peer_`, `active_session_id_`, dispatcher, `session_mutex_` | start, stop, send, handle_socket (handshake, publish, run, clear) |
| SessionPeer | `W/wabridge_session_peer.cpp` | `established_`, `write_mutex_` | establish, send, run, stop |
| tls::Stream | `W/wabridge_tls_stream.cpp` | the SSL object, `closed_` | handshake, read, write, close, destructor |
| session state machine | `W/wabridge_session.cpp`, `A/session/SessionState.kt` | state, stopped | apply, stop |
| SessionManager | `A/session/SessionManager.kt` | machine, stopped flag, lock | apply, stop, observer |
| SessionRuntime | `A/session/SessionRuntime.kt` | UI state, pairing prompt | update, requirePairing, clearPairing, reset |
| WABridgeSessionService | `A/session/WABridgeSessionService.kt` | destroyed, connect and receive jobs, client, pending peer, discovery | start (browse, manual, QR), approve, stop, onDestroy; connectTo, receive loop, fail |
| TlsSessionClient | `A/session/TlsSessionClient.kt` | socket and streams, stopped flag, monitor | connect, sendEnvelope, readEnvelope, stop |
| NsdDiscovery | `A/discovery/NsdDiscovery.kt` | listener, stopped flag | startBrowsing, resolve, stop; callbacks on the NSD thread |
| AndroidIdentityStore, PinnedTls | `A/pairing/` | remembered fingerprints, key | rememberPeer, peerFingerprint, the trust decision |
| Windows window, mDNS advertiser, QR | `W/wabridge_qt_main.cpp` | coordinator, renderer, capture, pairing data | start, stop, phone control, announcements |
| Windows identity, pairing, discovery cache | `W/wabridge_identity.cpp`, `_pairing.cpp`, `_discovery_cache.cpp` | two files; one record; record cache | load or create; remember, revoke, evaluate; apply, expire, ready |
| audio | `W/wabridge_wasapi_audio.cpp`, `A/audio/` | render buffer; capture thread; track | start, render, stop; capture, play |
| input | `W/wabridge_input_capture.cpp`, `A/input/` | hooks and their thread; accessibility service | start, stop, emit; dispatch |
| clipboard, files, display | `W/`, `A/` files of these names | loop guard; the rest is stateless | codecs |
| envelope, messages, endpoint, QR text | codecs in C++, Kotlin and Python | receiver's seen request ids | encode, decode |

### How they interact

The window's thread starts and stops `SecureCoordinator`. `Coordinator`'s accept thread calls
`handle_socket` for each connection and stays in it until that session is over, so the thread that
accepts is also the thread that reads. The input hook thread sends through
`SecureCoordinator::send`. `active_peer_` is shared under `session_mutex_`, but the objects behind
it are used outside that lock; `write_mutex_` orders writers and `SessionPeer::stop`.

On Android intents arrive on the main thread, where the `connectTo` coroutine also runs between its
suspensions; `TlsSessionClient.connect` and the receive loop run on I/O threads; `NsdDiscovery`
calls back on a thread of its own. They share the service's fields without a lock. The state
machine alone has one (`SessionManager`).

### What is hard

* Windows `stop` races with every stage of a session that comes up, runs or ends, and waits for a
  thread that may be in a blocking read.
* A stream belongs to the accept thread and is used by two others.
* Android attempts can overlap (the check of `connectJob` and its assignment are not one step), be
  cancelled while they block, and end after the service stopped.
* Pairing needs the user: what is shown, what is pending, what the machine waits for and which
  connection is current are four pieces of state that several threads set.
* Time-outs exist only in `connect` (5 s to connect, 5 s for the hello); reads in a session have
  none on either side.

`PROJECT.json` lists the hazards at their lines, each with the properties about it, or with the
reason why there is none yet.

## 2. Modules

| module | what it is |
|---|---|
| `SessionSlot` | abstract: a host that is on or off with one session slot |
| `SecureCoordinator` | Windows: coordinator, active session, peer, stream, with its threads and locks; implements `SessionSlot` |
| `SessionMachine` | the state machine of both platforms as operators on a record |
| `SessionManager` | the machine behind its lock, with callers that wait |
| `SessionService` | Android: service, runtime, discovery, client, identity and pinning |
| `Wire` | envelopes, limits, request ids and the payload formats, as operators |
| `FeatureSession` | one session frame by frame: Windows' receive loop, router, dispatcher and hook thread, the phone's receive loop and injection; uses `Wire` |
| `InputCapture` | Windows' hook threads, the global `g_capture` and `LowLevelCapture` |
| `WasapiRenderer` | Windows' audio renderer and its buffer |
| `CoordinatorWindow` | the Qt window that starts and stops coordinator, advertiser, capture and renderer; composes the two modules above |
| `IdentityStore` | the identity files, processes that load or create them, and the TLS context made of them |
| `DiscoveryCache` | the cache of mDNS records |
| `MC...` | the specifications with their symmetry and values, for TLC |
| `...Proofs` | theorems and proofs about the module in the name |

`SecureCoordinator`, `FeatureSession` and `CoordinatorWindow` look at the same Windows process from
three sides. The first has many connections and the life of their objects, and a frame is one of
three outcomes. The second has one connection and its frames; that a stop finds only an established
peer, and that one `SSL_write` at a time reaches the stream, it takes from the first. The third has
the window's calls in their order; of the coordinator it keeps the port and whether its thread is
in a handler.

### SecureCoordinator

A connection is an accepted socket with its `Stream` and its `SessionPeer`; a connection is used
once. `accPc`, `ctlPc` and `sendPc` say where the accept thread, the thread that stops, and each
sender are. A critical section of straight-line code is one action (`Publish`, `Clear`,
`StopBegin`, `SendCopy`). `write_mutex_` is held over a blocking `SSL_write`, so it is visible:
`Locked(c)` is derived from who is in a write, and `PeerStop`, `AckLock` and `SendLock` wait for it.

A frame that was read has three outcomes that matter to the session: answer a heartbeat (`"ack"`),
go on, or end it (SessionClose, no handler, or a handler that returns false). What the handler did
is not modelled.

`Stream::close` frees the SSL object and leaves the socket alone (`BIO_NOCLOSE`). A thread that is
inside a TLS call on a freed object may come back with an error (`ReadAfterFree`, `SendAfterFree`),
stay there, or bring the process down (`Crash`); all three are in the model.

`Start` is not enabled while `running`: the second call returns false and changes nothing. A failing
listen changes nothing either and is not an action.

### SessionMachine and SessionManager

`Target`, `Accepts` and `Apply` are the transition table, what `apply` returns and what it leaves.
In `SessionManager` a caller first decides on its call (`CallApply`, `CallStop`) and later enters the
lock. Inside it `apply` looks at the flag (`EnterApply`) and then applies and reports
(`ApplyAdmitted`): `stop` wins its compare-and-set outside the lock, so it may win between the two,
and an event that was let past still moves the machine. `StopHolds` therefore speaks of the moment
when the winning `stop` has left the lock (`EnterStop`). Any thread may ask for any event at any time,
which is more than the service does.

### SessionService

An attempt is one `connectTo` coroutine with its client; the constant `Attempt` bounds how many there
are. An attempt goes `posted` (launched from the NSD thread, not yet run), `dispatched` (waiting for
an I/O thread), `dialing` (TCP and TLS), `greeting` (hello), then `ready` or `broken` (waiting to
resume on the main thread), `done`. `client`, `connectJob`, `receiveJob`, `pendingPeer` and
`destroyed` are the service's fields; `prompt` and `session.ui` are what `SessionRuntime` shows.

Steps of the main thread are whole handlers, or coroutine stretches between two suspensions. The NSD
thread is cut at each access to shared state (`NsdResolves`, `NsdApplies`, `NsdChecksAgain`,
`NsdLaunches`, `NsdAssigns`), and so is `fail` on a thread other than the main one.

An approval is two steps, the tap on the prompt (`TapApprove`) and the intent's arrival
(`ApprovePairing`). Intents arrive in order: `InOrder` lets no later intent overtake the approval.
The main thread is otherwise free to run between the two, for example a coroutine that replaces
the prompt.

Abstractions: an advertisement always names a device; the fingerprint is a record of what is
digested and whose it is, which is all that equality needs; the service lives once, from `onCreate`
to past `onDestroy`; a `begin` after `stopSession` is refused by `destroyed`, as in the code. Main
thread handlers are atomic with respect to the NSD thread except through that thread's own steps:
the main thread's pairs of reads and writes are not split. `After` is `SessionManager.apply` in one step:
with `stopSession` a single step too, an event that was let past the flag just before it is one that
came before it. Of audio capture only its failures are in the model (`CaptureFails`, a `fail` under a
receive loop that goes on); the capture itself is left out, which is why the component is "partly"
modelled.

### Wire and FeatureSession

A message is a record with a `form`; texts, data and digests are what the codecs look at, a length
and a class of characters. `PayloadSize` is what an encoder writes, `Readable` what a decoder
accepts, with one operator per C++ codec; numbers are the code's. `Envelope`, `Sendable`,
`HeaderAccepted` and `Decodable` are the envelope codec and the part of `Stream::read` that looks at
a header before it allocates.

Frames stay in the sequences `sent` (by the phone) and `down` (by Windows), `taken` and `downTaken`
say how far the other side has read. The accept thread goes `greet`, `header`, `body`, `handle`, and
`done`; `EndSession` is the exit of `establish` and `run` and the `stop` after them. The hook thread
is one action, `Capture`: the callback's look at the counter, the encoding and the send are on one
thread. `PhoneSend` cannot run while the phone's loop is in `readEnvelope`, which keeps the monitor.
`Perform` and `PerformFails` are the phone's main thread, which may run after its caller has given
up (`LoopFails`). `PeerWrites` lets any authenticated program write any frame; heartbeats are among
them, since the app itself sends none.

A connection takes `MaxUnread` frames that the phone has not read. A write that finds no room waits,
without a time limit (`RoomToAnswer`): so does the hook thread in `Capture`, and the accept thread
with a heartbeat to answer. The writer that waits keeps `write_mutex_`, and a `stop` would wait
behind it; here such a writer has not begun yet, and what the lock means for others is
`SecureCoordinator`'s matter.

### InputCapture, WasapiRenderer and CoordinatorWindow

`InputCapture` cuts `hook_thread` at each access to what it shares: publish `g_capture`, set the
hooks, signal, check, loop, and clear; the two waits of two seconds end when the thread is ready or
has ended, or at any time before. A `WM_QUIT` posted to a thread that has called nothing of USER is
lost. A thread handle is the thread; each start takes a fresh one.

`WasapiRenderer` starts in the format of the first frame, writes as much of a frame as fits, and
fails on a full buffer or another format, which stops it.

`CoordinatorWindow` has one action for each call of `start_coordinator`, `toggle_phone_control` and
`stop_coordinator` that another thread can come between; the destructor is a stop with `closing`
set. `known` is what the network remembers of the advertised port. `gaveUp`, `unhooked` and `late`
are history: a stop that did not see its thread end, hooks that were refused, a renderer that was
started after this stop had stopped it. Properties that the code has only without such an accident
say so with them. While the main thread is inside a call it runs no other handler, so what is
between `idle` and `idle` is one user's action.

### IdentityStore and DiscoveryCache

An identity is a number; a file holds one, or is absent, or `Broken` (empty or cut short). Two
streams are opened, which truncates; they reach the disk in any order before `load_or_create`
returns, and not at all if the write fails, which nobody looks at. `disturbed` is history: a
creation failed, was killed, or overlapped with another process's. `MakeContext` compares
certificate and key, as `Context::server` does.

`DiscoveryCache` is every operation of the cache on a clock of its own, with the history of what was
heard. The cache has no caller in the program, so records come in any order and with any lifetime.

## 3. Runs

Deadlock is checked for `SecureCoordinator` and `SessionManager`, which never stop for good (a dead
process stutters in `Dead`). The service's attempts are used up and its life ends, so its runs say
`CHECK_DEADLOCK FALSE`; so do those of a session that is over (`FrameSafety`) and of a window that is
gone (`WindowSafety`).

| run | instance | checks |
|---|---|---|
| `CoordSafety` | 3 connections, 2 senders, `HangUpSpec` | types; `OneSession`, `WriteHoldsSession`, `OneWriter`, `StopReleasesAll`; `SessionHandover`; `ImplementsSlot`; `StopReturns`, `QueueMoves` |
| `ManagerSafety` | 3 threads | types; `ObserverInSync`, `StopHolds` |
| `ServiceSafety` | 2 devices, 2 attempts | types; `PromptIsPending`, `EstablishedIsTrusted`, `OneReceiver`, `StoppedAtRest`; `UnaskedIsKnown`, `NoDialAfterDestroy` |
| `ServiceLive` | 1 device, 2 attempts, `FairSpec` | `AttemptsEnd` |
| `FrameSafety` | 3 frames from the phone, 1 ahead of the reader, 2 to the phone, 2 events, ids modulo 2, every format and every kind of bad frame | types; `HandledAsSent`, `OwnFramesKeepSession`, `EventsAreSent`, `AcksMatch`, `GesturesFollowEvents`; `HeartbeatAnswered` |
| `WindowSafety` | 2 captures, 2 hook threads, 1 port, a buffer of 1 | types; `StartedIsHooked`, `DestroyedIsUnreferenced`, `AdvertisedIsListening`, `RendererRests` |
| `IdentitySafety` | 2 processes, 3 identities | types; `ServesMatchedPair`, `ServedIsStored`, `GeneratedOnce`; `StuckStays` |
| `CacheSafety` | 2 instances, 2 hosts, 2 addresses, room for 1 entry and 1 address, a clock of 2 instants | types; `ReadyWasAnnounced`; `ExpireIsInvisible` |
| `CoordStopHangs` | 2 connections, 1 sender, `ThreadSpec` | `StopCancelsRead`, violated |
| `ServiceUnapproved` | 2 devices, 2 attempts | `ReceivesFromApproved`, violated |
| `ServiceWrongTap` | 2 devices, 2 attempts | `TrustsWhatWasTapped`, violated |
| `ServiceManualPairing` | 1 device, 1 attempt | `PromptCanBeApproved`, violated |

**Bounds.** A connection is in service, one waits in the backlog (the code's limit is one) and a
third is over: three connections show every relation between sessions, and stop and start repeat
without bound. Two senders are the least that can contend with each other; with the accept thread's
heartbeat answer that makes three writers. One receive loop, one pending prompt and one current
client exist, so two attempts for two devices are what an overwritten field needs.

In `FrameSafety` three frames are a hello, the frame in question and one behind it, and a frame ahead
of the reader lets it be written while another is handled. With room for two frames to the phone an
event and an answer contend for the last place. The values are those at which the code's
tests turn: the largest data an envelope has room for and what the codecs allow beyond it, names with
separators and dots, wrong lengths, ids, magic, kinds and channels. Ids modulo 2 wrap with the second
event. In `WindowSafety` two threads and two captures are an old one and its successor, each of the
waits can end either way, a port is used or not, and a buffer of one frame is empty or full; frames of
no samples and of two try both ends. Two processes overlap in `IdentitySafety`, and a third identity
is one more than the two that overlapping creations can leave. In `CacheSafety` the second instance
and the second address do not fit, and the lifetimes are zero and beyond the limit.

The proofs remove these bounds for every safety property that holds.

**Fairness of the coordinator.** Threads that can run do (weak fairness of each thread's steps). A
thread that waits for `write_mutex_` gets it if it is free again and again (strong fairness): the
sender that holds it always lets it go between two writes. A blocked TLS call returns once the
remote has gone, nothing else makes it return. `ThreadSpec` is just that, and under it `stop` may
never come back. `HangUpSpec` adds an assumption about the environment, that a remote which is being
served hangs up in the end. The code does not ensure it; it is what `stop` and the queue depend on,
and the two runs together say so. A client that stalls in its handshake and never hangs up is thus
assumed away: it keeps every other waiting for ever, and `QueueMoves` says nothing of it. The phone does keep a session open for as long as its user does.

**Fairness of the service.** The main looper runs coroutines that can resume, an I/O thread enters
`connect`, and the two 5 second timeouts end its waits. Nothing is assumed of the remote, of the
NSD thread or of the user.

**Fairness of a session.** The accept thread runs whenever it can (`WF_vars(Serve)`), and its turn to
write comes if there is room again and again (`SF_vars(AnswerHeartbeat)`), as for `write_mutex_` above.
A program at the other end that is in its receive loop goes on or gives up (`WF_vars(Receive)`): it
reads what has come, and each event is answered or its second is over. Nothing is assumed of one that
is not in the loop, or no more (`deaf`): a heartbeat it has sent may wait for ever, with the accept
thread in `SSL_write`, and `HeartbeatAnswered` leaves it out. Nothing is assumed of the hook thread
or the window either.

### What the violated properties say

* `CoordStopHangs`: the accept thread reads in an established session; `stop` frees that session's TLS
  object and not its socket, so the thread stays in its read and `stop`, on the window's thread, waits
  for it in `join`. `shared/protocol/protocol.md:58` has stop cancel pending I/O in every state. A
  `stop` that finds no session yet waits in the same `join`, for a handshake or a hello that stalls.
* `ServiceUnapproved`: a prompt for A is up, discovery resolves B and a second attempt sets `client`
  before A is approved; the approval trusts A and reads from B. `AloneReceivesFromApproved` proves the
  converse: as long as no attempt begins beside another or beside a prompt, the promise holds.
* `ServiceWrongTap`: a prompt for A is up and the user approves it; before the intent arrives a second
  attempt puts B into the prompt, and the approval trusts B. `WABridgeSessionService.kt:40` has no
  identity trusted until the user explicitly approves it. `AloneTrustsWhatWasTapped` proves that one
  attempt at a time is enough.
* `ServiceManualPairing`: a manual or QR start never applies `CANDIDATE_FOUND`; the machine stays in
  `DISCOVERING`, so the prompt that appears cannot be approved. `NoPairingWithoutCandidate` proves it for
  every behaviour in which no discovered service is applied: nobody ever becomes known.

## 4. What the code does besides

Met while modelling. The models have these behaviours unless it says otherwise. No run shows them as
violations: most contradict nothing the repository says, and where one does the line is quoted.

Sessions and pairing
* Between the copy of `active_peer_` in a Windows stop or send and its use the session can end and
  its `Stream`, a local of `handle_socket`, be destroyed (`Crash` in `SecureCoordinator`).
* A stop before `connect` has assigned its socket closes nothing, and the connection stays open.
* The QR code carries the digest of the certificate (`wabridge_tls.cpp:168`), Android compares it with
  the digest of the public key (`PinnedTls.kt:63`), so a scan never matches.
  `docs/CONNECTIVITY_DIAGNOSTICS_DESIGN.md:19`: "The payload contains an endpoint and the Windows
  certificate public-key fingerprint so Android can connect to the intended device and reject a
  certificate mismatch."
* Android never applies `CLOSED`, so a stopped session remains in `CLOSING` (`protocol.md:52-56` has it
  go back to Idle); a `fail` that passed its look at `destroyed` before a stop shows FAILED after it.
* Windows accepts any client certificate; the pairing store and the loop guards have no callers.
* `wabridge_qt_main.cpp:66` makes `device_id_` safe for DNS in place, so the advertised id and the one
  in the hello differ for a name with, say, an underscore, and `WABridgeSessionService.kt:153` refuses
  such an endpoint. (Not modelled.)
* A computer name that is not ASCII passes the check at start, but its own encoder refuses it: every
  session ends in `establish` (`GreetFails`).

Frames
* One frame that is not understood, or an audio frame that finds the render buffer full, ends the
  session (`RefuseFrame`). `README.md:17`: "No feature is considered complete until its start/stop path
  is idempotent and its failure is isolated from the authenticated control session."
* Windows looks neither at flags nor at whether a request id was seen before.
  `shared/protocol/protocol.md:22`: "A receiver must reject a bad magic value, unsupported version,
  unknown channel, invalid flags, zero or excessive length, duplicate request IDs, and any frame that
  exceeds both the channel limit and the session budget."
* A phone that stays connected and stops reading keeps a writer in `SSL_write` and everyone who wants
  `write_mutex_` behind it.
* The largest chunk, audio frame and clipboard text pass their codecs and not the channel's limit.
  Windows' encoder of display commands writes sequence 0, which its
  decoder refuses. `HEARTBEAT_ACK` has no handler.
* Android refuses keys, wheel, releases and points off the screen, which ends its receive loop and
  nothing else; Windows goes on sending. `sendEnvelope` waits for as long as `readEnvelope` reads.
* Exceptions in Android's capture coroutine are not caught. (Not modelled.)

Window
* A start of Phone Control can succeed before the hooks are checked; if they are refused, a later
  start can have `g_capture` and `active_` cleared by the thread that is still ending. The loop's own
  look at `active()` is never reached.
* A stop that gives up leaves its thread with its hooks, since a `WM_QUIT` may be lost; two threads
  then deliver every event twice, and one may use a destroyed capture.
* A frame's handler that comes after the renderer's stop starts it again (`late`), and the renderer
  runs on after its session. `CoInitializeEx` and `CoUninitialize` are called on different threads.
  (The last is not modelled.)
* A stopped advertiser says no goodbye, its records live for 120 seconds (`known`). It answers every
  datagram, other advertisers' answers included. (The latter is not modelled.)

Stores
* Writes of the identity are not checked, and an open that fails still costs the other file its
  content; a creation that was cut short makes every later start fail (`StuckStays`); overlapping
  first starts replace each other's identity, without a word. `docs/IMPLEMENTATION_STATUS.md:52`: "The
  device identity is generated once per installation and is revoked explicitly, not silently replaced."
  (`GeneratedOnce` holds while no creation fails, is cut off or overlaps with another.) The certificate
  is valid for a year and not renewed.
* Addresses of the cache that have expired come back when another of the host is refreshed, and a
  service record for a new host keeps the old host's addresses: hence "a host that a service record
  has named" in `ReadyWasAnnounced`.

## 5. Proofs

All theorems are proved from the named assumptions of the modules alone
(null values are none of the things they stand for, bounds are natural numbers, offers are records of
the form their struct has and a local hello is one of the form "hello", a port is not zero), except that
`AloneReceivesFromApproved`, `AloneTrustsWhatWasTapped` and `NoPairingWithoutCandidate` are about those
behaviours that their hypothesis names. The sets of connections, senders, threads, devices,
attempts, frames, events, processes, captures, records and formats are arbitrary.

**SecureCoordinatorProofs.** `IInv` is `TypeOK /\ SessionInv`. None of the properties is inductive
by itself: that a stop leaves nothing behind needs to know that no accept thread runs outside a
lifecycle (`LifecycleInv`); that there is one session needs to know at which stages the accept
thread's connection is the active peer (`ServingInv`); that a writer's stream is alive needs to know
that the accept thread cannot pass `finish` while the writer holds the lock (`HolderInv`); and that
no connection is left open needs the remotes' side (`RemoteInv`). `Invariance` proves `IInv` one
action at a time; `TypeCorrect`, `SingleSession`, `WritersAreSafe`, `SingleWriter` and `StopReleases` follow
from it.
`Handover` and `SlotRefinement` look at steps between states that satisfy `IInv`: each step is a
step of `SessionSlot` or leaves the slot alone, under host = "there is an accept thread", slot =
`active_peer_`, past = the connections whose stream is destroyed.
`NoLockCycle` is what safety can say of `StopReturns`: whoever waits for `write_mutex_` waits for a thread
inside SSL_write, and the join waits for an accept thread that has a step to take, or for one TLS call. What
`CoordStopHangs` shows is a case of the last. The step conditions are written out in
`AcceptCanGo`, as ENABLED is out of reach.

**SessionMachineProofs** has the facts about the transition table that the two users cite: which
events can lead to ESTABLISHED, that a stopped machine is at rest, types.

**SessionManagerProofs.** The inductive invariant adds to `TypeOK` and `ObserverInSync` that a stopped
machine is at rest and stays so (`AtRest`, `RestFacts`), and that once the winner of the compare-and-set
is through the lock nothing but a discovery is past the flag (`AdmittedIsOld`): an event let past
earlier was applied before, since the lock was taken. `StopIsKept` follows.

**SessionServiceProofs.** `IInv` is `TypeOK /\ ServiceInv`. `EstablishedIsTrusted` rests on
`TrustInv` (a pinned key belongs to a known device, a connection that came up passed its pin, the
pending peer is some attempt's peer), `StoppedAtRest` and `NoDialAfterDestroy` on `StopInv`, and
`OneReceiver` on `LoopInv`. All five invariants and both action properties of the run are theorems;
`UnaskedIsVerified` looks at all steps that can show an established session, finds that an attempt's
own is `ConnectPinned` (`UnaskedStep`), whose pin `TrustInv` knows to be a known device's, and needs
that a manual attempt has no pin (`ManualUnpinned`). Four more say under what conditions the broken
promises do hold, and how a session fails:
* `AloneReceivesFromApproved` adds `AloneInv` to `IInv` (the client is the one whose peer is in the
  prompt, or of the attempt under way). It is kept by every step of which `Alone` holds: no attempt
  begins while another is under way or a prompt is shown. Nothing in the service sees to that.
* `AloneTrustsWhatWasTapped`: under `Alone` the prompt a user tapped on stays the prompt until the intent
  arrives (`TapInv`), so the device that becomes trusted is the one that was shown.
* `NoPairingWithoutCandidate`: until a discovered service is applied, the machine stays in `Waiting`, the
  states that only CANDIDATE_FOUND leads out of, and an approval trusts nobody.
* `FailureIsFinal`: FAILED is left for CLOSING only. A start after a failure opens connections and never
  establishes a session.

**FeatureSessionProofs.** `Inv` adds to `TypeOK` that the frames are a sequence that only grows
(`FrameInv`, `SentGrows`), where the hello is and that a session which ended under the accept thread
was stopped (`LoopInv`), and that no writer writes more than the connection takes (`NextRoom`).
`HandledAsSent` is rewritten as three conjuncts (`Handled`)
that only `HandleFeature` can disturb; that a handled offer has a safe name is a lemma about the codec
(`SafeName`, `DispatchFaithful`).

The three properties that compare two sequences are stated with `InStep(A, B)`, the ways to go through two
sets of positions in order and without gaps, so that a step is reasoned about as one position more
(`StepBoth`, `MoreToFollow`) and no induction over a sequence is needed. `EventsAreSent` is inductive with
the types of its sequence (`EventInv`): a frame of another kind keeps it, one more event extends both
sides, and the counter skips zero (`FreshIdIsNotZero`). `AcksMatch` is inductive because a heartbeat
joins the ones that are done with only by being answered, as long as the session is up (`BeatsGrow`).
`GesturesFollowEvents` needs `GestureInv`: how far the receive loop and the main thread have come and
what is posted between them (`Performed`); `HelloFirst` keeps Windows' hello from being taken for an
event. `PhoneControlEndToEnd` puts the two together: the maps compose (`InStepOfInStep`), a map between
two initial segments that leaves nothing out is the identity (`InStepIsPrefix`, by the least position
where it is not), and so the k-th gesture is the k-th event captured.

`AppKeepsSession` has two halves. `ExitInv` goes through the ways out of the loop: without a stop, the
phone's end, Windows' own hello or an audio frame it takes a frame that is not `Passable` to end a
session. And what an encoder writes under its own kind is passable: its decoder reads it (`RoundTrip`,
names made safe on the way included) and its header is within the limits (`OwnHelloPasses`,
`OwnMessagePasses`).

**CoordinatorWindowProofs.** `WindowInv` says where the main thread is while there is a coordinator, a
capture and an advertiser; `AdvertisedListens` and `RendererAtRest` follow. `HookInv` is what a regular
history leaves: `MainInv`, what the main thread knows of its capture by its place, and `ThreadInv`, what
a hook thread does. The only running thread is the one in `thread_`, because a start needs `active_`
to be false and only a stop that saw the thread end makes it so. An irregularity is never
forgotten (`RegularBefore`), so the invariant needs to be kept only by steps that cause none.

**IdentityStoreProofs.** `MemoryInv` (who has which certificate and key in memory) gives
`MatchedPairs`. `Orderly` describes an installation without accidents: one creator at most, the files
as far as it has come, and readers that saw the only identity there is; `WhatIsServedIsStored` and
`OneIdentity` follow.

**DiscoveryCacheProofs.** `CacheInv` has the limits with the finiteness they need. `HeardInv` relates
each entry, ready or not, to what was heard: its pointer expiry is the last record's, host and port
come with theirs from the last service record, and its address expiry was given for a host that a
service record named.

Only model-checked: `StopReturns`, `QueueMoves`, `AttemptsEnd` and `HeartbeatAnswered`: liveness under
fairness is out of the prover's reach, and so is ENABLED. Nothing is declared RECURSIVE.

## 6. Not modelled

* Android's audio capture and playback: the capture reads the system's recorder and sends what
  `PhoneSend` may send at any time; the playback is wired to the audio frames the phone receives
  (`WABridgeSessionService.kt:66`), and Windows sends none.
* The Windows pairing store, the clipboard's loop guards and `SuspendController`: no caller in the
  program.
* Endpoint and QR parsing, the layouts of bytes, the mDNS packet: stateless text and bytes; the models
  start from what they yield. What a decoder refuses is in `Wire`.
* `WANT_READ` and `WANT_WRITE` retries, address resolution, OpenSSL's configuration, COM, DPAPI and
  MediaProjection: library behaviour, in the models as success or failure where it matters.
* The Kotlin and Python codecs: the Kotlin one has the C++ limits and is used through them, the Python
  one is a test reference.
* NSD's advertising (no caller) and the browsing listener's own flags.
* The Compose activity, the window's dialogs and labels, the vendored QR generator and the scripts.
* Both ends of a session with their threads in one specification: `FeatureSession` has both ends and
  one connection, `SecureCoordinator` and `SessionService` many connections and one end. Their
  product is beyond TLC; that the phone hangs up in the end, which `HangUpSpec` assumes, is therefore
  an assumption and not a result.
