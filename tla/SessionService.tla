---------------------------- MODULE SessionService ----------------------------
(***************************************************************************)
(* The Android side of a session: WABridgeSessionService with its          *)
(* SessionManager, SessionRuntime, NsdDiscovery and TlsSessionClient.      *)
(*                                                                         *)
(* Threads: the main thread (intents and the coroutines on                 *)
(* Dispatchers.Main), the NSD callback thread, and I/O threads (connect    *)
(* and the receive loop).  A handler or a coroutine's stretch between two  *)
(* suspensions is one step of the main thread; the NSD thread and the I/O  *)
(* threads are interleaved with it at every read or write of shared state. *)
(*                                                                         *)
(* An attempt stands for one connectTo coroutine with its TlsSessionClient.*)
(* A device is a Windows computer: its device ID and its certificate.      *)
(* One life of the service is modelled, from onCreate to past onDestroy.   *)
(***************************************************************************)
EXTENDS SessionMachine

CONSTANTS Device,    \* Windows computers on the network
          Attempt,   \* connection attempts, which bounds how many there are
          None       \* null

VARIABLES destroyed,    \* WABridgeSessionService.destroyed
          gone,         \* onDestroy has run and cancelled the coroutine scope
          session,      \* SessionManager, and the state SessionRuntime shows
          pendingPeer,  \* the peer that approvePairing would trust
          prompt,       \* the peer in SessionRuntime.pairing
          tapped,       \* the prompt the user was shown when approving it; its
                        \* intent is on the way to the service
          known,        \* peers AndroidIdentityStore.rememberPeer has stored
          browsing,     \* an NsdDiscovery exists and is not stopped
          nsd,          \* the NSD callback thread
          connectJob, receiveJob, client,
          phase,        \* where each attempt is
          cancelled,    \* the attempt's coroutine is cancelled
          aim,          \* how the attempt came about and which device it is for
          pin,          \* the attempt's expectedFingerprint
          peer,         \* the device that answered the attempt
          sock,         \* the TLS socket of its client
          stopFlag,     \* TlsSessionClient.stopped
          rx            \* the receive loop on its client

uiVars     == <<pendingPeer, prompt>>
userVars   == <<tapped, known>>
jobVars    == <<connectJob, client>>
lifeVars   == <<destroyed, gone, browsing>>
socketVars == <<sock, stopFlag>>
rxVars     == <<receiveJob, rx>>
goalVars   == <<aim, pin>>
vars == <<lifeVars, session, uiVars, userVars, nsd, jobVars, rxVars, phase, cancelled,
          goalVars, peer, socketVars>>

Vias == {"none", "advert", "manual", "qr"}
Phases == {"unused", "posted", "dispatched", "dialing", "greeting", "ready", "broken", "done"}
RxActive == {"reading", "failing", "reporting"}
NsdPcs == {"idle", "checked", "found", "launching", "launched", "failing", "reporting"}

\* PinnedTls and AndroidIdentityStore digest the public key of a certificate,
\* tls::certificate_fingerprint_sha256 the whole certificate.
KeyFingerprint(d) == [digest |-> "key", of |-> d]
WindowsFingerprint(d) == [digest |-> "certificate", of |-> d]
Sessions == [machine : Machines, stopped : BOOLEAN, ui : States]
Fingerprints == [digest : {"key", "certificate"}, of : Device]

ASSUME ServiceAssumption == None \notin Device /\ None \notin Attempt /\ None \notin Fingerprints

Init ==
    /\ destroyed = FALSE /\ gone = FALSE /\ browsing = FALSE
    /\ session = [machine |-> NewMachine, stopped |-> FALSE, ui |-> "IDLE"]
    /\ pendingPeer = None /\ prompt = None /\ tapped = None
    /\ known \in SUBSET Device
    /\ nsd = [pc |-> "idle", device |-> None, attempt |-> None]
    /\ connectJob = None /\ receiveJob = None /\ client = None
    /\ phase = [a \in Attempt |-> "unused"]
    /\ cancelled = [a \in Attempt |-> FALSE]
    /\ aim = [a \in Attempt |-> [via |-> "none", device |-> None]]
    /\ pin = [a \in Attempt |-> None]
    /\ peer = [a \in Attempt |-> None]
    /\ sock = [a \in Attempt |-> "none"]
    /\ stopFlag = [a \in Attempt |-> TRUE]
    /\ rx = [a \in Attempt |-> "none"]

------------------------------------------------------------------------------
(* What the handlers are made of. *)

\* SessionManager.apply: an accepted event also reaches SessionRuntime.
After(s, event) ==
    IF (s.stopped => event = "BEGIN_DISCOVERY") /\ Accepts(s.machine, event)
    THEN LET m == Apply(s.machine, event) IN [s EXCEPT !.machine = m, !.ui = m.state]
    ELSE s

\* SessionRuntime.update.
Shown(s, state) == [s EXCEPT !.ui = state]

\* fail() past its look at destroyed.
Failed(s) == Shown(After(s, "FAILURE"), "FAILED")

\* Job.isActive.
Active(a) == a # None /\ phase[a] \notin {"unused", "done"} /\ ~cancelled[a]

\* expectedFingerprint: the one the QR code supplied, or the one remembered for
\* the advertised device ID.  A manual endpoint has neither.
Expected(target) ==
    IF target.via = "qr" THEN WindowsFingerprint(target.device)
    ELSE IF target.via = "advert" /\ target.device \in known THEN KeyFingerprint(target.device)
    ELSE None

\* checkServerTrusted: without a fingerprint (a first pairing) any will do.
Trusts(a, d) == pin[a] # None => pin[a] = KeyFingerprint(d)

\* The connectTo coroutine, up to its suspension in connect.
Connect(a, target, s) ==
    /\ phase' = [phase EXCEPT ![a] = "dispatched"]
    /\ aim' = [aim EXCEPT ![a] = target]
    /\ pin' = [pin EXCEPT ![a] = Expected(target)]
    /\ client' = a
    /\ session' = Shown(After(s, "TLS_STARTED"), "TLS_HANDSHAKING")

\* TlsSessionClient.stop: the first one closes what connect has assigned by then.
ClientStop(a) ==
    /\ stopFlag' = [stopFlag EXCEPT ![a] = TRUE]
    /\ sock' = [sock EXCEPT ![a] = IF @ = "open" /\ ~stopFlag[a] THEN "closed" ELSE @]

\* Mutant: every established session starts a loop.
StartAnotherLoop(a) ==
    /\ receiveJob' = a
    /\ rx' = [rx EXCEPT ![a] = IF destroyed THEN @ ELSE "reading"]

\* startReceiveLoop: a loop that runs is left alone, and one that is started
\* after the service stopped ends before it reads.
StartReceiveLoop(a) ==
    IF receiveJob # None /\ rx[receiveJob] \in RxActive
    THEN UNCHANGED rxVars
    ELSE /\ receiveJob' = a
         /\ rx' = [rx EXCEPT ![a] = IF destroyed THEN @ ELSE "reading"]

------------------------------------------------------------------------------
(* The main thread: intents. *)

\* Intents are handled in the order they were sent: an approval on its way goes
\* before what the user asks for next.  (What the user asked for just before it
\* is taken to have been handled.)
InOrder == tapped = None

\* Mutant: SessionRuntime.clearPairing is forgotten.
BeginsKeepingPrompt ==
    /\ InOrder
    /\ ~destroyed
    /\ ~Active(connectJob)
    /\ pendingPeer' = None
    /\ UNCHANGED prompt

\* begin: what it does before it looks at the endpoint.
Begins ==
    /\ InOrder
    /\ ~destroyed
    /\ ~Active(connectJob)
    /\ pendingPeer' = None
    /\ prompt' = None

\* ACTION_START with an endpoint typed in or scanned.
BeginEndpoint(a, via, d) ==
    /\ Begins
    /\ phase[a] = "unused"
    /\ Connect(a, [via |-> via, device |-> d], After(session, "BEGIN_DISCOVERY"))
    /\ connectJob' = a
    /\ UNCHANGED <<lifeVars, userVars, nsd, rxVars, cancelled, peer, socketVars>>

\* Mutant: no look at destroyed.
BeginBrowseAnyway ==
    /\ InOrder
    /\ ~Active(connectJob)
    /\ pendingPeer' = None
    /\ prompt' = None
    /\ session' = Shown(After(session, "BEGIN_DISCOVERY"), "DISCOVERING")
    /\ browsing' = TRUE
    /\ UNCHANGED <<destroyed, gone, userVars, nsd, jobVars, rxVars, phase, cancelled,
                   goalVars, peer, socketVars>>

\* ACTION_START without one: stop the old discovery and start another, which may
\* fail at once.
BeginBrowse ==
    /\ Begins
    /\ \E s \in {After(session, "BEGIN_DISCOVERY"), Failed(After(session, "BEGIN_DISCOVERY"))} :
          session' = Shown(s, "DISCOVERING")
    /\ browsing' = TRUE
    /\ UNCHANGED <<destroyed, gone, userVars, nsd, jobVars, rxVars, phase, cancelled,
                   goalVars, peer, socketVars>>

\* fail() in the handler of an intent that does nothing else to the session.
IntentFails ==
    /\ InOrder
    /\ ~destroyed
    /\ session' = Failed(session)
    /\ UNCHANGED <<lifeVars, uiVars, userVars, nsd, jobVars, rxVars, phase, cancelled,
                   goalVars, peer, socketVars>>

\* ACTION_START whose foreground promotion throws.
StartFails == IntentFails

\* ACTION_START_AUDIO_CAPTURE in an established session, when the promotion or
\* the capture fails: the receive loop goes on under a failed session.
CaptureFails ==
    /\ session.machine.state = "ESTABLISHED"
    /\ client # None
    /\ IntentFails

\* The user approves the prompt on the screen: an intent is sent.
TapApprove ==
    /\ prompt # None
    /\ tapped = None
    /\ tapped' = prompt
    /\ UNCHANGED <<lifeVars, session, uiVars, known, nsd, jobVars, rxVars, phase, cancelled,
                   goalVars, peer, socketVars>>

\* ACTION_APPROVE_PAIRING.
ApprovePairing ==
    /\ tapped # None
    /\ tapped' = None
    /\ IF pendingPeer # None /\ session.machine.state = "PAIRING_REQUIRED"
       THEN /\ known' = known \cup {pendingPeer}
            /\ pendingPeer' = None
            /\ prompt' = None
            /\ session' = Shown(After(session, "PAIRING_APPROVED"), "ESTABLISHED")
            /\ IF client # None THEN StartReceiveLoop(client) ELSE UNCHANGED rxVars
       ELSE UNCHANGED <<known, uiVars, session, rxVars>>
    /\ UNCHANGED <<lifeVars, nsd, jobVars, phase, cancelled, goalVars, peer, socketVars>>

\* stopSession, but for the cancellation of the connect job.
Teardown ==
    /\ ~destroyed
    /\ destroyed' = TRUE
    /\ connectJob' = None
    /\ receiveJob' = None
    /\ browsing' = FALSE
    /\ IF client # None THEN ClientStop(client) ELSE UNCHANGED socketVars
    /\ client' = None
    /\ pendingPeer' = None
    /\ prompt' = None
    /\ session' = [machine |-> Stop(session.machine), stopped |-> TRUE, ui |-> "IDLE"]

\* stopSession once more: the flag is set, nothing happens.
TornDown ==
    /\ destroyed
    /\ UNCHANGED <<destroyed, browsing, jobVars, receiveJob, uiVars, session, socketVars>>

\* ACTION_STOP.
StopSession ==
    /\ InOrder
    /\ Teardown
    /\ cancelled' = [a \in Attempt |-> cancelled[a] \/ a = connectJob]
    /\ UNCHANGED <<gone, userVars, nsd, rx, phase, goalVars, peer>>

\* Mutant: the coroutine scope outlives the service.
OnDestroyKeepsScope ==
    /\ ~gone
    /\ gone' = TRUE
    /\ cancelled' = [a \in Attempt |-> cancelled[a] \/ a = connectJob]
    /\ Teardown \/ TornDown
    /\ UNCHANGED <<userVars, nsd, rx, phase, goalVars, peer>>

\* onDestroy: stopSession, unless that was done, and every coroutine of the
\* scope is cancelled, those that are still to be launched included.
OnDestroy ==
    /\ ~gone
    /\ gone' = TRUE
    /\ cancelled' = [a \in Attempt |-> TRUE]
    /\ Teardown \/ TornDown
    /\ UNCHANGED <<userVars, nsd, rx, phase, goalVars, peer>>

------------------------------------------------------------------------------
(* The main thread: the connectTo coroutine. *)

\* A coroutine the NSD thread launched gets its turn.
RunPosted(a) ==
    /\ phase[a] = "posted"
    /\ IF cancelled[a]
       THEN /\ phase' = [phase EXCEPT ![a] = "done"]
            /\ UNCHANGED <<goalVars, client, session>>
       ELSE Connect(a, aim[a], session)
    /\ UNCHANGED <<lifeVars, uiVars, userVars, nsd, connectJob, rxVars, cancelled, peer, socketVars>>

\* connect returned to a cancelled coroutine, which drops its result.
ConnectCancelled(a) ==
    /\ phase[a] = "ready"
    /\ cancelled[a]
    /\ phase' = [phase EXCEPT ![a] = "done"]
    /\ UNCHANGED <<lifeVars, session, uiVars, userVars, nsd, jobVars, rxVars, cancelled,
                   goalVars, peer, socketVars>>

\* connect threw, or the peer is not the advertised device: fail, session.stop.
ConnectFails(a, s) ==
    /\ session' = IF destroyed THEN s ELSE Failed(s)
    /\ ClientStop(a)
    /\ phase' = [phase EXCEPT ![a] = "done"]
    /\ UNCHANGED <<lifeVars, uiVars, userVars, nsd, jobVars, rxVars, cancelled, goalVars, peer>>

ConnectBroken(a) == phase[a] = "broken" /\ ConnectFails(a, session)

Connected(a) == phase[a] = "ready" /\ ~cancelled[a]

Misled(a) == aim[a].via # "manual" /\ aim[a].device # peer[a]

ConnectMisled(a) ==
    /\ Connected(a)
    /\ Misled(a)
    /\ ConnectFails(a, After(session, "TLS_SUCCEEDED"))

\* Mutant: the QR and first-pair tests are dropped.
VerifiedByTls(a) == peer[a] # None

\* A remembered device was verified by its fingerprint.
Verified(a) == pin[a] # None /\ aim[a].via # "qr"

ConnectPinned(a) ==
    /\ Connected(a)
    /\ ~Misled(a)
    /\ Verified(a)
    /\ session' = Shown(After(After(session, "TLS_SUCCEEDED"), "IDENTITY_MATCHES"), "ESTABLISHED")
    /\ StartReceiveLoop(a)
    /\ phase' = [phase EXCEPT ![a] = "done"]
    /\ UNCHANGED <<lifeVars, uiVars, userVars, nsd, jobVars, cancelled, goalVars, peer, socketVars>>

\* First pairing, or a QR code: the user is asked.
ConnectPrompts(a) ==
    /\ Connected(a)
    /\ ~Misled(a)
    /\ ~Verified(a)
    /\ pendingPeer' = peer[a]
    /\ prompt' = peer[a]
    /\ session' = Shown(After(After(session, "TLS_SUCCEEDED"), "PAIRING_NEEDED"), "PAIRING_REQUIRED")
    /\ phase' = [phase EXCEPT ![a] = "done"]
    /\ UNCHANGED <<lifeVars, userVars, nsd, jobVars, rxVars, cancelled, goalVars, peer, socketVars>>

------------------------------------------------------------------------------
(* An I/O thread: TlsSessionClient.connect. *)

\* What connect leaves alone until it returns.
OutsideConnect == <<lifeVars, session, uiVars, userVars, nsd, jobVars, rxVars, cancelled, goalVars>>

\* A cancelled coroutine does not enter the block.  The stop() at its head finds
\* a client that is stopped already.
DialStarts(a) ==
    /\ phase[a] = "dispatched"
    /\ IF cancelled[a]
       THEN phase' = [phase EXCEPT ![a] = "done"] /\ UNCHANGED stopFlag
       ELSE /\ phase' = [phase EXCEPT ![a] = "dialing"]
            /\ stopFlag' = [stopFlag EXCEPT ![a] = FALSE]
    /\ UNCHANGED <<OutsideConnect, peer, sock>>

\* TCP and TLS are up, and the fields are assigned.
DialSucceeds(a, d) ==
    /\ phase[a] = "dialing"
    /\ Trusts(a, d)
    /\ peer' = [peer EXCEPT ![a] = d]
    /\ sock' = [sock EXCEPT ![a] = "open"]
    /\ phase' = [phase EXCEPT ![a] = "greeting"]
    /\ UNCHANGED <<OutsideConnect, stopFlag>>

\* The device that answered has another fingerprint.
DialRefused(a, d) ==
    /\ phase[a] = "dialing"
    /\ ~Trusts(a, d)
    /\ peer' = [peer EXCEPT ![a] = d]
    /\ ClientStop(a)
    /\ phase' = [phase EXCEPT ![a] = "broken"]
    /\ UNCHANGED OutsideConnect

\* Nobody answers within 5 seconds, or the connection breaks.
DialFails(a) ==
    /\ phase[a] = "dialing"
    /\ ClientStop(a)
    /\ phase' = [phase EXCEPT ![a] = "broken"]
    /\ UNCHANGED <<OutsideConnect, peer>>

HelloSucceeds(a) ==
    /\ phase[a] = "greeting"
    /\ sock[a] = "open"
    /\ phase' = [phase EXCEPT ![a] = "ready"]
    /\ UNCHANGED <<OutsideConnect, peer, socketVars>>

\* Mutant: no read timeout, so that only a local close ends the wait.
HelloFailsWhenClosed(a) ==
    /\ phase[a] = "greeting"
    /\ sock[a] = "closed"
    /\ ClientStop(a)
    /\ phase' = [phase EXCEPT ![a] = "broken"]
    /\ UNCHANGED <<OutsideConnect, peer>>

\* No hello within 5 seconds, a bad one, or a closed socket.
HelloFails(a) ==
    /\ phase[a] = "greeting"
    /\ ClientStop(a)
    /\ phase' = [phase EXCEPT ![a] = "broken"]
    /\ UNCHANGED <<OutsideConnect, peer>>

------------------------------------------------------------------------------
(* An I/O thread: the receive loop. *)

OutsideRx == <<lifeVars, uiVars, userVars, nsd, jobVars, receiveJob, phase, cancelled, goalVars,
               peer, socketVars>>

\* SESSION_CLOSE, or a frame after which the loop finds the service destroyed.
RxEnds(a) ==
    /\ rx[a] = "reading"
    /\ sock[a] = "open"
    /\ rx' = [rx EXCEPT ![a] = "ended"]
    /\ UNCHANGED <<OutsideRx, session>>

\* A read or an answer fails, or nobody handles the frame.
RxFails(a) ==
    /\ rx[a] = "reading"
    /\ rx' = [rx EXCEPT ![a] = IF destroyed THEN "ended" ELSE "failing"]
    /\ UNCHANGED <<OutsideRx, session>>

\* fail() on the I/O thread: into the session manager, then to SessionRuntime.
RxFailApplies(a) ==
    /\ rx[a] = "failing"
    /\ session' = After(session, "FAILURE")
    /\ rx' = [rx EXCEPT ![a] = "reporting"]
    /\ UNCHANGED OutsideRx

RxFailReports(a) ==
    /\ rx[a] = "reporting"
    /\ session' = Shown(session, "FAILED")
    /\ rx' = [rx EXCEPT ![a] = "ended"]
    /\ UNCHANGED OutsideRx

------------------------------------------------------------------------------
(* The NSD callback thread. *)

NsdGoes(pc) == nsd' = [nsd EXCEPT !.pc = pc]

OutsideNsd == <<lifeVars, uiVars, userVars, client, rxVars, cancelled, pin, peer, socketVars>>

\* onServiceResolved, onCandidate: nothing is connecting.
NsdResolves(d) ==
    /\ nsd.pc = "idle"
    /\ browsing
    /\ ~destroyed
    /\ ~Active(connectJob)
    /\ nsd' = [pc |-> "checked", device |-> d, attempt |-> None]
    /\ UNCHANGED <<OutsideNsd, session, connectJob, phase, aim>>

NsdApplies ==
    /\ nsd.pc = "checked"
    /\ session' = After(session, "CANDIDATE_FOUND")
    /\ NsdGoes("found")
    /\ UNCHANGED <<OutsideNsd, connectJob, phase, aim>>

\* connectTo looks again.
NsdChecksAgain ==
    /\ nsd.pc = "found"
    /\ NsdGoes(IF Active(connectJob) \/ destroyed THEN "idle" ELSE "launching")
    /\ UNCHANGED <<OutsideNsd, session, connectJob, phase, aim>>

\* Mutant: the TXT record is not read.
NsdLaunchesUnnamed(a) ==
    /\ nsd.pc = "launching"
    /\ phase[a] = "unused"
    /\ phase' = [phase EXCEPT ![a] = "posted"]
    /\ aim' = [aim EXCEPT ![a] = [via |-> "advert", device |-> None]]
    /\ nsd' = [nsd EXCEPT !.pc = "launched", !.attempt = a]
    /\ UNCHANGED <<OutsideNsd, session, connectJob>>

\* scope.launch posts the coroutine to the main thread ...
NsdLaunches(a) ==
    /\ nsd.pc = "launching"
    /\ phase[a] = "unused"
    /\ phase' = [phase EXCEPT ![a] = "posted"]
    /\ aim' = [aim EXCEPT ![a] = [via |-> "advert", device |-> nsd.device]]
    /\ nsd' = [nsd EXCEPT !.pc = "launched", !.attempt = a]
    /\ UNCHANGED <<OutsideNsd, session, connectJob>>

\* ... and its job is assigned.
NsdAssigns ==
    /\ nsd.pc = "launched"
    /\ connectJob' = nsd.attempt
    /\ nsd' = [pc |-> "idle", device |-> None, attempt |-> None]
    /\ UNCHANGED <<OutsideNsd, session, phase, aim>>

\* onError: discovery or a resolution failed, or a service has no address.
NsdFails ==
    /\ nsd.pc = "idle"
    /\ ~destroyed
    /\ NsdGoes("failing")
    /\ UNCHANGED <<OutsideNsd, session, connectJob, phase, aim>>

NsdFailApplies ==
    /\ nsd.pc = "failing"
    /\ session' = After(session, "FAILURE")
    /\ NsdGoes("reporting")
    /\ UNCHANGED <<OutsideNsd, connectJob, phase, aim>>

NsdFailReports ==
    /\ nsd.pc = "reporting"
    /\ session' = Shown(session, "FAILED")
    /\ NsdGoes("idle")
    /\ UNCHANGED <<OutsideNsd, connectJob, phase, aim>>

------------------------------------------------------------------------------

Intents ==
    \/ \E a \in Attempt, via \in {"manual", "qr"}, d \in Device : BeginEndpoint(a, via, d)
    \/ BeginBrowse \/ StartFails \/ CaptureFails
    \/ TapApprove \/ ApprovePairing
    \/ StopSession \/ OnDestroy

Coroutine(a) ==
    \/ RunPosted(a) \/ ConnectCancelled(a) \/ ConnectBroken(a)
    \/ ConnectMisled(a) \/ ConnectPinned(a) \/ ConnectPrompts(a)

Dial(a) == DialFails(a) \/ \E d \in Device : DialSucceeds(a, d) \/ DialRefused(a, d)

Hello(a) == HelloSucceeds(a) \/ HelloFails(a)

Receive(a) == RxEnds(a) \/ RxFails(a) \/ RxFailApplies(a) \/ RxFailReports(a)

Nsd ==
    \/ \E d \in Device : NsdResolves(d)
    \/ NsdApplies \/ NsdChecksAgain \/ (\E a \in Attempt : NsdLaunches(a)) \/ NsdAssigns
    \/ NsdFails \/ NsdFailApplies \/ NsdFailReports

Next ==
    \/ Intents
    \/ \E a \in Attempt : Coroutine(a) \/ DialStarts(a) \/ Dial(a) \/ Hello(a) \/ Receive(a)
    \/ Nsd

Spec == Init /\ [][Next]_vars

(***************************************************************************)
(* Fairness: the main looper runs what was posted to it, an I/O thread     *)
(* enters connect, and the 5 second timeouts on connecting and on reading  *)
(* the hello end the two waits in it.  The remote owes nothing.            *)
(***************************************************************************)
FairSpec ==
    /\ Spec
    /\ \A a \in Attempt : /\ WF_vars(Coroutine(a))
                          /\ WF_vars(DialStarts(a))
                          /\ WF_vars(DialFails(a))
                          /\ WF_vars(HelloFails(a))

------------------------------------------------------------------------------
(* Properties. *)

\* The variables stay in their sets, and an attempt that is under way is for a
\* device.
TypeOK ==
    /\ destroyed \in BOOLEAN /\ gone \in BOOLEAN /\ browsing \in BOOLEAN
    /\ session \in Sessions
    /\ pendingPeer \in Device \cup {None}
    /\ prompt \in Device \cup {None}
    /\ tapped \in Device \cup {None}
    /\ known \in SUBSET Device
    /\ nsd \in [pc : NsdPcs, device : Device \cup {None}, attempt : Attempt \cup {None}]
    /\ connectJob \in Attempt \cup {None}
    /\ receiveJob \in Attempt \cup {None}
    /\ client \in Attempt \cup {None}
    /\ phase \in [Attempt -> Phases]
    /\ cancelled \in [Attempt -> BOOLEAN]
    /\ aim \in [Attempt -> [via : Vias, device : Device \cup {None}]]
    /\ pin \in [Attempt -> Fingerprints \cup {None}]
    /\ peer \in [Attempt -> Device \cup {None}]
    /\ sock \in [Attempt -> {"none", "open", "closed"}]
    /\ stopFlag \in [Attempt -> BOOLEAN]
    /\ rx \in [Attempt -> RxActive \cup {"none", "ended"}]
    /\ \A a \in Attempt : phase[a] # "unused" => aim[a].device \in Device
    /\ nsd.pc \in {"checked", "found", "launching", "launched"} => nsd.device \in Device

\* The prompt on the screen is for the peer that an approval would trust.
PromptIsPending == prompt = pendingPeer

\* The service calls itself established only when some connection's peer is one
\* the user has approved, now or in an earlier session.
EstablishedIsTrusted ==
    session.machine.state = "ESTABLISHED" \/ session.ui = "ESTABLISHED" =>
        \E a \in Attempt : peer[a] \in known

\* An attempt that shows the session as established by itself, without asking the
\* user, has reached the very device it was for, and that device is known.
UnaskedIsKnown ==
    [][\A a \in Attempt :
          /\ phase'[a] # phase[a]
          /\ session.ui # "ESTABLISHED" /\ session'.ui = "ESTABLISHED"
          => peer[a] = aim[a].device /\ peer[a] \in known]_vars

\* Two receive loops never run side by side, over one connection or over two.
OneReceiver == \A a, b \in Attempt : rx[a] \in RxActive /\ rx[b] \in RxActive => a = b

\* Whatever is still under way when the service stops, the session machine stays
\* at rest and no discovery is left or started.
StoppedAtRest ==
    destroyed => session.machine.state \in {"IDLE", "CLOSING"} /\ ~browsing

\* A key that is pinned belongs to a known device, a connection that came up passed
\* its pin, and the pending peer is the peer of an attempt.
NotConnected == {"unused", "posted", "dispatched", "dialing"}
TrustInv ==
    /\ \A a \in Attempt, d \in Device : pin[a] = KeyFingerprint(d) => d \in known
    /\ \A a \in Attempt : phase[a] \in {"greeting", "ready"} =>
           peer[a] \in Device /\ Trusts(a, peer[a])
    /\ \A a \in Attempt : phase[a] \in NotConnected => peer[a] = None
    /\ pendingPeer # None => \E a \in Attempt : peer[a] = pendingPeer

\* The session manager is stopped when the service is, and onDestroy cancels all.
StopInv ==
    /\ ~destroyed => ~session.stopped /\ ~session.machine.stopped
    /\ destroyed => session.stopped
    /\ gone => destroyed /\ \A a \in Attempt : cancelled[a]

\* The running receive loop is receiveJob's, until stop drops the reference.
LoopInv == ~destroyed => \A a \in Attempt : rx[a] \in RxActive => receiveJob = a

\* The inductive invariant: the properties above with what they rest on.
ServiceInv ==
    /\ PromptIsPending /\ EstablishedIsTrusted /\ OneReceiver /\ StoppedAtRest
    /\ TrustInv /\ StopInv /\ LoopInv

\* Once onDestroy has run no attempt enters the network.
NoDialAfterDestroy ==
    [][\A a \in Attempt : gone /\ phase'[a] = "dialing" => phase[a] = "dialing"]_vars

\* Every attempt comes to an end, whatever the remote does, so that begin and
\* onCandidate are not refused for ever.
AttemptsEnd == \A a \in Attempt : phase[a] \notin {"unused", "done"} ~> phase[a] = "done"

\* The class comment: no first-pair identity is trusted before the user approves
\* it.  Frames are handled only from peers that were approved.
ReceivesFromApproved ==
    \A a \in Attempt : rx[a] = "reading" /\ sock[a] = "open" => peer[a] \in known

\* The class comment again: who becomes trusted is who the user was shown when
\* approving.
TrustsWhatWasTapped == [][known' # known => known' = known \cup {tapped}]_vars

\* A pairing prompt can be approved: the session waits for the approval.
PromptCanBeApproved == prompt # None => session.machine.state = "PAIRING_REQUIRED"
==============================================================================
