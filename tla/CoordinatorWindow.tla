--------------------------- MODULE CoordinatorWindow ---------------------------
(***************************************************************************)
(* Windows' CoordinatorWindow: the Qt main thread that starts and stops    *)
(* the coordinator, the mDNS advertiser, the input capture and the audio   *)
(* renderer, with the accept thread that runs the frame handlers and the   *)
(* hook threads.  The coordinator is here its listening port and whether a *)
(* session is up; SecureCoordinator models the rest of it.  A start that   *)
(* fails (identity, certificate, port in use) changes nothing.             *)
(***************************************************************************)
EXTENDS InputCapture, WasapiRenderer

CONSTANTS
    Port,   \* the values of the port field
    Codec,  \* codecs of an audio frame
    Pcm16,  \* the one that is played
    Size    \* samples per channel in an audio frame

ASSUME WindowAssumption ==
    /\ 0 \notin Port
    /\ Pcm16 \in Codec
    /\ Size \subseteq Nat

VARIABLES
    winPc,      \* where the main thread is; "idle" is its event loop
    waitFor,    \* what its LowLevelCapture::stop is part of: "none", "toggle", "start" or "close"
    closing,    \* the destructor has begun
    coordinator,\* coordinator_: the port of its listener, 0 for nullptr
    listening,  \* the port of the listener that the accept thread serves, 0 for none
    accepting,  \* the accept thread: "none", "select", "session" or "handler"
    advert,     \* port_ of the advertiser, 0 when it is stopped
    known,      \* the port in an announcement that the network has not forgotten, or 0
    capture,    \* input_capture_
    late        \* history: the renderer was started after this stop had stopped it

coordinatorVars == <<coordinator, listening, accepting>>
mdnsVars == <<advert, known>>
mainVars == <<winPc, waitFor, closing>>
vars == <<mainVars, coordinatorVars, mdnsVars, capture, late, captureVars, rendererVars>>

TypeOK ==
    /\ CaptureTypeOK
    /\ RendererTypeOK
    /\ winPc \in {"idle", "advertise", "makeCapture", "awaitReady", "stopCapture", "awaitThread",
                  "stopRenderer", "stopMdns", "stopListener", "join", "gone"}
    /\ waitFor \in {"none", "toggle", "start", "close"}
    /\ closing \in BOOLEAN
    /\ coordinator \in Port \cup {0}
    /\ listening \in Port \cup {0}
    /\ accepting \in {"none", "select", "session", "handler"}
    /\ advert \in Port \cup {0}
    /\ known \in Port \cup {0}
    /\ capture \in Capture \cup {Null}
    /\ late \in BOOLEAN

Init ==
    /\ CaptureInit
    /\ RendererInit
    /\ winPc = "idle"
    /\ waitFor = "none"
    /\ closing = FALSE
    /\ coordinator = 0
    /\ listening = 0
    /\ accepting = "none"
    /\ advert = 0
    /\ known = 0
    /\ capture = Null
    /\ late = FALSE

------------------------------------------------------------------------------
(* start_coordinator: the start button, and once when the window opens.  The *)
(* button is disabled while there is a coordinator.                          *)

StartListener(p) ==
    /\ winPc = "idle"
    /\ coordinator = 0
    /\ coordinator' = p
    /\ listening' = p
    /\ accepting' = "select"
    /\ winPc' = "advertise"
    /\ late' = FALSE
    /\ UNCHANGED <<waitFor, closing, mdnsVars, capture, captureVars, rendererVars>>

\* MdnsAdvertiser::announce: one authoritative answer, whose service record
\* names the port.
Announce(p) == known' = p

\* MdnsAdvertiser::start, whose own stop() comes first.  The first announcement
\* goes out before it returns, and is repeated every three seconds and to every
\* datagram; a port 5353 that cannot be shared leaves the advertiser stopped.
StartAdvertiser ==
    /\ winPc = "advertise"
    /\ \/ advert' = coordinator /\ Announce(coordinator)
       \/ advert' = 0 /\ UNCHANGED known
    /\ winPc' = "makeCapture"
    /\ UNCHANGED <<waitFor, closing, coordinatorVars, capture, late, captureVars, rendererVars>>

MakeCapture(c) ==
    /\ winPc = "makeCapture"
    /\ Construct(c)
    /\ capture' = c
    /\ winPc' = "idle"
    /\ UNCHANGED <<waitFor, closing, coordinatorVars, mdnsVars, late, rendererVars>>

\* The records live 120 seconds, and are renewed while the advertiser runs; no
\* goodbye is sent when it stops.
RecordsExpire ==
    /\ known # 0
    /\ advert = 0
    /\ known' = 0
    /\ UNCHANGED <<mainVars, coordinatorVars, advert, capture, late, captureVars, rendererVars>>

------------------------------------------------------------------------------
(* toggle_phone_control. *)

ToggleOn(t) ==
    /\ winPc = "idle"
    /\ capture # Null
    /\ StartThread(capture, t)
    /\ winPc' = "awaitReady"
    /\ UNCHANGED <<waitFor, closing, coordinatorVars, mdnsVars, capture, late, rendererVars>>

ToggleReady ==
    /\ winPc = "awaitReady"
    /\ StartSucceeds(capture)
    /\ winPc' = "idle"
    /\ UNCHANGED <<waitFor, closing, coordinatorVars, mdnsVars, capture, late, captureVars, rendererVars>>

ToggleFails ==
    /\ winPc = "awaitReady"
    /\ StartGivesUp(capture)
    /\ winPc' = "stopCapture"
    /\ waitFor' = "start"
    /\ UNCHANGED <<closing, coordinatorVars, mdnsVars, capture, late, captureVars, rendererVars>>

ToggleOff ==
    /\ winPc = "idle"
    /\ capture # Null
    /\ active[capture]
    /\ winPc' = "stopCapture"
    /\ waitFor' = "toggle"
    /\ UNCHANGED <<closing, coordinatorVars, mdnsVars, capture, late, captureVars, rendererVars>>

\* The stop button, which is enabled while there is a coordinator, and the
\* destructor.
Stop(destroying) ==
    /\ winPc = "idle"
    /\ destroying \/ coordinator # 0
    /\ winPc' = IF capture = Null THEN "stopRenderer" ELSE "stopCapture"
    /\ waitFor' = "close"
    /\ closing' = destroying
    /\ UNCHANGED <<coordinatorVars, mdnsVars, capture, late, captureVars, rendererVars>>

\* LowLevelCapture::stop.
StopCapture ==
    /\ winPc = "stopCapture"
    /\ PostQuit(capture)
    /\ winPc' = "awaitThread"
    /\ UNCHANGED <<waitFor, closing, coordinatorVars, mdnsVars, capture, late, rendererVars>>

AfterThread ==
    /\ winPc = "awaitThread"
    /\ winPc' = IF waitFor = "close" THEN "stopRenderer" ELSE "idle"
    /\ waitFor' = IF waitFor = "close" THEN "close" ELSE "none"
    /\ UNCHANGED <<closing, coordinatorVars, mdnsVars, capture, late, rendererVars>>

\* Mutant: see ForgetThread.
LeaveThread ==
    /\ AfterThread
    /\ ForgetThread(capture)

AwaitThread ==
    /\ AfterThread
    /\ CloseThread(capture)

------------------------------------------------------------------------------
(* The rest of stop_coordinator. *)

\* Mutant: the renderer is left as it is.
LeaveRenderer ==
    /\ winPc = "stopRenderer"
    /\ winPc' = "stopMdns"
    /\ UNCHANGED <<waitFor, closing, coordinatorVars, mdnsVars, capture, late, captureVars, rendererVars>>

\* Under audio_mutex_, as a frame's handler is.
StopRenderer ==
    /\ winPc = "stopRenderer"
    /\ RendererStop
    /\ winPc' = "stopMdns"
    /\ UNCHANGED <<waitFor, closing, coordinatorVars, mdnsVars, capture, late, captureVars>>

\* A coordinator that was never started has nothing left to stop.
AfterMdns ==
    /\ winPc = "stopMdns"
    /\ winPc' = IF coordinator # 0 THEN "stopListener" ELSE IF closing THEN "gone" ELSE "idle"
    /\ waitFor' = IF coordinator # 0 THEN "close" ELSE "none"
    /\ UNCHANGED <<closing, coordinatorVars, capture, late, captureVars, rendererVars>>

\* Mutant: the advertiser goes on.
LeaveMdns ==
    /\ AfterMdns
    /\ UNCHANGED mdnsVars

StopMdns ==
    /\ AfterMdns
    /\ advert' = 0
    /\ UNCHANGED known

\* SecureCoordinator::stop and Coordinator::stop up to the join.
StopListener ==
    /\ winPc = "stopListener"
    /\ listening' = 0
    /\ winPc' = "join"
    /\ UNCHANGED <<waitFor, closing, coordinator, accepting, mdnsVars, capture, late, captureVars, rendererVars>>

\* The join, and coordinator_ and input_capture_ reset: its destructor's stop
\* finds no thread.
Join ==
    /\ winPc = "join"
    /\ accepting = "none"
    /\ coordinator' = 0
    /\ Destroy(capture)
    /\ capture' = Null
    /\ waitFor' = "none"
    /\ winPc' = IF closing THEN "gone" ELSE "idle"
    /\ UNCHANGED <<closing, listening, accepting, mdnsVars, late, rendererVars>>

------------------------------------------------------------------------------
(* The accept thread. *)

Accepting(from, to) ==
    /\ accepting = from
    /\ accepting' = to
    /\ UNCHANGED <<mainVars, coordinator, listening, mdnsVars, capture, captureVars>>

\* A connection accepted before the listener closed may become a session after.
SessionUp == Accepting("select", "session") /\ UNCHANGED <<late, rendererVars>>

\* The phone leaves, a frame is refused, or stop finds the session's stream.
SessionDown == Accepting("session", "select") /\ UNCHANGED <<late, rendererVars>>

\* accept_loop finds running_ false.
LeaveAcceptLoop ==
    /\ listening = 0
    /\ Accepting("select", "none")
    /\ UNCHANGED <<late, rendererVars>>

FrameArrives == Accepting("session", "handler") /\ UNCHANGED <<late, rendererVars>>

\* The handlers of files, clipboard, input and display only queue a status text.
HandleOther == Accepting("handler", "session") /\ UNCHANGED <<late, rendererVars>>

\* on_audio_frame; a handler that says false ends the session.
RefuseCodec(codec) ==
    /\ codec # Pcm16
    /\ Accepting("handler", "select")
    /\ UNCHANGED <<late, rendererVars>>

HandleAudio(f, size, ok) ==
    /\ StartAndRender(f, size, ok) \/ RenderMore(f, size, ok)
    /\ late' = (late \/ (running' /\ ~running /\ winPc \in {"stopMdns", "stopListener", "join"}))
    /\ Accepting("handler", IF ok THEN "session" ELSE "select")

DevicePlays ==
    /\ Play
    /\ UNCHANGED <<mainVars, coordinatorVars, mdnsVars, capture, late, captureVars>>

HookThread(t) ==
    /\ HookStep(t)
    /\ UNCHANGED <<mainVars, coordinatorVars, mdnsVars, capture, late, rendererVars>>

Next ==
    \/ \E p \in Port : StartListener(p)
    \/ StartAdvertiser
    \/ \E c \in Capture : MakeCapture(c)
    \/ RecordsExpire
    \/ \E t \in Thread : ToggleOn(t)
    \/ ToggleReady
    \/ ToggleFails
    \/ ToggleOff
    \/ \E destroying \in BOOLEAN : Stop(destroying)
    \/ StopCapture
    \/ AwaitThread
    \/ StopRenderer
    \/ StopMdns
    \/ StopListener
    \/ Join
    \/ SessionUp
    \/ SessionDown
    \/ LeaveAcceptLoop
    \/ FrameArrives
    \/ HandleOther
    \/ \E codec \in Codec : RefuseCodec(codec)
    \/ \E f \in Format, size \in Size, ok \in BOOLEAN : HandleAudio(f, size, ok)
    \/ DevicePlays
    \/ \E t \in Thread : HookThread(t)

Spec == Init /\ [][Next]_vars

------------------------------------------------------------------------------
(* Properties. *)

\* Phone Control that shows as active is: while the window is in its event
\* loop, an active capture's own thread holds both hooks or is on its way to
\* look at them, events go to that capture and no other hook thread is left to
\* deliver them twice.  A refused hook and a stop that gave up are the cases
\* in which the code does not manage this.
StartedIsHooked ==
    winPc = "idle" /\ capture # Null /\ active[capture] /\ gaveUp = {} /\ unhooked = {} =>
        /\ thread[capture] # Null
        /\ hooks[thread[capture]] = BothHooks
        /\ gCapture = capture
        /\ \A t \in Thread \ {thread[capture]} : ~Running(t)

\* No hook thread works for a capture that was destroyed, or finds g_capture
\* cleared between its look at it and its use, unless a stop gave up on one;
\* and when the window is gone neither a hook thread nor the accept thread is
\* left to use its members.
DestroyedIsUnreferenced ==
    /\ gaveUp = {} /\ unhooked = {} =>
        /\ \A t \in Thread : Running(t) => life[hookFor[t]] = "alive"
        /\ \A t \in Thread : hookPc[t] = "event" => gCapture = hookFor[t]
        /\ gCapture # Null => life[gCapture] = "alive"
        /\ winPc = "gone" => \A t \in Thread : ~Running(t)
    /\ winPc = "gone" => accepting = "none"

\* What the network is told can be reached: while the advertiser runs, and so
\* whenever it may announce, a listener accepts on the port it names, and what
\* the network remembers is that port.  Only a stopped coordinator leaves a
\* stale record, since no goodbye is sent.
AdvertisedIsListening ==
    advert # 0 =>
        /\ listening = advert
        /\ accepting # "none"
        /\ known = advert

\* A stopped coordinator leaves the audio device alone: once no coordinator is
\* left the renderer is stopped, except when a frame's handler ran between the
\* renderer's stop and the join.
RendererRests ==
    coordinator = 0 /\ running => late

==============================================================================
