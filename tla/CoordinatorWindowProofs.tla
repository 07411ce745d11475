------------------------ MODULE CoordinatorWindowProofs ------------------------
(***************************************************************************)
(* Proofs about CoordinatorWindow, for any captures, threads, ports,       *)
(* formats and buffer sizes.                                               *)
(***************************************************************************)
EXTENDS CoordinatorWindow, TLAPS

USE CaptureAssumption, RendererAssumption, WindowAssumption

\* Where the main thread is while there is a coordinator, a capture and an
\* advertiser.
PlaceInv ==
    /\ winPc \in {"advertise", "makeCapture", "stopListener", "join"} => coordinator # 0
    /\ winPc = "gone" => coordinator = 0
    /\ capture # Null <=> coordinator # 0 /\ winPc \notin {"advertise", "makeCapture"}
    /\ winPc \in {"awaitReady", "stopCapture", "awaitThread"} => capture # Null

\* The listener and its thread are there for as long as the coordinator is, but for
\* the end of stop, and the advertiser only when they are.
ListenInv ==
    /\ coordinator = 0 => listening = 0 /\ accepting = "none"
    /\ winPc = "join" => listening = 0
    /\ coordinator # 0 /\ winPc # "join" => listening = coordinator /\ accepting # "none"
    /\ advert # 0 =>
           /\ advert = coordinator
           /\ known = advert
           /\ winPc \notin {"advertise", "stopListener", "join", "gone"}

\* A renderer that runs after its stop was started late.
RestInv ==
    running /\ (coordinator = 0 \/ winPc \in {"stopMdns", "stopListener", "join"}) => late

WindowInv == PlaceInv /\ ListenInv /\ RestInv

------------------------------------------------------------------------------
(* Types. *)

\* render never writes more than the buffer has room for.
LEMMA WrittenFits ==
  ASSUME NEW size \in Size, NEW held \in 0 .. BufferFrames
  PROVE  /\ Written(size, held) \in Nat
         /\ held + Written(size, held) \in 0 .. BufferFrames
<1>1. size \in Nat /\ held \in Nat /\ BufferFrames \in Nat
  OBVIOUS
<1> QED BY <1>1 DEF Written

\* A stopped renderer is one of the renderer's states.
LEMMA RendererStopType ==
  ASSUME RendererStop
  PROVE  RendererTypeOK'
<1>1. running' = FALSE /\ format' = Silent /\ padding' = 0
  BY DEF RendererStop
<1>2. 0 \in 0 .. BufferFrames
  OBVIOUS
<1>3. running' \in BOOLEAN
  BY <1>1
<1> QED BY <1>1, <1>2, <1>3 DEF RendererTypeOK

\* The handler of an audio frame keeps the renderer's types.
LEMMA RenderType ==
  ASSUME RendererTypeOK, NEW f \in Format, NEW size \in Size, NEW ok \in BOOLEAN,
         StartAndRender(f, size, ok) \/ RenderMore(f, size, ok)
  PROVE  RendererTypeOK'
<1>1. CASE RendererStop
  BY <1>1, RendererStopType
<1>2. CASE StartAndRender(f, size, ok) /\ ~RendererStop
  <2>1. Written(size, 0) \in 0 .. BufferFrames
    BY WrittenFits
  <2> QED BY <1>2, <2>1 DEF StartAndRender, RendererTypeOK
<1>3. CASE RenderMore(f, size, ok) /\ ~RendererStop
  <2>1. padding + Written(size, padding) \in 0 .. BufferFrames
    BY WrittenFits DEF RendererTypeOK
  <2> QED BY <1>3, <2>1 DEF RenderMore, RendererTypeOK
<1> QED BY <1>1, <1>2, <1>3

\* A hook thread keeps the capture's types.
LEMMA HookType ==
  ASSUME CaptureTypeOK, NEW t \in Thread, HookStep(t)
  PROVE  CaptureTypeOK'
<1> USE DEF CaptureTypeOK, Goto, objectVars
<1>1. CASE Publish(t)
  BY <1>1 DEF Publish
<1>2. CASE SetHooks(t)
  BY <1>2 DEF SetHooks
<1>3. CASE SignalReady(t)
  BY <1>3 DEF SignalReady
<1>4. CASE CheckHooks(t)
  BY <1>4 DEF CheckHooks
<1>5. CASE Abort(t)
  BY <1>5 DEF Abort
<1>6. CASE TakeEvent(t) \/ Emit(t) \/ EmitReturns(t) \/ LeaveLoop(t)
  BY <1>6 DEF TakeEvent, Emit, EmitReturns, LeaveLoop
<1>7. CASE Unhook(t)
  BY <1>7 DEF Unhook
<1>8. CASE Clear(t)
  BY <1>8 DEF Clear
<1> QED BY <1>1, <1>2, <1>3, <1>4, <1>5, <1>6, <1>7, <1>8 DEF HookStep

\* So do the main thread's calls.
LEMMA CallType ==
  ASSUME CaptureTypeOK, NEW c \in Capture,
         \/ Construct(c) \/ PostQuit(c) \/ CloseThread(c) \/ Destroy(c)
         \/ \E t \in Thread : StartThread(c, t)
  PROVE  CaptureTypeOK'
<1> USE DEF CaptureTypeOK, threadVars
<1>1. CASE Construct(c)
  BY <1>1 DEF Construct
<1>2. CASE PostQuit(c)
  BY <1>2 DEF PostQuit
<1>3. CASE CloseThread(c)
  BY <1>3 DEF CloseThread
<1>4. CASE Destroy(c)
  BY <1>4 DEF Destroy
<1>5. ASSUME NEW t \in Thread, StartThread(c, t)
      PROVE  CaptureTypeOK'
  BY <1>5 DEF StartThread
<1> QED BY <1>1, <1>2, <1>3, <1>4, <1>5

\* What the window's own variables may be.
WindowTypeOK ==
    /\ winPc \in {"idle", "advertise", "makeCapture", "awaitReady", "stopCapture", "awaitThread",
                  "stopRenderer", "stopMdns", "stopListener", "join", "gone"}
    /\ waitFor \in {"none", "toggle", "start", "close"}
    /\ closing \in BOOLEAN
    /\ coordinator \in Port \cup {0}
    /\ listening \in Port \cup {0}
    /\ accepting \in {"none", "select", "session", "handler"}
    /\ advert \in Port \cup {0}
    /\ known \in Port \cup {0}
    /\ capture \in Capture \cup {Null}
    /\ late \in BOOLEAN

\* The steps of the main thread, the accept thread and the network, by what they
\* do to the capture and the renderer.
QuietStep ==
    \/ \E p \in Port : StartListener(p)
    \/ StartAdvertiser
    \/ RecordsExpire
    \/ ToggleReady \/ ToggleFails \/ ToggleOff
    \/ \E destroying \in BOOLEAN : Stop(destroying)
    \/ StopMdns \/ StopListener
    \/ SessionUp \/ SessionDown \/ LeaveAcceptLoop \/ FrameArrives \/ HandleOther
    \/ \E codec \in Codec : RefuseCodec(codec)

LEMMA QuietKeeps ==
  ASSUME QuietStep
  PROVE  UNCHANGED captureVars /\ UNCHANGED rendererVars
  BY DEF QuietStep, StartListener, StartAdvertiser, RecordsExpire, ToggleReady, ToggleFails,
         ToggleOff, Stop, StopMdns, AfterMdns, StopListener, SessionUp, SessionDown,
         LeaveAcceptLoop, FrameArrives, HandleOther, RefuseCodec, Accepting

LEMMA QuietType ==
  ASSUME WindowTypeOK, QuietStep
  PROVE  WindowTypeOK'
<1> USE DEF WindowTypeOK, coordinatorVars, mdnsVars, mainVars
<1>1. ASSUME NEW p \in Port, StartListener(p)
      PROVE  WindowTypeOK'
  BY <1>1 DEF StartListener
<1>2. CASE StartAdvertiser \/ RecordsExpire
  BY <1>2 DEF StartAdvertiser, Announce, RecordsExpire
<1>3. CASE ToggleReady \/ ToggleFails \/ ToggleOff
  BY <1>3 DEF ToggleReady, ToggleFails, ToggleOff
<1>4. ASSUME NEW destroying \in BOOLEAN, Stop(destroying)
      PROVE  WindowTypeOK'
  BY <1>4 DEF Stop
<1>5. CASE StopMdns \/ StopListener
  BY <1>5 DEF StopMdns, AfterMdns, StopListener
<1>6. CASE SessionUp \/ SessionDown \/ LeaveAcceptLoop \/ FrameArrives \/ HandleOther
           \/ \E codec \in Codec : RefuseCodec(codec)
  BY <1>6 DEF SessionUp, SessionDown, LeaveAcceptLoop, FrameArrives, HandleOther,
              RefuseCodec, Accepting
<1> QED BY <1>1, <1>2, <1>3, <1>4, <1>5, <1>6 DEF QuietStep

\* The steps that call the capture or the renderer, one by one.
LEMMA NextType ==
  ASSUME TypeOK, PlaceInv, [Next]_vars
  PROVE  TypeOK'
<1>a. TypeOK <=> CaptureTypeOK /\ RendererTypeOK /\ WindowTypeOK
  BY DEF TypeOK, WindowTypeOK
<1>b. (TypeOK <=> CaptureTypeOK /\ RendererTypeOK /\ WindowTypeOK)'
  BY DEF TypeOK, WindowTypeOK
<1>c. UNCHANGED captureVars => CaptureTypeOK'
  BY <1>a DEF captureVars, objectVars, threadVars, CaptureTypeOK
<1>d. UNCHANGED rendererVars => RendererTypeOK'
  BY <1>a DEF rendererVars, RendererTypeOK
<1>e. capture # Null => capture \in Capture
  BY <1>a DEF WindowTypeOK
<1> USE DEF WindowTypeOK, coordinatorVars, mdnsVars, mainVars
<1>1. CASE QuietStep
  BY <1>1, <1>a, <1>b, <1>c, <1>d, QuietKeeps, QuietType
<1>2. ASSUME NEW c \in Capture, MakeCapture(c)
      PROVE  TypeOK'
  <2>1. Construct(c) /\ UNCHANGED rendererVars /\ WindowTypeOK'
    BY <1>2, <1>a DEF MakeCapture
  <2> QED BY <1>a, <1>b, <1>d, <2>1, CallType
<1>3. ASSUME NEW t \in Thread, ToggleOn(t)
      PROVE  TypeOK'
  <2>1. /\ StartThread(capture, t) /\ capture \in Capture
        /\ UNCHANGED rendererVars /\ WindowTypeOK'
    BY <1>3, <1>a, <1>e DEF ToggleOn
  <2> QED BY <1>a, <1>b, <1>d, <2>1, CallType
<1>4. CASE StopCapture
  <2>1. PostQuit(capture) /\ capture \in Capture /\ UNCHANGED rendererVars /\ WindowTypeOK'
    BY <1>4, <1>a, <1>e DEF StopCapture, PlaceInv
  <2> QED BY <1>a, <1>b, <1>d, <2>1, CallType
<1>5. CASE AwaitThread
  <2>1. CloseThread(capture) /\ capture \in Capture /\ UNCHANGED rendererVars /\ WindowTypeOK'
    BY <1>5, <1>a, <1>e DEF AwaitThread, AfterThread, PlaceInv
  <2> QED BY <1>a, <1>b, <1>d, <2>1, CallType
<1>6. CASE StopRenderer
  <2>1. RendererStop /\ UNCHANGED captureVars /\ WindowTypeOK'
    BY <1>6, <1>a DEF StopRenderer
  <2> QED BY <1>b, <1>c, <2>1, RendererStopType
<1>7. CASE Join
  <2>1. Destroy(capture) /\ capture \in Capture /\ UNCHANGED rendererVars /\ WindowTypeOK'
    BY <1>7, <1>a, <1>e DEF Join, PlaceInv
  <2> QED BY <1>a, <1>b, <1>d, <2>1, CallType
<1>8. ASSUME NEW f \in Format, NEW size \in Size, NEW ok \in BOOLEAN, HandleAudio(f, size, ok)
      PROVE  TypeOK'
  <2>1. RendererTypeOK'
    BY <1>8, <1>a, RenderType DEF HandleAudio
  <2>2. UNCHANGED captureVars
    BY <1>8 DEF HandleAudio, Accepting
  <2>3. late' \in BOOLEAN
    BY <1>8 DEF HandleAudio
  <2>4. WindowTypeOK'
    BY <1>8, <1>a, <2>3 DEF HandleAudio, Accepting
  <2> QED BY <1>b, <1>c, <2>1, <2>2, <2>4
<1>9. CASE DevicePlays
  <2>1. RendererTypeOK'
    BY <1>9, <1>a DEF DevicePlays, Play, RendererTypeOK
  <2>2. UNCHANGED captureVars /\ WindowTypeOK'
    BY <1>9, <1>a DEF DevicePlays
  <2> QED BY <1>b, <1>c, <2>1, <2>2
<1>10. ASSUME NEW t \in Thread, HookThread(t)
       PROVE  TypeOK'
  <2>1. HookStep(t) /\ UNCHANGED rendererVars /\ WindowTypeOK'
    BY <1>10, <1>a DEF HookThread
  <2> QED BY <1>a, <1>b, <1>d, <2>1, HookType
<1>11. CASE UNCHANGED vars
  BY <1>11, <1>a, <1>b, <1>c, <1>d DEF vars
<1> QED BY <1>1, <1>2, <1>3, <1>4, <1>5, <1>6, <1>7, <1>8, <1>9, <1>10, <1>11
        DEF Next, QuietStep

------------------------------------------------------------------------------
(* The window, its listener and its renderer. *)

\* The steps that leave all of it alone.
LEMMA InnerKeeps ==
  ASSUME DevicePlays \/ \E t \in Thread : HookThread(t)
  PROVE  /\ UNCHANGED <<mainVars, coordinatorVars, mdnsVars, capture, late>>
         /\ running' = running
  BY DEF DevicePlays, Play, HookThread, rendererVars

\* The main thread keeps its place with the coordinator, the capture and the advertiser.
LEMMA NextPlace ==
  ASSUME TypeOK, WindowInv, [Next]_vars
  PROVE  PlaceInv' /\ ListenInv'
<1> USE DEF TypeOK, WindowInv, PlaceInv, ListenInv, coordinatorVars, mdnsVars, mainVars
<1>1. ASSUME NEW p \in Port, StartListener(p)
      PROVE  PlaceInv' /\ ListenInv'
  BY <1>1 DEF StartListener
<1>2. CASE StartAdvertiser \/ RecordsExpire
  BY <1>2 DEF StartAdvertiser, Announce, RecordsExpire
<1>3. ASSUME NEW c \in Capture, MakeCapture(c)
      PROVE  PlaceInv' /\ ListenInv'
  BY <1>3 DEF MakeCapture
<1>4. ASSUME NEW t \in Thread, ToggleOn(t)
      PROVE  PlaceInv' /\ ListenInv'
  BY <1>4 DEF ToggleOn
<1>5. CASE ToggleReady \/ ToggleFails \/ ToggleOff
  BY <1>5 DEF ToggleReady, ToggleFails, ToggleOff
<1>6. ASSUME NEW destroying \in BOOLEAN, Stop(destroying)
      PROVE  PlaceInv' /\ ListenInv'
  BY <1>6 DEF Stop
<1>7. CASE StopCapture \/ AwaitThread \/ StopRenderer
  BY <1>7 DEF StopCapture, AwaitThread, AfterThread, StopRenderer
<1>8. CASE StopMdns
  BY <1>8 DEF StopMdns, AfterMdns
<1>9. CASE StopListener
  BY <1>9 DEF StopListener
<1>10. CASE Join
  BY <1>10 DEF Join
<1>11. CASE SessionUp \/ SessionDown \/ LeaveAcceptLoop \/ FrameArrives \/ HandleOther
            \/ \E codec \in Codec : RefuseCodec(codec)
  BY <1>11 DEF SessionUp, SessionDown, LeaveAcceptLoop, FrameArrives, HandleOther,
               RefuseCodec, Accepting
<1>12. ASSUME NEW f \in Format, NEW size \in Size, NEW ok \in BOOLEAN, HandleAudio(f, size, ok)
       PROVE  PlaceInv' /\ ListenInv'
  BY <1>12 DEF HandleAudio, Accepting
<1>13. CASE DevicePlays \/ (\E t \in Thread : HookThread(t))
  BY <1>13, InnerKeeps
<1>14. CASE UNCHANGED vars
  BY <1>14 DEF vars
<1> QED BY <1>1, <1>2, <1>3, <1>4, <1>5, <1>6, <1>7, <1>8, <1>9, <1>10, <1>11, <1>12,
           <1>13, <1>14 DEF Next

\* The renderer stays stopped, but for a late start.
LEMMA NextRest ==
  ASSUME TypeOK, WindowInv, [Next]_vars
  PROVE  RestInv'
<1> USE DEF TypeOK, WindowInv, RestInv, coordinatorVars, mdnsVars, mainVars, rendererVars
<1>1. ASSUME NEW p \in Port, StartListener(p)
      PROVE  RestInv'
  BY <1>1 DEF StartListener
<1>2. CASE StartAdvertiser \/ RecordsExpire \/ (\E c \in Capture : MakeCapture(c))
  BY <1>2 DEF StartAdvertiser, RecordsExpire, MakeCapture
<1>3. CASE (\E t \in Thread : ToggleOn(t)) \/ ToggleReady \/ ToggleFails \/ ToggleOff
  BY <1>3 DEF ToggleOn, ToggleReady, ToggleFails, ToggleOff
<1>4. ASSUME NEW destroying \in BOOLEAN, Stop(destroying)
      PROVE  RestInv'
  BY <1>4 DEF Stop
<1>5. CASE StopCapture \/ AwaitThread
  BY <1>5 DEF StopCapture, AwaitThread, AfterThread
<1>6. CASE StopRenderer
  BY <1>6 DEF StopRenderer, RendererStop
<1>7. CASE StopMdns \/ StopListener \/ Join
  BY <1>7 DEF StopMdns, AfterMdns, StopListener, Join
<1>8. CASE SessionUp \/ SessionDown \/ LeaveAcceptLoop \/ FrameArrives \/ HandleOther
           \/ \E codec \in Codec : RefuseCodec(codec)
  BY <1>8 DEF SessionUp, SessionDown, LeaveAcceptLoop, FrameArrives, HandleOther,
              RefuseCodec, Accepting
<1>9. ASSUME NEW f \in Format, NEW size \in Size, NEW ok \in BOOLEAN, HandleAudio(f, size, ok)
      PROVE  RestInv'
  <2>1. accepting = "handler" /\ coordinator # 0 /\ coordinator' = coordinator /\ winPc' = winPc
    BY <1>9 DEF HandleAudio, Accepting, ListenInv
  <2>2. late => late'
    BY <1>9 DEF HandleAudio
  <2>3. winPc \in {"stopMdns", "stopListener", "join"} /\ running' => running \/ late'
    BY <1>9 DEF HandleAudio
  <2> QED BY <2>1, <2>2, <2>3
<1>10. CASE DevicePlays \/ (\E t \in Thread : HookThread(t))
  BY <1>10, InnerKeeps
<1>11. CASE UNCHANGED vars
  BY <1>11 DEF vars
<1> QED BY <1>1, <1>2, <1>3, <1>4, <1>5, <1>6, <1>7, <1>8, <1>9, <1>10, <1>11 DEF Next

\* The window before anything is started.
LEMMA InitInv == Init => TypeOK /\ WindowInv
<1> SUFFICES ASSUME Init
             PROVE  TypeOK /\ WindowInv
  OBVIOUS
<1>1. CaptureTypeOK
  BY DEF Init, CaptureInit, CaptureTypeOK
<1>2. RendererTypeOK
  <2>1. running = FALSE /\ format = Silent /\ padding = 0
    BY DEF Init, RendererInit
  <2>2. 0 \in 0 .. BufferFrames
    OBVIOUS
  <2>3. running \in BOOLEAN
    BY <2>1
  <2> QED BY <2>1, <2>2, <2>3 DEF RendererTypeOK
<1>3. WindowTypeOK
  <2>1. closing \in BOOLEAN /\ late \in BOOLEAN
    BY DEF Init
  <2> QED BY <2>1 DEF Init, WindowTypeOK
<1>4. PlaceInv /\ ListenInv
  BY DEF Init, PlaceInv, ListenInv
<1>5. RestInv
  BY DEF Init, RendererInit, RestInv
<1> QED BY <1>1, <1>2, <1>3, <1>4, <1>5 DEF TypeOK, WindowTypeOK, WindowInv

LEMMA NextInv == TypeOK /\ WindowInv /\ [Next]_vars => TypeOK' /\ WindowInv'
  BY NextType, NextPlace, NextRest DEF WindowInv

\* Every variable of the window, the capture and the renderer keeps its type; the
\* render buffer is never overfilled.
THEOREM WindowTypes == Spec => []TypeOK
  BY InitInv, NextInv, PTL DEF Spec

\* CoordinatorWindow advertises a port only while its coordinator accepts on it.
THEOREM AdvertisedListens == Spec => []AdvertisedIsListening
<1>1. TypeOK /\ WindowInv => AdvertisedIsListening
  BY DEF WindowInv, ListenInv, AdvertisedIsListening, TypeOK
<1> QED BY <1>1, InitInv, NextInv, PTL DEF Spec

\* After stop_coordinator the renderer rests, unless a frame's handler came between.
THEOREM RendererAtRest == Spec => []RendererRests
<1>1. WindowInv => RendererRests
  BY DEF WindowInv, RestInv, RendererRests
<1> QED BY <1>1, InitInv, NextInv, PTL DEF Spec

------------------------------------------------------------------------------
(* Phone Control: the capture, its thread and its hooks, as long as no stop gave *)
(* up on a thread and no hook was refused.                                      *)

\* A thread that has published its capture and not cleared it.
Published == {"hook", "signal", "check", "abort", "loop", "event", "sending", "unhook", "clear"}
Hooked == {"signal", "check", "loop", "event", "sending"}

\* What the main thread knows of its capture, by its place.
MainInv ==
    /\ \A c \in Capture \ {capture} : thread[c] = Null /\ ~active[c]
    /\ capture # Null => life[capture] = "alive"
    /\ capture # Null /\ winPc \in {"idle", "awaitReady", "stopCapture"} =>
           IF active[capture]
           THEN thread[capture] \in Thread /\ Running(thread[capture])
           ELSE thread[capture] = Null
    /\ capture # Null /\ winPc \in {"stopRenderer", "stopMdns", "stopListener", "join"} =>
           thread[capture] = Null /\ ~active[capture]
    /\ winPc = "awaitThread" => ~active[capture]
    /\ winPc = "idle" /\ capture # Null /\ active[capture] => ready[capture] = "set"

\* What a hook thread knows of its capture, by its place.
ThreadInv ==
    /\ gCapture # Null => \E t \in Thread : hookPc[t] \in Published /\ gCapture = hookFor[t]
    /\ \A t \in Thread :
           /\ Running(t) => capture # Null /\ hookFor[t] = capture /\ thread[capture] = t
           /\ quit[t] => Running(t) /\ winPc = "awaitThread"
           /\ hookPc[t] \in {"unhook", "clear"} => quit[t]
           /\ hookPc[t] # "abort"
           /\ hookPc[t] \in Hooked => hooks[t] = BothHooks
           /\ hookPc[t] \in Published => gCapture = hookFor[t]
           /\ hookPc[t] \in {"new", "hook", "signal"} => ready[hookFor[t]] # "set"

Regular == gaveUp = {} /\ unhooked = {}
HookInv == Regular => MainInv /\ ThreadInv

\* A hook thread keeps both, unless its hooks are refused.
LEMMA HookStepInv ==
  ASSUME TypeOK, WindowInv, MainInv, ThreadInv, Regular', NEW t \in Thread, HookThread(t)
  PROVE  MainInv' /\ ThreadInv'
<1> USE DEF TypeOK, CaptureTypeOK, MainInv, ThreadInv, HookThread, Goto, Running, Published,
            Hooked, objectVars, mainVars
<1>1. CASE Publish(t)
  BY <1>1 DEF Publish
<1>2. CASE SetHooks(t)
  <2>1. hooks' = [hooks EXCEPT ![t] = BothHooks]
    BY <1>2 DEF SetHooks, Regular
  <2> QED BY <1>2, <2>1 DEF SetHooks
<1>3. CASE SignalReady(t)
  BY <1>3 DEF SignalReady
<1>4. CASE CheckHooks(t)
  BY <1>4 DEF CheckHooks
<1>5. CASE Abort(t)
  BY <1>5 DEF Abort
<1>6. CASE TakeEvent(t) \/ EmitReturns(t) \/ LeaveLoop(t)
  BY <1>6 DEF TakeEvent, EmitReturns, LeaveLoop
<1>7. CASE Emit(t)
  BY <1>7 DEF Emit
<1>8. CASE Unhook(t)
  BY <1>8 DEF Unhook
<1>9. CASE Clear(t)
  BY <1>9 DEF Clear
<1> QED BY <1>1, <1>2, <1>3, <1>4, <1>5, <1>6, <1>7, <1>8, <1>9 DEF HookStep

\* The steps that are not about the capture keep both.
LEMMA QuietStepInv ==
  ASSUME TypeOK, WindowInv, MainInv, ThreadInv,
         QuietStep \/ StopRenderer \/ DevicePlays \/ UNCHANGED vars
         \/ \E f \in Format, size \in Size, ok \in BOOLEAN : HandleAudio(f, size, ok)
  PROVE  MainInv' /\ ThreadInv'
<1>1. UNCHANGED captureVars
  BY QuietKeeps DEF StopRenderer, DevicePlays, HandleAudio, Accepting, vars
<1>2. capture' = capture
  BY DEF QuietStep, StartListener, StartAdvertiser, RecordsExpire, ToggleReady, ToggleFails,
         ToggleOff, Stop, StopMdns, AfterMdns, StopListener, SessionUp, SessionDown,
         LeaveAcceptLoop, FrameArrives, HandleOther, RefuseCodec, Accepting,
         StopRenderer, DevicePlays, HandleAudio, vars
<1>3. \/ winPc' = winPc
      \/ winPc' \notin {"idle", "awaitReady", "stopCapture", "stopRenderer", "stopMdns",
                        "stopListener", "join", "awaitThread"} /\ winPc # "awaitThread"
      \/ capture = Null /\ winPc # "awaitThread" /\ winPc' # "awaitThread"
      \/ winPc \in {"idle", "awaitReady"} /\ winPc' = "stopCapture"
      \/ winPc = "awaitReady" /\ winPc' = "idle" /\ ready[capture] = "set" /\ active[capture]
      \/ /\ winPc \in {"stopRenderer", "stopMdns", "stopListener"}
         /\ winPc' \in {"stopMdns", "stopListener", "join"}
  BY DEF QuietStep, StartListener, StartAdvertiser, RecordsExpire, ToggleReady, ToggleFails,
         ToggleOff, Stop, StopMdns, AfterMdns, StopListener, SessionUp, SessionDown,
         LeaveAcceptLoop, FrameArrives, HandleOther, RefuseCodec, Accepting,
         StopRenderer, DevicePlays, HandleAudio, vars, mainVars, WindowInv, PlaceInv,
         StartSucceeds
<1> QED BY <1>1, <1>2, <1>3
        DEF captureVars, objectVars, threadVars, MainInv, ThreadInv, Running, Published, Hooked

\* The main thread's calls keep both, unless a stop gives up.
LEMMA MainStepInv ==
  ASSUME TypeOK, WindowInv, MainInv, ThreadInv, Regular',
         \/ \E c \in Capture : MakeCapture(c)
         \/ \E t \in Thread : ToggleOn(t)
         \/ StopCapture \/ AwaitThread \/ Join
  PROVE  MainInv' /\ ThreadInv'
<1> USE DEF TypeOK, CaptureTypeOK, MainInv, ThreadInv, Running, Published, Hooked,
            threadVars, WindowInv, PlaceInv
<1>1. ASSUME NEW c \in Capture, MakeCapture(c)
      PROVE  MainInv' /\ ThreadInv'
  BY <1>1 DEF MakeCapture, Construct
<1>2. ASSUME NEW t \in Thread, ToggleOn(t)
      PROVE  MainInv' /\ ThreadInv'
  BY <1>2 DEF ToggleOn, StartThread
<1>3. CASE StopCapture
  BY <1>3 DEF StopCapture, PostQuit
<1>4. CASE AwaitThread
  <2>1. \A t \in Thread : ~Running(t)
    <3>1. thread[capture] = Null \/ hookPc[thread[capture]] = "exited"
      BY <1>4 DEF AwaitThread, AfterThread, CloseThread, Regular
    <3> QED BY <3>1
  <2> QED BY <1>4, <2>1 DEF AwaitThread, AfterThread, CloseThread
<1>5. CASE Join
  BY <1>5 DEF Join, Destroy
<1> QED BY <1>1, <1>2, <1>3, <1>4, <1>5

\* An irregularity is never forgotten.
LEMMA RegularBefore ==
  ASSUME [Next]_vars, Regular'
  PROVE  Regular
<1> USE DEF Regular
<1>1. CASE QuietStep \/ UNCHANGED vars
  BY <1>1, QuietKeeps DEF captureVars, vars
<1>2. ASSUME NEW c \in Capture, MakeCapture(c)
      PROVE  Regular
  BY <1>2 DEF MakeCapture, Construct
<1>3. ASSUME NEW t \in Thread, ToggleOn(t)
      PROVE  Regular
  BY <1>3 DEF ToggleOn, StartThread
<1>4. CASE StopCapture \/ AwaitThread \/ Join \/ StopRenderer \/ DevicePlays
  BY <1>4 DEF StopCapture, PostQuit, AwaitThread, AfterThread, CloseThread, Join, Destroy,
              StopRenderer, DevicePlays, captureVars
<1>5. ASSUME NEW f \in Format, NEW size \in Size, NEW ok \in BOOLEAN, HandleAudio(f, size, ok)
      PROVE  Regular
  BY <1>5 DEF HandleAudio, Accepting, captureVars
<1>6. ASSUME NEW t \in Thread, HookThread(t)
      PROVE  Regular
  BY <1>6 DEF HookThread, HookStep, Publish, SetHooks, SignalReady, CheckHooks, Abort,
              TakeEvent, Emit, EmitReturns, LeaveLoop, Unhook, Clear
<1> QED BY <1>1, <1>2, <1>3, <1>4, <1>5, <1>6 DEF Next, QuietStep

LEMMA NextHook == TypeOK /\ WindowInv /\ HookInv /\ [Next]_vars => HookInv'
<1> SUFFICES ASSUME TypeOK, WindowInv, HookInv, [Next]_vars, Regular'
             PROVE  MainInv' /\ ThreadInv'
  BY DEF HookInv
<1>1. MainInv /\ ThreadInv
  BY RegularBefore DEF HookInv
<1> QED BY <1>1, HookStepInv, QuietStepInv, MainStepInv DEF Next, QuietStep

LEMMA InitHook == Init => HookInv
  BY DEF Init, CaptureInit, HookInv, MainInv, ThreadInv, Running, Published, Hooked

\* A Phone Control that shows as active captures: its thread has both hooks, and no
\* other is left to deliver an event twice, as long as every stop saw its thread
\* end and every hook was granted.
THEOREM ActiveIsHooked == Spec => []StartedIsHooked
<1>1. TypeOK /\ HookInv => StartedIsHooked
  <2> SUFFICES ASSUME TypeOK, MainInv, ThreadInv,
                      winPc = "idle", capture # Null, active[capture]
               PROVE  /\ thread[capture] # Null
                      /\ hooks[thread[capture]] = BothHooks
                      /\ gCapture = capture
                      /\ \A t \in Thread \ {thread[capture]} : ~Running(t)
    BY DEF StartedIsHooked, HookInv, Regular
  <2> DEFINE t == thread[capture]
  <2>1. t \in Thread /\ t # Null /\ Running(t) /\ hookFor[t] = capture
    BY DEF MainInv, ThreadInv
  <2>2. hookPc[t] \in Hooked
    BY <2>1 DEF MainInv, ThreadInv, TypeOK, CaptureTypeOK, Running, Hooked
  <2>3. hooks[t] = BothHooks /\ gCapture = capture
    BY <2>1, <2>2 DEF ThreadInv, Hooked, Published
  <2>4. \A u \in Thread \ {t} : ~Running(u)
    BY DEF ThreadInv
  <2> QED BY <2>1, <2>3, <2>4
<1> QED BY <1>1, InitInv, InitHook, NextInv, NextHook, PTL DEF Spec

\* A destroyed capture is not used by a hook thread, and a destroyed window by no
\* thread at all.
THEOREM NoUseAfterDestroy == Spec => []DestroyedIsUnreferenced
<1>1. TypeOK /\ WindowInv /\ HookInv => DestroyedIsUnreferenced
  <2> SUFFICES ASSUME TypeOK, WindowInv, HookInv
               PROVE  DestroyedIsUnreferenced
    OBVIOUS
  <2>1. winPc = "gone" => accepting = "none" /\ capture = Null
    BY DEF WindowInv, PlaceInv, ListenInv
  <2>2. ASSUME Regular
        PROVE  /\ \A t \in Thread : Running(t) => life[hookFor[t]] = "alive"
               /\ \A t \in Thread : hookPc[t] = "event" => gCapture = hookFor[t]
               /\ gCapture # Null => life[gCapture] = "alive"
               /\ winPc = "gone" => \A t \in Thread : ~Running(t)
    BY <2>1, <2>2 DEF HookInv, MainInv, ThreadInv, Published, Running
  <2> QED BY <2>1, <2>2 DEF DestroyedIsUnreferenced, Regular
<1> QED BY <1>1, InitInv, InitHook, NextInv, NextHook, PTL DEF Spec
===============================================================================
