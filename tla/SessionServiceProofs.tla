------------------------- MODULE SessionServiceProofs -------------------------
(* Proofs about SessionService, for every set of devices and attempts. *)
EXTENDS SessionService, SessionMachineProofs, TLAPS

USE ServiceAssumption

\* The events the service applies: it never applies STOP or CLOSED.
ServiceEvents == Events \ {"STOP", "CLOSED"}

\* The session is, or is shown as, established.
Established(s) == s.machine.state = "ESTABLISHED" \/ s.ui = "ESTABLISHED"

\* SessionManager.apply keeps a session a session, never stops it, does nothing
\* once it is stopped, and establishes it on two events only.
LEMMA AfterFacts ==
    ASSUME NEW s \in Sessions, NEW event \in ServiceEvents
    PROVE  /\ After(s, event) \in Sessions
           /\ After(s, event).stopped = s.stopped
           /\ ~s.machine.stopped => ~After(s, event).machine.stopped
           /\ s.stopped /\ event # "BEGIN_DISCOVERY" => After(s, event) = s
           /\ event \notin {"IDENTITY_MATCHES", "PAIRING_APPROVED"} /\ Established(After(s, event)) =>
                 Established(s)
<1> DEFINE m == Apply(s.machine, event)
<1>1. s.machine \in Machines /\ s.stopped \in BOOLEAN /\ s.ui \in States
  BY DEF Sessions
<1>2. m \in Machines
  BY <1>1, ApplyFacts DEF ServiceEvents
<1>3. m.state \in States
  BY <1>2 DEF Machines
<1>4. ~s.machine.stopped => ~m.stopped
  BY <1>1, EventFacts DEF ServiceEvents
<1>5. event \notin {"IDENTITY_MATCHES", "PAIRING_APPROVED"} /\ m.state = "ESTABLISHED" =>
         s.machine.state = "ESTABLISHED"
  BY <1>1, EventFacts DEF ServiceEvents
<1>6. CASE (s.stopped => event = "BEGIN_DISCOVERY") /\ Accepts(s.machine, event)
  <2>1. After(s, event) = [s EXCEPT !.machine = m, !.ui = m.state]
    BY <1>6 DEF After
  <2> HIDE DEF m
  <2>2. After(s, event) \in Sessions
    BY <2>1, <1>1, <1>2, <1>3 DEF Sessions
  <2>3. /\ After(s, event).machine = m
        /\ After(s, event).ui = m.state
        /\ After(s, event).stopped = s.stopped
    BY <2>1 DEF Sessions
  <2> QED
    BY <2>2, <2>3, <1>4, <1>5, <1>6 DEF Established
<1>7. CASE ~((s.stopped => event = "BEGIN_DISCOVERY") /\ Accepts(s.machine, event))
  <2>1. After(s, event) = s
    BY <1>7 DEF After
  <2> QED
    BY <2>1
<1> QED
  BY <1>6, <1>7

\* SessionRuntime.update touches what is shown and nothing else.
LEMMA ShownFacts ==
    ASSUME NEW s \in Sessions, NEW state \in States
    PROVE  /\ Shown(s, state) \in Sessions
           /\ Shown(s, state).stopped = s.stopped
           /\ Shown(s, state).machine = s.machine
           /\ state # "ESTABLISHED" /\ Established(Shown(s, state)) => Established(s)
BY DEF Shown, Sessions, Established

\* A failed session is not established unless it was before.
LEMMA FailedFacts ==
    ASSUME NEW s \in Sessions
    PROVE  /\ Failed(s) \in Sessions
           /\ Failed(s).stopped = s.stopped
           /\ ~s.machine.stopped => ~Failed(s).machine.stopped
           /\ s.stopped => Failed(s).machine = s.machine
           /\ Established(Failed(s)) => Established(s)
<1>1. "FAILURE" \in ServiceEvents /\ "FAILED" \in States
  BY DEF ServiceEvents, Events, States
<1>2. After(s, "FAILURE") \in Sessions
  BY <1>1, AfterFacts
<1> QED
  BY <1>1, <1>2, AfterFacts, ShownFacts DEF Failed

\* A step that may change the session, as far as the invariants care: it stays a
\* session, a session that was not stopped is not, and one that was keeps its
\* machine.
Tame(s, t) ==
    /\ t \in Sessions
    /\ t.stopped = s.stopped
    /\ ~s.machine.stopped => ~t.machine.stopped
    /\ s.stopped => t.machine = s.machine

\* Applying an event other than BEGIN_DISCOVERY is tame ...
LEMMA AfterTame ==
    ASSUME NEW s \in Sessions, NEW event \in ServiceEvents \ {"BEGIN_DISCOVERY"}
    PROVE  Tame(s, After(s, event))
BY AfterFacts DEF Tame

\* ... so is an update of what is shown ...
LEMMA ShownTame ==
    ASSUME NEW s, NEW t \in Sessions, NEW state \in States, Tame(s, t)
    PROVE  Tame(s, Shown(t, state))
BY ShownFacts DEF Tame

\* ... and tame steps compose.
LEMMA TameTransitive ==
    ASSUME NEW s \in Sessions, NEW t \in Sessions, NEW u \in Sessions, Tame(s, t), Tame(t, u)
    PROVE  Tame(s, u)
BY DEF Tame

\* What the session does in a step that neither begins, stops nor establishes it.
Calm(s, t) == Tame(s, t) /\ (Established(t) => Established(s))

\* After, Shown and Failed, put together the way the handlers do, are calm.
LEMMA CalmFacts ==
    ASSUME NEW s \in Sessions
    PROVE  /\ Calm(s, s)
           /\ Calm(s, Failed(s))
           /\ Calm(s, Shown(s, "FAILED"))
           /\ \A event \in {"FAILURE", "CANDIDATE_FOUND", "TLS_SUCCEEDED"} : Calm(s, After(s, event))
           /\ Calm(s, Shown(After(s, "TLS_STARTED"), "TLS_HANDSHAKING"))
           /\ Calm(s, Failed(After(s, "TLS_SUCCEEDED")))
           /\ Calm(s, Shown(After(After(s, "TLS_SUCCEEDED"), "PAIRING_NEEDED"), "PAIRING_REQUIRED"))
<1>1. /\ {"FAILURE", "CANDIDATE_FOUND", "TLS_STARTED", "TLS_SUCCEEDED", "PAIRING_NEEDED"}
            \subseteq ServiceEvents \ {"BEGIN_DISCOVERY", "IDENTITY_MATCHES", "PAIRING_APPROVED"}
      /\ {"FAILED", "TLS_HANDSHAKING", "PAIRING_REQUIRED"} \subseteq States \ {"ESTABLISHED"}
  BY DEF ServiceEvents, Events, States
<1>2. \A t \in Sessions : Calm(t, t)
  BY DEF Calm, Tame
<1>3. \A t \in Sessions, event \in ServiceEvents \ {"BEGIN_DISCOVERY", "IDENTITY_MATCHES", "PAIRING_APPROVED"} :
          After(t, event) \in Sessions /\ Calm(t, After(t, event))
  BY AfterTame, AfterFacts DEF Calm
<1>4. \A t \in Sessions, state \in States \ {"ESTABLISHED"} :
          Shown(t, state) \in Sessions /\ Calm(t, Shown(t, state))
  BY <1>2, ShownTame, ShownFacts DEF Calm
<1>5. \A t, u, v \in Sessions : Calm(t, u) /\ Calm(u, v) => Calm(t, v)
  BY TameTransitive DEF Calm
<1>6. ASSUME NEW t \in Sessions, NEW event \in ServiceEvents \ {"BEGIN_DISCOVERY", "IDENTITY_MATCHES", "PAIRING_APPROVED"},
             NEW state \in States \ {"ESTABLISHED"}
      PROVE  Shown(After(t, event), state) \in Sessions /\ Calm(t, Shown(After(t, event), state))
  <2>1. After(t, event) \in Sessions /\ Calm(t, After(t, event))
    BY <1>3
  <2>2. Shown(After(t, event), state) \in Sessions /\ Calm(After(t, event), Shown(After(t, event), state))
    BY <2>1, <1>4
  <2> QED
    BY <2>1, <2>2, <1>5
<1>7. \A t \in Sessions : Failed(t) \in Sessions /\ Calm(t, Failed(t))
  BY <1>1, <1>6 DEF Failed
<1>8. After(s, "TLS_SUCCEEDED") \in Sessions /\ Calm(s, After(s, "TLS_SUCCEEDED"))
  BY <1>1, <1>3
<1>9. Calm(s, Failed(After(s, "TLS_SUCCEEDED")))
  BY <1>5, <1>7, <1>8
<1>10. Calm(s, Shown(After(After(s, "TLS_SUCCEEDED"), "PAIRING_NEEDED"), "PAIRING_REQUIRED"))
  <2>1. /\ Shown(After(After(s, "TLS_SUCCEEDED"), "PAIRING_NEEDED"), "PAIRING_REQUIRED") \in Sessions
        /\ Calm(After(s, "TLS_SUCCEEDED"), Shown(After(After(s, "TLS_SUCCEEDED"), "PAIRING_NEEDED"), "PAIRING_REQUIRED"))
    BY <1>1, <1>6, <1>8
  <2> QED
    BY <1>5, <1>8, <2>1
<1>11. Calm(s, Shown(s, "FAILED")) /\ Calm(s, Shown(After(s, "TLS_STARTED"), "TLS_HANDSHAKING"))
  BY <1>1, <1>4, <1>6
<1>12. \A event \in {"FAILURE", "CANDIDATE_FOUND", "TLS_SUCCEEDED"} : Calm(s, After(s, event))
  BY <1>1, <1>3
<1> QED
  BY <1>2, <1>7, <1>9, <1>10, <1>11, <1>12

\* How a step changes the session.
LEMMA SessionStep ==
    TypeOK /\ [Next]_vars =>
        \/ Calm(session, session')
        \/ /\ ~destroyed
           /\ session' \in Sessions
           /\ session'.stopped = session.stopped
           /\ ~session.machine.stopped => ~session'.machine.stopped
           /\ Established(session') => Established(session)
        \/ Tame(session, session') /\ \E a \in Attempt : ConnectPinned(a)
        \/ /\ Tame(session, session')
           /\ ApprovePairing
           /\ pendingPeer # None
           /\ known' = known \cup {pendingPeer}
        \/ Teardown
<1> SUFFICES ASSUME TypeOK, [Next]_vars
             PROVE  \/ Calm(session, session')
                    \/ /\ ~destroyed
                       /\ session' \in Sessions
                       /\ session'.stopped = session.stopped
                       /\ ~session.machine.stopped => ~session'.machine.stopped
                       /\ Established(session') => Established(session)
                    \/ Tame(session, session') /\ \E a \in Attempt : ConnectPinned(a)
                    \/ /\ Tame(session, session')
                       /\ ApprovePairing
                       /\ pendingPeer # None
                       /\ known' = known \cup {pendingPeer}
                    \/ Teardown
  OBVIOUS
<1> DEFINE begun == After(session, "BEGIN_DISCOVERY")
<1>0. session \in Sessions
  BY DEF TypeOK
<1>1. /\ begun \in Sessions
      /\ begun.stopped = session.stopped
      /\ ~session.machine.stopped => ~begun.machine.stopped
      /\ Established(begun) => Established(session)
  BY <1>0, AfterFacts DEF ServiceEvents, Events
<1>2. CASE \E a \in Attempt, via \in {"manual", "qr"}, d \in Device : BeginEndpoint(a, via, d)
  <2>1. ~destroyed /\ session' = Shown(After(begun, "TLS_STARTED"), "TLS_HANDSHAKING")
    BY <1>2 DEF BeginEndpoint, Begins, Connect
  <2>2. Calm(begun, session')
    BY <2>1, <1>1, CalmFacts
  <2> QED
    BY <2>1, <2>2, <1>1 DEF Calm, Tame
<1>3. CASE BeginBrowse
  <2>1. PICK s \in {begun, Failed(begun)} : session' = Shown(s, "DISCOVERING")
    BY <1>3 DEF BeginBrowse
  <2>2. ~destroyed
    BY <1>3 DEF BeginBrowse, Begins
  <2>3. /\ s \in Sessions
        /\ s.stopped = session.stopped
        /\ ~session.machine.stopped => ~s.machine.stopped
        /\ Established(s) => Established(session)
    BY <1>1, FailedFacts
  <2>4. "DISCOVERING" \in States /\ "DISCOVERING" # "ESTABLISHED"
    BY DEF States
  <2> QED
    BY <2>1, <2>2, <2>3, <2>4, ShownFacts
<1>4. CASE StartFails \/ CaptureFails
  BY <1>4, <1>0, CalmFacts DEF StartFails, CaptureFails, IntentFails
<1>5. CASE TapApprove
  BY <1>5, <1>0, CalmFacts DEF TapApprove
<1>6. CASE ApprovePairing
  <2>1. CASE pendingPeer # None /\ session.machine.state = "PAIRING_REQUIRED"
    <3>1. "PAIRING_APPROVED" \in ServiceEvents \ {"BEGIN_DISCOVERY"} /\ "ESTABLISHED" \in States
      BY DEF ServiceEvents, Events, States
    <3>2. Tame(session, Shown(After(session, "PAIRING_APPROVED"), "ESTABLISHED"))
      BY <1>0, <3>1, AfterTame, AfterFacts, ShownTame
    <3> QED
      BY <1>6, <2>1, <3>2 DEF ApprovePairing
  <2>2. CASE ~(pendingPeer # None /\ session.machine.state = "PAIRING_REQUIRED")
    BY <1>0, <1>6, <2>2, CalmFacts DEF ApprovePairing
  <2> QED
    BY <2>1, <2>2
<1>7. CASE StopSession \/ OnDestroy
  BY <1>0, <1>7, CalmFacts DEF StopSession, OnDestroy, TornDown
<1>8. ASSUME NEW a \in Attempt, RunPosted(a) PROVE Calm(session, session')
  BY <1>8, <1>0, CalmFacts DEF RunPosted, Connect
<1>9. ASSUME NEW a \in Attempt, ConnectCancelled(a) PROVE Calm(session, session')
  BY <1>9, <1>0, CalmFacts DEF ConnectCancelled
<1>10. ASSUME NEW a \in Attempt, ConnectBroken(a) PROVE Calm(session, session')
  BY <1>10, <1>0, CalmFacts DEF ConnectBroken, ConnectFails
<1>11. ASSUME NEW a \in Attempt, ConnectMisled(a) PROVE Calm(session, session')
  BY <1>11, <1>0, CalmFacts DEF ConnectMisled, ConnectFails
<1>12. ASSUME NEW a \in Attempt, ConnectPinned(a) PROVE Tame(session, session')
  <2>1. {"TLS_SUCCEEDED", "IDENTITY_MATCHES"} \subseteq ServiceEvents \ {"BEGIN_DISCOVERY"} /\ "ESTABLISHED" \in States
    BY DEF ServiceEvents, Events, States
  <2> DEFINE s1 == After(session, "TLS_SUCCEEDED")
             s2 == After(s1, "IDENTITY_MATCHES")
  <2>2. s1 \in Sessions /\ Tame(session, s1)
    BY <1>0, <2>1, AfterTame, AfterFacts
  <2>3. s2 \in Sessions /\ Tame(s1, s2)
    BY <2>1, <2>2, AfterTame, AfterFacts
  <2>4. session' = Shown(s2, "ESTABLISHED")
    BY <1>12 DEF ConnectPinned
  <2> HIDE DEF s1, s2
  <2> QED
    BY <1>0, <2>1, <2>2, <2>3, <2>4, ShownTame, TameTransitive
<1>13. ASSUME NEW a \in Attempt, ConnectPrompts(a) PROVE Calm(session, session')
  BY <1>13, <1>0, CalmFacts DEF ConnectPrompts
<1>14. ASSUME NEW a \in Attempt, DialStarts(a) \/ Dial(a) \/ Hello(a) PROVE Calm(session, session')
  BY <1>14, <1>0, CalmFacts
  DEF DialStarts, Dial, DialFails, DialSucceeds, DialRefused, Hello, HelloSucceeds, HelloFails, OutsideConnect
<1>15. ASSUME NEW a \in Attempt, Receive(a) PROVE Calm(session, session')
  BY <1>15, <1>0, CalmFacts DEF Receive, RxEnds, RxFails, RxFailApplies, RxFailReports
<1>16. CASE Nsd
  BY <1>16, <1>0, CalmFacts
  DEF Nsd, NsdResolves, NsdApplies, NsdChecksAgain, NsdLaunches, NsdAssigns, NsdFails, NsdFailApplies, NsdFailReports
<1>17. CASE UNCHANGED vars
  BY <1>17, <1>0, CalmFacts DEF vars
<1> QED
  BY <1>2, <1>3, <1>4, <1>5, <1>6, <1>7, <1>8, <1>9, <1>10, <1>11, <1>12, <1>13, <1>14, <1>15, <1>16, <1>17
  DEF Next, Intents, Coroutine

------------------------------------------------------------------------------
(* The invariant. *)

\* What every step preserves.
IInv == TypeOK /\ ServiceInv

\* A service that was just created satisfies it.
LEMMA InitInv == Init => IInv
<1> SUFFICES ASSUME Init PROVE IInv
  OBVIOUS
<1>1. session \in Sessions /\ session.machine = NewMachine /\ ~session.stopped /\ session.ui = "IDLE"
  BY DEF Init, Sessions, NewMachine, Machines, States
<1>2. TypeOK
  BY <1>1 DEF Init, TypeOK, Phases, Vias, NsdPcs, RxActive, Fingerprints
<1>3. TrustInv
  <2>1. \A d \in Device : KeyFingerprint(d) # None
    BY DEF KeyFingerprint, Fingerprints
  <2> QED
    BY <1>1, <2>1 DEF Init, TrustInv, NotConnected, NewMachine
<1>4. StopInv /\ LoopInv /\ OneReceiver /\ StoppedAtRest /\ EstablishedIsTrusted
  BY <1>1 DEF Init, StopInv, LoopInv, OneReceiver, StoppedAtRest, EstablishedIsTrusted, NewMachine, RxActive
<1> QED
  BY <1>2, <1>3, <1>4 DEF IInv, ServiceInv, Init, PromptIsPending

\* The session stays one, whatever the step.
LEMMA SessionType == TypeOK /\ [Next]_vars => session' \in Sessions
<1> SUFFICES ASSUME TypeOK, [Next]_vars PROVE session' \in Sessions
  OBVIOUS
<1>1. CASE Teardown
  <2>1. session.machine \in Machines
    BY DEF TypeOK, Sessions
  <2>2. Stop(session.machine) \in Machines
    BY <2>1, StopFacts
  <2> QED
    BY <1>1, <2>2 DEF Teardown, Sessions, States
<1> QED
  BY <1>1, SessionStep DEF Calm, Tame

\* Every step keeps the types.
LEMMA TypeStep == TypeOK /\ [Next]_vars => TypeOK'
<1> SUFFICES ASSUME TypeOK, [Next]_vars PROVE TypeOK'
  OBVIOUS
<1>0. session' \in Sessions
  BY SessionType
<1> USE <1>0 DEF TypeOK, lifeVars, uiVars, userVars, jobVars, rxVars, goalVars, socketVars
<1>1. ASSUME NEW a \in Attempt, NEW target \in [via : Vias, device : Device]
      PROVE  Expected(target) \in Fingerprints \cup {None}
  BY DEF Expected, Fingerprints, KeyFingerprint, WindowsFingerprint
<1>2. ASSUME NEW a \in Attempt, NEW via \in {"manual", "qr"}, NEW d \in Device, BeginEndpoint(a, via, d)
      PROVE  TypeOK'
  <2>1. [via |-> via, device |-> d] \in [via : Vias, device : Device]
    BY DEF Vias
  <2>2. Expected([via |-> via, device |-> d]) \in Fingerprints \cup {None}
    BY <1>1, <2>1
  <2> QED
    BY <1>2, <2>1, <2>2 DEF BeginEndpoint, Begins, Connect, Phases
<1>3. CASE BeginBrowse
  BY <1>3 DEF BeginBrowse, Begins
<1>4. CASE StartFails \/ CaptureFails \/ TapApprove
  BY <1>4 DEF StartFails, CaptureFails, IntentFails, TapApprove
<1>5. CASE ApprovePairing
  BY <1>5 DEF ApprovePairing, StartReceiveLoop, RxActive
<1>6. CASE StopSession
  BY <1>6 DEF StopSession, Teardown, ClientStop
<1>7. CASE OnDestroy
  BY <1>7 DEF OnDestroy, Teardown, TornDown, ClientStop
<1>8. ASSUME NEW a \in Attempt, RunPosted(a) PROVE TypeOK'
  <2>1. aim[a].device \in Device
    BY <1>8 DEF RunPosted
  <2>2. aim[a] \in [via : Vias, device : Device]
    BY <2>1
  <2>3. Expected(aim[a]) \in Fingerprints \cup {None}
    BY <1>1, <2>2
  <2>4. CASE cancelled[a]
    <3>1. phase' = [phase EXCEPT ![a] = "done"] /\ UNCHANGED <<goalVars, client, session>>
      BY <1>8, <2>4 DEF RunPosted
    <3>2. phase' \in [Attempt -> Phases] /\ \A b \in Attempt : phase'[b] # "unused" => aim[b].device \in Device
      BY <2>1, <3>1 DEF Phases
    <3> QED
      BY <1>8, <3>1, <3>2 DEF RunPosted
  <2>5. CASE ~cancelled[a]
    <3>1. Connect(a, aim[a], session)
      BY <1>8, <2>5 DEF RunPosted
    <3>2. aim' = aim
      BY <3>1 DEF Connect
    <3>3. pin' \in [Attempt -> Fingerprints \cup {None}] /\ client' \in Attempt
      BY <2>3, <3>1 DEF Connect
    <3>4. phase' = [phase EXCEPT ![a] = "dispatched"]
      BY <3>1 DEF Connect
    <3> QED
      BY <1>8, <2>1, <3>2, <3>3, <3>4 DEF RunPosted, Phases
  <2> QED
    BY <2>4, <2>5
<1>9. ASSUME NEW a \in Attempt, ConnectCancelled(a) \/ ConnectPrompts(a) PROVE TypeOK'
  BY <1>9 DEF ConnectCancelled, ConnectPrompts, Connected, Phases
<1>10. ASSUME NEW a \in Attempt, ConnectBroken(a) \/ ConnectMisled(a) PROVE TypeOK'
  BY <1>10 DEF ConnectBroken, ConnectMisled, Connected, ConnectFails, ClientStop, Phases
<1>11. ASSUME NEW a \in Attempt, ConnectPinned(a) PROVE TypeOK'
  BY <1>11 DEF ConnectPinned, Connected, StartReceiveLoop, Phases, RxActive
<1>12. ASSUME NEW a \in Attempt, DialStarts(a) PROVE TypeOK'
  <2>1. phase' \in [Attempt -> Phases] /\ stopFlag' \in [Attempt -> BOOLEAN]
    BY <1>12 DEF DialStarts, Phases
  <2>2. \A b \in Attempt : phase'[b] # "unused" => phase[b] # "unused"
    BY <1>12 DEF DialStarts
  <2> QED
    BY <1>12, <2>1, <2>2 DEF DialStarts, OutsideConnect
<1>13. ASSUME NEW a \in Attempt, Dial(a) PROVE TypeOK'
  <2> DEFINE Typed == /\ phase' \in [Attempt -> Phases]
                      /\ peer' \in [Attempt -> Device \cup {None}]
                      /\ sock' \in [Attempt -> {"none", "open", "closed"}]
                      /\ stopFlag' \in [Attempt -> BOOLEAN]
  <2>1. CASE DialFails(a)
    <3>1. Typed
      BY <2>1 DEF DialFails, ClientStop, Phases
    <3>2. \A b \in Attempt : phase'[b] # "unused" => phase[b] # "unused"
      BY <2>1 DEF DialFails
    <3> QED
      BY <2>1, <3>1, <3>2 DEF DialFails, OutsideConnect
  <2>2. ASSUME NEW d \in Device, DialSucceeds(a, d) PROVE TypeOK'
    <3>1. Typed
      BY <2>2 DEF DialSucceeds, Phases
    <3>2. \A b \in Attempt : phase'[b] # "unused" => phase[b] # "unused"
      BY <2>2 DEF DialSucceeds
    <3> QED
      BY <2>2, <3>1, <3>2 DEF DialSucceeds, OutsideConnect
  <2>3. ASSUME NEW d \in Device, DialRefused(a, d) PROVE TypeOK'
    <3>1. Typed
      BY <2>3 DEF DialRefused, ClientStop, Phases
    <3>2. \A b \in Attempt : phase'[b] # "unused" => phase[b] # "unused"
      BY <2>3 DEF DialRefused
    <3> QED
      BY <2>3, <3>1, <3>2 DEF DialRefused, OutsideConnect
  <2> QED
    BY <1>13, <2>1, <2>2, <2>3 DEF Dial
<1>14. ASSUME NEW a \in Attempt, Hello(a) PROVE TypeOK'
  BY <1>14 DEF Hello, HelloSucceeds, HelloFails, ClientStop, OutsideConnect, Phases
<1>15. ASSUME NEW a \in Attempt, Receive(a) PROVE TypeOK'
  BY <1>15 DEF Receive, RxEnds, RxFails, RxFailApplies, RxFailReports, OutsideRx, RxActive
<1>16. ASSUME NEW a \in Attempt, NsdLaunches(a) PROVE TypeOK'
  BY <1>16 DEF NsdLaunches, OutsideNsd, Phases, Vias, NsdPcs
<1>17. CASE \E d \in Device : NsdResolves(d)
  BY <1>17 DEF NsdResolves, OutsideNsd, NsdPcs
<1>18. CASE NsdApplies \/ NsdChecksAgain \/ NsdAssigns \/ NsdFails \/ NsdFailApplies \/ NsdFailReports
  <2>1. /\ nsd' \in [pc : NsdPcs, device : Device \cup {None}, attempt : Attempt \cup {None}]
        /\ nsd'.pc \in {"checked", "found", "launching", "launched"} => nsd'.device \in Device
    BY <1>18 DEF NsdApplies, NsdChecksAgain, NsdAssigns, NsdFails, NsdFailApplies, NsdFailReports,
                 NsdGoes, NsdPcs
  <2>2. connectJob' \in Attempt \cup {None}
    BY <1>18 DEF NsdApplies, NsdChecksAgain, NsdAssigns, NsdFails, NsdFailApplies, NsdFailReports
  <2>3. UNCHANGED <<OutsideNsd, phase, aim>>
    BY <1>18 DEF NsdApplies, NsdChecksAgain, NsdAssigns, NsdFails, NsdFailApplies, NsdFailReports
  <2> QED
    BY <2>1, <2>2, <2>3 DEF OutsideNsd
<1>19. CASE UNCHANGED vars
  BY <1>19 DEF vars
<1> QED
  BY <1>2, <1>3, <1>4, <1>5, <1>6, <1>7, <1>8, <1>9, <1>10, <1>11, <1>12, <1>13, <1>14, <1>15, <1>16,
     <1>17, <1>18, <1>19
  DEF Next, Intents, Coroutine, Nsd

\* onDestroy's and stopSession's marks stay, and only a running service starts a
\* discovery.
LEMMA LifeStep ==
    TypeOK /\ [Next]_vars =>
        /\ \/ Teardown
           \/ destroyed' = destroyed /\ (destroyed => browsing' = browsing)
        /\ gone' # gone => \A a \in Attempt : cancelled'[a]
        /\ gone' # gone => destroyed'
        /\ gone => gone' /\ \A a \in Attempt : cancelled[a] => cancelled'[a]
<1> SUFFICES ASSUME TypeOK, [Next]_vars
             PROVE  /\ \/ Teardown
                       \/ destroyed' = destroyed /\ (destroyed => browsing' = browsing)
                    /\ gone' # gone => \A a \in Attempt : cancelled'[a]
                    /\ gone' # gone => destroyed'
                    /\ gone => gone' /\ \A a \in Attempt : cancelled[a] => cancelled'[a]
  OBVIOUS
<1> USE DEF lifeVars
<1>1. CASE StopSession
  BY <1>1 DEF StopSession, TypeOK
<1>2. CASE OnDestroy
  <2>1. ~gone /\ gone' /\ \A a \in Attempt : cancelled'[a]
    BY <1>2 DEF OnDestroy
  <2>2. Teardown \/ (destroyed /\ destroyed' = destroyed /\ browsing' = browsing)
    BY <1>2 DEF OnDestroy, TornDown
  <2>3. destroyed'
    BY <2>2 DEF Teardown
  <2> QED
    BY <2>1, <2>2, <2>3
<1>3. CASE BeginBrowse
  BY <1>3 DEF BeginBrowse, Begins
<1>4. ASSUME UNCHANGED <<destroyed, gone, browsing, cancelled>>
      PROVE  /\ destroyed' = destroyed /\ browsing' = browsing
             /\ gone' = gone /\ \A a \in Attempt : cancelled[a] => cancelled'[a]
  BY <1>4
<1>5. CASE \E a \in Attempt, via \in {"manual", "qr"}, d \in Device : BeginEndpoint(a, via, d)
  BY <1>4, <1>5 DEF BeginEndpoint
<1>6. CASE StartFails \/ CaptureFails \/ TapApprove \/ ApprovePairing
  BY <1>4, <1>6 DEF StartFails, CaptureFails, IntentFails, TapApprove, ApprovePairing
<1>7. ASSUME NEW a \in Attempt, Coroutine(a) PROVE UNCHANGED <<destroyed, gone, browsing, cancelled>>
  BY <1>7 DEF Coroutine, RunPosted, ConnectCancelled, ConnectBroken, ConnectMisled, ConnectFails,
              ConnectPinned, ConnectPrompts
<1>8. ASSUME NEW a \in Attempt, DialStarts(a) \/ Dial(a) \/ Hello(a)
      PROVE  UNCHANGED <<destroyed, gone, browsing, cancelled>>
  BY <1>8 DEF DialStarts, Dial, DialFails, DialSucceeds, DialRefused, Hello, HelloSucceeds, HelloFails,
              OutsideConnect
<1>9. ASSUME NEW a \in Attempt, Receive(a) PROVE UNCHANGED <<destroyed, gone, browsing, cancelled>>
  BY <1>9 DEF Receive, RxEnds, RxFails, RxFailApplies, RxFailReports, OutsideRx
<1>10. CASE Nsd
  <2>1. UNCHANGED OutsideNsd
    BY <1>10 DEF Nsd, NsdResolves, NsdApplies, NsdChecksAgain, NsdLaunches, NsdAssigns, NsdFails,
                 NsdFailApplies, NsdFailReports
  <2> QED
    BY <1>4, <2>1 DEF OutsideNsd
<1>11. CASE UNCHANGED vars
  BY <1>4, <1>11 DEF vars
<1>12. CASE \E a \in Attempt : Coroutine(a) \/ DialStarts(a) \/ Dial(a) \/ Hello(a) \/ Receive(a)
  BY <1>4, <1>7, <1>8, <1>9, <1>12
<1> QED
  BY <1>1, <1>2, <1>3, <1>5, <1>6, <1>10, <1>11, <1>12 DEF Next, Intents

\* A service that stops leaves the session machine at rest.
LEMMA TeardownRests ==
    ASSUME TypeOK, StopInv, Teardown
    PROVE  /\ session'.stopped /\ session'.machine.state \in {"IDLE", "CLOSING"}
           /\ session'.ui = "IDLE" /\ destroyed' /\ ~browsing'
<1>1. ~session.machine.stopped
  BY DEF StopInv, Teardown
<1> QED
  BY <1>1 DEF Teardown, Stop

\* Every step keeps the session manager and the service stopped together.
LEMMA StopStep == TypeOK /\ ServiceInv /\ [Next]_vars => StopInv' /\ StoppedAtRest'
<1> SUFFICES ASSUME TypeOK, StopInv, StoppedAtRest, [Next]_vars PROVE StopInv' /\ StoppedAtRest'
  BY DEF ServiceInv
<1>1. gone' => destroyed' /\ \A a \in Attempt : cancelled'[a]
  BY LifeStep DEF StopInv, Teardown, TypeOK
<1>2. CASE Teardown
  BY <1>1, <1>2, TeardownRests DEF StopInv, StoppedAtRest
<1>3. CASE ~Teardown
  <2>1. destroyed' = destroyed /\ (destroyed => browsing' = browsing)
    BY <1>3, LifeStep
  <2>2. destroyed => session'.stopped = session.stopped /\ session'.machine = session.machine
    BY <1>3, SessionStep DEF Calm, Tame, StopInv
  <2>3. ~destroyed => session'.stopped = session.stopped /\ ~session'.machine.stopped
    BY <1>3, SessionStep DEF Calm, Tame, StopInv
  <2> QED
    BY <1>1, <2>1, <2>2, <2>3 DEF StopInv, StoppedAtRest
<1> QED
  BY <1>2, <1>3

\* The loop that StartReceiveLoop starts is the only one.
LEMMA StartReceiveLoopFacts ==
    ASSUME TypeOK, OneReceiver, LoopInv, NEW a \in Attempt, StartReceiveLoop(a), destroyed' = destroyed
    PROVE  OneReceiver' /\ LoopInv'
<1>1. CASE receiveJob # None /\ rx[receiveJob] \in RxActive
  BY <1>1 DEF StartReceiveLoop, rxVars, OneReceiver, LoopInv
<1>2. CASE ~(receiveJob # None /\ rx[receiveJob] \in RxActive)
  <2>1. receiveJob' = a /\ rx' = [rx EXCEPT ![a] = IF destroyed THEN @ ELSE "reading"]
    BY <1>2 DEF StartReceiveLoop
  <2>2. CASE destroyed
    <3>1. \A b \in Attempt : rx'[b] = rx[b]
      BY <2>1, <2>2 DEF TypeOK
    <3> QED
      BY <2>2, <3>1 DEF OneReceiver, LoopInv
  <2>3. CASE ~destroyed
    <3>1. \A b \in Attempt : rx[b] \notin RxActive
      BY <1>2, <2>3, ServiceAssumption DEF LoopInv
    <3>2. \A b \in Attempt : b # a => rx'[b] = rx[b]
      BY <2>1 DEF TypeOK
    <3> QED
      BY <2>1, <3>1, <3>2 DEF OneReceiver, LoopInv
  <2> QED
    BY <2>2, <2>3
<1> QED
  BY <1>1, <1>2

\* Every step keeps at most one receive loop running, receiveJob's.
LEMMA LoopStep == TypeOK /\ ServiceInv /\ [Next]_vars => OneReceiver' /\ LoopInv'
<1> SUFFICES ASSUME TypeOK, OneReceiver, LoopInv, [Next]_vars PROVE OneReceiver' /\ LoopInv'
  BY DEF ServiceInv
<1> USE DEF rxVars, lifeVars
<1>1. ASSUME UNCHANGED <<destroyed, receiveJob, rx>> PROVE OneReceiver' /\ LoopInv'
  BY <1>1 DEF OneReceiver, LoopInv
<1>2. CASE StopSession
  BY <1>2 DEF StopSession, Teardown, OneReceiver, LoopInv
<1>3. CASE OnDestroy
  <2>1. rx' = rx /\ destroyed'
    BY <1>3 DEF OnDestroy, Teardown, TornDown
  <2> QED
    BY <2>1 DEF OneReceiver, LoopInv
<1>4. CASE ApprovePairing
  <2>1. CASE UNCHANGED rxVars
    BY <1>1, <1>4, <2>1 DEF ApprovePairing
  <2>2. CASE client # None /\ StartReceiveLoop(client)
    <3>1. client \in Attempt /\ destroyed' = destroyed
      BY <1>4, <2>2 DEF ApprovePairing, TypeOK
    <3> QED
      BY <2>2, <3>1, StartReceiveLoopFacts
  <2> QED
    BY <1>4, <2>1, <2>2 DEF ApprovePairing
<1>5. ASSUME NEW a \in Attempt, ConnectPinned(a) PROVE OneReceiver' /\ LoopInv'
  BY <1>5, StartReceiveLoopFacts DEF ConnectPinned
<1>6. ASSUME NEW a \in Attempt, Receive(a) PROVE OneReceiver' /\ LoopInv'
  <2>1. /\ \A b \in Attempt : rx'[b] \in RxActive => rx[b] \in RxActive
        /\ UNCHANGED <<destroyed, receiveJob>>
    BY <1>6 DEF Receive, RxEnds, RxFails, RxFailApplies, RxFailReports, OutsideRx, RxActive, TypeOK
  <2> QED
    BY <2>1 DEF OneReceiver, LoopInv
<1>7. CASE \E a \in Attempt, via \in {"manual", "qr"}, d \in Device : BeginEndpoint(a, via, d)
  BY <1>1, <1>7 DEF BeginEndpoint
<1>8. CASE BeginBrowse \/ StartFails \/ CaptureFails \/ TapApprove
  BY <1>1, <1>8 DEF BeginBrowse, StartFails, CaptureFails, IntentFails, TapApprove
<1>9. ASSUME NEW a \in Attempt, Coroutine(a), ~ConnectPinned(a) PROVE OneReceiver' /\ LoopInv'
  BY <1>1, <1>9 DEF Coroutine, RunPosted, ConnectCancelled, ConnectBroken, ConnectMisled, ConnectFails,
                    ConnectPrompts
<1>10. ASSUME NEW a \in Attempt, DialStarts(a) \/ Dial(a) \/ Hello(a) PROVE OneReceiver' /\ LoopInv'
  <2>1. UNCHANGED OutsideConnect
    BY <1>10 DEF DialStarts, Dial, DialFails, DialSucceeds, DialRefused, Hello, HelloSucceeds, HelloFails
  <2> QED
    BY <1>1, <2>1 DEF OutsideConnect
<1>11. CASE Nsd
  <2>1. UNCHANGED OutsideNsd
    BY <1>11 DEF Nsd, NsdResolves, NsdApplies, NsdChecksAgain, NsdLaunches, NsdAssigns, NsdFails,
                 NsdFailApplies, NsdFailReports
  <2> QED
    BY <1>1, <2>1 DEF OutsideNsd
<1>12. CASE UNCHANGED vars
  BY <1>1, <1>12 DEF vars
<1>13. CASE \E a \in Attempt : Coroutine(a) \/ DialStarts(a) \/ Dial(a) \/ Hello(a) \/ Receive(a)
  BY <1>5, <1>6, <1>9, <1>10, <1>13
<1> QED
  BY <1>2, <1>3, <1>4, <1>7, <1>8, <1>11, <1>12, <1>13 DEF Next, Intents

\* What a coroutine pins: the key of a device only if that device is known.
LEMMA ExpectedFacts ==
    ASSUME NEW target \in [via : Vias, device : Device \cup {None}], NEW d \in Device,
           Expected(target) = KeyFingerprint(d)
    PROVE  d \in known
<1>1. None # KeyFingerprint(d)
  BY ServiceAssumption DEF KeyFingerprint, Fingerprints
<1>2. Expected(target) = KeyFingerprint(target.device) /\ target.device \in known
  BY <1>1 DEF Expected, KeyFingerprint, WindowsFingerprint
<1>3. target.device = d
  BY <1>2 DEF KeyFingerprint
<1> QED
  BY <1>2, <1>3

\* An attempt that begins pins the fingerprint of a known device, if it pins a key,
\* and nobody has answered it.
LEMMA ConnectFacts ==
    ASSUME TypeOK, TrustInv, NEW a \in Attempt,
           NEW target \in [via : Vias, device : Device \cup {None}], NEW s,
           Connect(a, target, s), phase[a] \in NotConnected,
           UNCHANGED <<peer, known>>, pendingPeer' \in {pendingPeer, None}
    PROVE  TrustInv'
<1>1. \A b \in Attempt, d \in Device : pin'[b] = KeyFingerprint(d) => d \in known
  BY ExpectedFacts DEF Connect, TypeOK, TrustInv
<1>2. \A b \in Attempt : b # a => phase'[b] = phase[b] /\ pin'[b] = pin[b]
  BY DEF Connect, TypeOK
<1>3. phase'[a] = "dispatched" /\ peer[a] = None
  BY DEF Connect, TypeOK, TrustInv
<1> QED
  BY <1>1, <1>2, <1>3 DEF TrustInv, Trusts, NotConnected

\* The approval only ever adds to the known peers, and an answer stays.
LEMMA PeersStay ==
    TypeOK /\ TrustInv /\ [Next]_vars =>
        known \subseteq known' /\ \A a \in Attempt : peer[a] # None => peer'[a] = peer[a]
<1> SUFFICES ASSUME TypeOK, TrustInv, [Next]_vars
             PROVE  known \subseteq known' /\ \A a \in Attempt : peer[a] # None => peer'[a] = peer[a]
  OBVIOUS
<1> USE DEF userVars
<1>1. CASE ApprovePairing
  BY <1>1 DEF ApprovePairing
<1>2. ASSUME NEW a \in Attempt, Dial(a)
      PROVE  known' = known /\ \A b \in Attempt : peer[b] # None => peer'[b] = peer[b]
  <2>1. phase[a] = "dialing" /\ UNCHANGED OutsideConnect
    BY <1>2 DEF Dial, DialFails, DialSucceeds, DialRefused
  <2>2. peer[a] = None
    BY <2>1 DEF TrustInv, NotConnected
  <2>3. \A b \in Attempt : b # a => peer'[b] = peer[b]
    BY <1>2 DEF Dial, DialFails, DialSucceeds, DialRefused, TypeOK
  <2> QED
    BY <2>1, <2>2, <2>3 DEF OutsideConnect
<1>3. CASE \E a \in Attempt, via \in {"manual", "qr"}, d \in Device : BeginEndpoint(a, via, d)
  BY <1>3 DEF BeginEndpoint
<1>4. CASE BeginBrowse \/ StartFails \/ CaptureFails \/ TapApprove \/ StopSession \/ OnDestroy
  BY <1>4 DEF BeginBrowse, StartFails, CaptureFails, IntentFails, TapApprove, StopSession, OnDestroy
<1>5. ASSUME NEW a \in Attempt, Coroutine(a) PROVE UNCHANGED <<known, peer>>
  BY <1>5 DEF Coroutine, RunPosted, ConnectCancelled, ConnectBroken, ConnectMisled, ConnectFails,
              ConnectPinned, ConnectPrompts
<1>6. ASSUME NEW a \in Attempt, DialStarts(a) \/ Hello(a) PROVE UNCHANGED <<known, peer>>
  BY <1>6 DEF DialStarts, Hello, HelloSucceeds, HelloFails, OutsideConnect
<1>7. ASSUME NEW a \in Attempt, Receive(a) PROVE UNCHANGED <<known, peer>>
  BY <1>7 DEF Receive, RxEnds, RxFails, RxFailApplies, RxFailReports, OutsideRx
<1>8. CASE Nsd
  <2>1. UNCHANGED OutsideNsd
    BY <1>8 DEF Nsd, NsdResolves, NsdApplies, NsdChecksAgain, NsdLaunches, NsdAssigns, NsdFails,
                NsdFailApplies, NsdFailReports
  <2> QED
    BY <2>1 DEF OutsideNsd
<1>9. CASE UNCHANGED vars
  BY <1>9 DEF vars
<1>10. CASE \E a \in Attempt : Coroutine(a) \/ DialStarts(a) \/ Dial(a) \/ Hello(a) \/ Receive(a)
  BY <1>2, <1>5, <1>6, <1>7, <1>10
<1> QED
  BY <1>1, <1>3, <1>4, <1>8, <1>9, <1>10 DEF Next, Intents

\* Every step that leaves the pins and the peers alone, and takes no attempt out
\* of the network that is not in it, keeps the trust invariant.
LEMMA QuietStep ==
    ASSUME TypeOK, TrustInv, UNCHANGED <<pin, peer>>, known \subseteq known',
           pendingPeer' \in {pendingPeer, None},
           \A a \in Attempt : phase'[a] \in {"greeting", "ready"} => phase[a] \in {"greeting", "ready"},
           \A a \in Attempt : phase'[a] \in NotConnected => phase[a] \in NotConnected
    PROVE  TrustInv'
BY DEF TrustInv, Trusts

\* Every step keeps the trust invariant.
LEMMA TrustStep == TypeOK /\ TrustInv /\ [Next]_vars => TrustInv'
<1> SUFFICES ASSUME TypeOK, TrustInv, [Next]_vars PROVE TrustInv'
  OBVIOUS
<1> USE DEF userVars, uiVars, goalVars
<1>1. ASSUME UNCHANGED <<pin, peer, phase>>, pendingPeer' \in {pendingPeer, None} PROVE TrustInv'
  BY <1>1, QuietStep, PeersStay
<1>2. ASSUME NEW a \in Attempt, NEW via \in {"manual", "qr"}, NEW d \in Device, BeginEndpoint(a, via, d)
      PROVE  TrustInv'
  <2>1. [via |-> via, device |-> d] \in [via : Vias, device : Device \cup {None}]
    BY DEF Vias
  <2> DEFINE target == [via |-> via, device |-> d]
  <2>2. /\ Connect(a, target, After(session, "BEGIN_DISCOVERY"))
        /\ phase[a] \in NotConnected
        /\ UNCHANGED <<peer, known>> /\ pendingPeer' = None
    BY <1>2 DEF BeginEndpoint, Begins, NotConnected
  <2> HIDE DEF target
  <2> QED
    BY <2>1, <2>2, ConnectFacts DEF target
<1>3. CASE BeginBrowse
  BY <1>1, <1>3 DEF BeginBrowse, Begins
<1>4. CASE StartFails \/ CaptureFails \/ TapApprove
  BY <1>1, <1>4 DEF StartFails, CaptureFails, IntentFails, TapApprove
<1>5. CASE ApprovePairing
  BY <1>1, <1>5 DEF ApprovePairing
<1>6. CASE StopSession \/ OnDestroy
  BY <1>1, <1>6 DEF StopSession, OnDestroy, Teardown, TornDown
<1>7. ASSUME NEW a \in Attempt, RunPosted(a) PROVE TrustInv'
  <2>1. phase[a] \in NotConnected /\ UNCHANGED <<peer, known, pendingPeer>>
    BY <1>7 DEF RunPosted, NotConnected
  <2>2. CASE cancelled[a]
    <3>1. phase' = [phase EXCEPT ![a] = "done"] /\ pin' = pin
      BY <1>7, <2>2 DEF RunPosted
    <3> QED
      BY <2>1, <3>1, QuietStep DEF TypeOK, NotConnected
  <2>3. CASE ~cancelled[a]
    <3>1. Connect(a, aim[a], session)
      BY <1>7, <2>3 DEF RunPosted
    <3>2. aim[a] \in [via : Vias, device : Device \cup {None}]
      BY DEF TypeOK
    <3> QED
      BY <2>1, <3>1, <3>2, ConnectFacts
  <2> QED
    BY <2>2, <2>3
<1>8. ASSUME NEW a \in Attempt, ConnectCancelled(a) \/ ConnectBroken(a) \/ ConnectMisled(a) \/ ConnectPinned(a)
      PROVE  TrustInv'
  <2>1. phase' = [phase EXCEPT ![a] = "done"] /\ UNCHANGED <<pin, peer, known, pendingPeer>>
    BY <1>8 DEF ConnectCancelled, ConnectBroken, ConnectMisled, ConnectPinned, ConnectFails
  <2> QED
    BY <2>1, QuietStep DEF TypeOK, NotConnected
<1>9. ASSUME NEW a \in Attempt, ConnectPrompts(a) PROVE TrustInv'
  <2>1. phase[a] = "ready" /\ pendingPeer' = peer[a] /\ UNCHANGED <<pin, peer, known>>
    BY <1>9 DEF ConnectPrompts, Connected
  <2>2. phase' = [phase EXCEPT ![a] = "done"]
    BY <1>9 DEF ConnectPrompts
  <2> QED
    BY <2>1, <2>2 DEF TrustInv, Trusts, TypeOK, NotConnected
<1>10. ASSUME NEW a \in Attempt, DialStarts(a) \/ DialFails(a) \/ Hello(a) PROVE TrustInv'
  <2>1. UNCHANGED <<pin, peer, known, pendingPeer>>
    BY <1>10 DEF DialStarts, DialFails, Hello, HelloSucceeds, HelloFails, OutsideConnect
  <2>2. /\ \A b \in Attempt : phase'[b] \in {"greeting", "ready"} => phase[b] \in {"greeting", "ready"}
        /\ \A b \in Attempt : phase'[b] \in NotConnected => phase[b] \in NotConnected
    BY <1>10 DEF DialStarts, DialFails, Hello, HelloSucceeds, HelloFails, TypeOK, NotConnected
  <2> QED
    BY <2>1, <2>2, QuietStep
<1>11. ASSUME NEW a \in Attempt, NEW d \in Device, DialSucceeds(a, d) \/ DialRefused(a, d) PROVE TrustInv'
  <2>1. /\ phase[a] = "dialing" /\ peer' = [peer EXCEPT ![a] = d]
        /\ phase' = [phase EXCEPT ![a] = IF Trusts(a, d) THEN "greeting" ELSE "broken"]
        /\ UNCHANGED <<pin, known, pendingPeer>>
    BY <1>11 DEF DialSucceeds, DialRefused, OutsideConnect
  <2>2. peer[a] = None
    BY <2>1 DEF TrustInv, NotConnected
  <2>3. \A b \in Attempt : b # a => peer'[b] = peer[b] /\ phase'[b] = phase[b]
    BY <2>1 DEF TypeOK
  <2>4. peer'[a] = d /\ phase'[a] = IF Trusts(a, d) THEN "greeting" ELSE "broken"
    BY <2>1 DEF TypeOK
  <2> QED
    BY <2>1, <2>2, <2>3, <2>4 DEF TrustInv, Trusts, NotConnected
<1>12. ASSUME NEW a \in Attempt, Receive(a) PROVE TrustInv'
  BY <1>1, <1>12 DEF Receive, RxEnds, RxFails, RxFailApplies, RxFailReports, OutsideRx
<1>13. CASE Nsd
  <2>1. UNCHANGED OutsideNsd
    BY <1>13 DEF Nsd, NsdResolves, NsdApplies, NsdChecksAgain, NsdLaunches, NsdAssigns, NsdFails,
                 NsdFailApplies, NsdFailReports
  <2>2. UNCHANGED <<pin, peer, known, pendingPeer>>
    BY <2>1 DEF OutsideNsd
  <2>3. \/ phase' = phase
        \/ \E a \in Attempt : phase[a] = "unused" /\ phase' = [phase EXCEPT ![a] = "posted"]
    BY <1>13 DEF Nsd, NsdResolves, NsdApplies, NsdChecksAgain, NsdLaunches, NsdAssigns, NsdFails,
                 NsdFailApplies, NsdFailReports
  <2> QED
    BY <2>2, <2>3, QuietStep DEF TypeOK, NotConnected
<1>14. CASE UNCHANGED vars
  BY <1>1, <1>14 DEF vars
<1>15. ASSUME NEW a \in Attempt, Coroutine(a) \/ DialStarts(a) \/ Dial(a) \/ Hello(a) \/ Receive(a)
       PROVE  TrustInv'
  BY <1>7, <1>8, <1>9, <1>10, <1>11, <1>12, <1>15 DEF Coroutine, Dial
<1> QED
  BY <1>2, <1>3, <1>4, <1>5, <1>6, <1>13, <1>14, <1>15 DEF Next, Intents

\* The prompt changes with the pending peer.
LEMMA PromptStep == PromptIsPending /\ [Next]_vars => PromptIsPending'
<1> SUFFICES ASSUME PromptIsPending, [Next]_vars PROVE PromptIsPending'
  OBVIOUS
<1> USE DEF uiVars, PromptIsPending
<1>1. CASE \E a \in Attempt, via \in {"manual", "qr"}, d \in Device : BeginEndpoint(a, via, d)
  BY <1>1 DEF BeginEndpoint, Begins
<1>2. CASE BeginBrowse
  BY <1>2 DEF BeginBrowse, Begins
<1>3. CASE StartFails \/ CaptureFails \/ TapApprove \/ ApprovePairing
  BY <1>3 DEF StartFails, CaptureFails, IntentFails, TapApprove, ApprovePairing
<1>4. CASE StopSession \/ OnDestroy
  BY <1>4 DEF StopSession, OnDestroy, Teardown, TornDown
<1>5. ASSUME NEW a \in Attempt, Coroutine(a) PROVE PromptIsPending'
  BY <1>5 DEF Coroutine, RunPosted, ConnectCancelled, ConnectBroken, ConnectMisled, ConnectFails,
              ConnectPinned, ConnectPrompts
<1>6. ASSUME NEW a \in Attempt, DialStarts(a) \/ Dial(a) \/ Hello(a) PROVE PromptIsPending'
  <2>1. UNCHANGED OutsideConnect
    BY <1>6 DEF DialStarts, Dial, DialFails, DialSucceeds, DialRefused, Hello, HelloSucceeds, HelloFails
  <2> QED
    BY <2>1 DEF OutsideConnect
<1>7. ASSUME NEW a \in Attempt, Receive(a) PROVE PromptIsPending'
  BY <1>7 DEF Receive, RxEnds, RxFails, RxFailApplies, RxFailReports, OutsideRx
<1>8. CASE Nsd
  <2>1. UNCHANGED OutsideNsd
    BY <1>8 DEF Nsd, NsdResolves, NsdApplies, NsdChecksAgain, NsdLaunches, NsdAssigns, NsdFails,
                NsdFailApplies, NsdFailReports
  <2> QED
    BY <2>1 DEF OutsideNsd
<1>9. CASE UNCHANGED vars
  BY <1>9 DEF vars
<1> QED
  BY <1>1, <1>2, <1>3, <1>4, <1>5, <1>6, <1>7, <1>8, <1>9 DEF Next, Intents

\* A step that establishes the session does so for a peer the user has approved:
\* a pinned key is a known device's, and an approval makes the pending peer known.
LEMMA EstablishedStep == TypeOK /\ ServiceInv /\ [Next]_vars => EstablishedIsTrusted'
<1> SUFFICES ASSUME TypeOK, ServiceInv, [Next]_vars, Established(session')
             PROVE  \E a \in Attempt : peer'[a] \in known'
  BY DEF EstablishedIsTrusted, Established
<1>1. TrustInv /\ StopInv /\ EstablishedIsTrusted
  BY DEF ServiceInv
<1>2. known \subseteq known' /\ \A a \in Attempt : peer[a] # None => peer'[a] = peer[a]
  BY <1>1, PeersStay
<1>3. ASSUME NEW a \in Attempt, peer[a] \in known PROVE peer'[a] \in known'
  BY <1>2, <1>3, ServiceAssumption DEF TypeOK
<1>4. CASE Established(session)
  BY <1>1, <1>3, <1>4 DEF EstablishedIsTrusted, Established
<1>5. ASSUME NEW a \in Attempt, ConnectPinned(a) PROVE peer[a] \in known
  <2>1. pin[a] # None /\ phase[a] = "ready"
    BY <1>5 DEF ConnectPinned, Connected, Verified
  <2>2. peer[a] \in Device /\ pin[a] = KeyFingerprint(peer[a])
    BY <1>1, <2>1 DEF TrustInv, Trusts
  <2> QED
    BY <1>1, <2>2 DEF TrustInv
<1>6. CASE pendingPeer # None /\ known' = known \cup {pendingPeer}
  <2>1. PICK a \in Attempt : peer[a] = pendingPeer
    BY <1>1, <1>6 DEF TrustInv
  <2> QED
    BY <1>2, <1>6, <2>1
<1>7. CASE Teardown
  BY <1>1, <1>7, TeardownRests DEF Established
<1> QED
  BY <1>3, <1>4, <1>5, <1>6, <1>7, SessionStep DEF Calm

\* Every step preserves the invariant.
LEMMA StepInv == IInv /\ [Next]_vars => IInv'
<1> SUFFICES ASSUME TypeOK, ServiceInv, [Next]_vars PROVE TypeOK' /\ ServiceInv'
  BY DEF IInv
<1>1. TypeOK'
  BY TypeStep
<1>2. PromptIsPending'
  BY PromptStep DEF ServiceInv
<1>3. EstablishedIsTrusted'
  BY EstablishedStep
<1>4. OneReceiver' /\ LoopInv'
  BY LoopStep
<1>5. StopInv' /\ StoppedAtRest'
  BY StopStep
<1>6. TrustInv'
  BY TrustStep DEF ServiceInv
<1> QED
  BY <1>1, <1>2, <1>3, <1>4, <1>5, <1>6 DEF ServiceInv

------------------------------------------------------------------------------
(* The theorems. *)

\* The inductive invariant holds in every reachable state of the service.
THEOREM Invariance == Spec => []IInv
BY InitInv, StepInv, PTL DEF Spec

\* The variables of the service stay in their sets.
THEOREM TypeCorrect == Spec => []TypeOK
<1>1. IInv => TypeOK
  BY DEF IInv
<1> QED
  BY <1>1, Invariance, PTL

\* The prompt on the screen is for the peer that approvePairing would trust.
THEOREM PromptFollowsPending == Spec => []PromptIsPending
<1>1. IInv => PromptIsPending
  BY DEF IInv, ServiceInv
<1> QED
  BY <1>1, Invariance, PTL

\* The service is never established, on the screen or in its machine, unless the
\* user has approved the peer of some connection.
THEOREM NoTrustWithoutApproval == Spec => []EstablishedIsTrusted
<1>1. IInv => EstablishedIsTrusted
  BY DEF IInv, ServiceInv
<1> QED
  BY <1>1, Invariance, PTL

\* startReceiveLoop never has two loops reading.
THEOREM SingleReceiver == Spec => []OneReceiver
<1>1. IInv => OneReceiver
  BY DEF IInv, ServiceInv
<1> QED
  BY <1>1, Invariance, PTL

\* After stopSession nothing that was under way moves the session machine again.
THEOREM StopIsAtRest == Spec => []StoppedAtRest
<1>1. IInv => StoppedAtRest
  BY DEF IInv, ServiceInv
<1> QED
  BY <1>1, Invariance, PTL

\* Only an approval in PAIRING_REQUIRED adds a known device, the pending one.
LEMMA KnownStep ==
    ASSUME [Next]_vars, known' # known
    PROVE  /\ ApprovePairing
           /\ session.machine.state = "PAIRING_REQUIRED"
           /\ pendingPeer # None
           /\ known' = known \cup {pendingPeer}
<1>1. ApprovePairing
  <2> USE DEF userVars
  <2>1. ASSUME NEW a \in Attempt, Coroutine(a) PROVE known' = known
    BY <2>1 DEF Coroutine, RunPosted, ConnectCancelled, ConnectBroken, ConnectMisled, ConnectFails,
                ConnectPinned, ConnectPrompts
  <2>2. ASSUME NEW a \in Attempt, DialStarts(a) \/ Dial(a) \/ Hello(a) PROVE known' = known
    <3>1. UNCHANGED OutsideConnect
      BY <2>2 DEF DialStarts, Dial, DialFails, DialSucceeds, DialRefused, Hello, HelloSucceeds, HelloFails
    <3> QED
      BY <3>1 DEF OutsideConnect
  <2>3. ASSUME NEW a \in Attempt, Receive(a) PROVE known' = known
    BY <2>3 DEF Receive, RxEnds, RxFails, RxFailApplies, RxFailReports, OutsideRx
  <2>4. ~Nsd
    <3>1. ASSUME UNCHANGED OutsideNsd PROVE FALSE
      BY <3>1 DEF OutsideNsd
    <3> QED
      BY <3>1 DEF Nsd, NsdResolves, NsdApplies, NsdChecksAgain, NsdLaunches, NsdAssigns, NsdFails,
                  NsdFailApplies, NsdFailReports
  <2>5. Intents
    BY <2>1, <2>2, <2>3, <2>4 DEF Next, vars
  <2> QED
    BY <2>5 DEF Intents, BeginEndpoint, BeginBrowse, StartFails, CaptureFails, IntentFails, TapApprove,
                StopSession, OnDestroy
<1> QED
  BY <1>1 DEF ApprovePairing

\* onDestroy cancels the scope, so that no attempt dials from then on.
THEOREM NothingDialsAfterDestroy == Spec => NoDialAfterDestroy
<1>1. ASSUME IInv, [Next]_vars, NEW a \in Attempt, gone, phase'[a] = "dialing"
      PROVE  phase[a] = "dialing"
  <2>1. cancelled[a]
    BY <1>1 DEF IInv, ServiceInv, StopInv
  <2>2. phase \in [Attempt -> Phases]
    BY <1>1 DEF IInv, TypeOK
  <2>3. ASSUME NEW b \in Attempt, Coroutine(b) PROVE phase[a] = "dialing"
    BY <1>1, <2>2, <2>3 DEF Coroutine, RunPosted, Connect, ConnectCancelled, ConnectBroken, ConnectMisled,
                            ConnectFails, ConnectPinned, ConnectPrompts
  <2>4. ASSUME NEW b \in Attempt, DialStarts(b) \/ Dial(b) \/ Hello(b) PROVE phase[a] = "dialing"
    BY <1>1, <2>1, <2>2, <2>4
    DEF DialStarts, Dial, DialFails, DialSucceeds, DialRefused, Hello, HelloSucceeds, HelloFails
  <2>5. ASSUME NEW b \in Attempt, Receive(b) PROVE phase[a] = "dialing"
    BY <1>1, <2>5 DEF Receive, RxEnds, RxFails, RxFailApplies, RxFailReports, OutsideRx
  <2>6. CASE Intents
    BY <1>1, <2>2, <2>6 DEF Intents, BeginEndpoint, Connect, BeginBrowse, StartFails, CaptureFails, IntentFails, TapApprove,
                            ApprovePairing, StopSession, OnDestroy
  <2>7. CASE Nsd
    BY <1>1, <2>2, <2>7 DEF Nsd, NsdResolves, NsdApplies, NsdChecksAgain, NsdLaunches, NsdAssigns, NsdFails,
                            NsdFailApplies, NsdFailReports
  <2>8. CASE UNCHANGED vars
    BY <1>1, <2>8 DEF vars
  <2> QED
    BY <1>1, <2>3, <2>4, <2>5, <2>6, <2>7, <2>8 DEF Next
<1>2. IInv /\ [Next]_vars => [\A a \in Attempt : gone /\ phase'[a] = "dialing" => phase[a] = "dialing"]_vars
  BY <1>1
<1> QED
  BY <1>2, Invariance, PTL DEF Spec, NoDialAfterDestroy

------------------------------------------------------------------------------
(* When frames come from approved peers only. *)

\* An attempt is under way from the creation of its client to its result.
UnderWay == {"dispatched", "dialing", "greeting", "ready"}

\* A step that lets an attempt begin finds no other under way and leaves no prompt
\* behind: nothing in the code sees to that.
Alone ==
    \A a \in Attempt : phase[a] # "dispatched" /\ phase'[a] = "dispatched" =>
        pendingPeer' = None /\ \A b \in Attempt \ {a} : phase[b] \notin UnderWay

\* The client is the one whose peer waits for the approval, or of the attempt
\* under way; and a loop reads from a peer that is known.
AloneInv ==
    /\ \A a \in Attempt : rx[a] = "reading" => peer[a] \in known
    /\ pendingPeer # None /\ client # None => peer[client] = pendingPeer
    /\ \A a \in Attempt : phase[a] \in UnderWay => client \in {a, None}

\* What the NSD thread leaves alone, and what it does to attempts: it posts one.
LEMMA NsdStep ==
    ASSUME Nsd
    PROVE  /\ UNCHANGED OutsideNsd
           /\ \/ phase' = phase
              \/ \E a \in Attempt : phase[a] = "unused" /\ phase' = [phase EXCEPT ![a] = "posted"]
<1>1. ASSUME NEW d \in Device, NsdResolves(d) PROVE UNCHANGED <<OutsideNsd, phase>>
  BY <1>1 DEF NsdResolves
<1>2. CASE NsdApplies \/ NsdChecksAgain \/ NsdAssigns \/ NsdFails \/ NsdFailApplies \/ NsdFailReports
  BY <1>2 DEF NsdApplies, NsdChecksAgain, NsdAssigns, NsdFails, NsdFailApplies, NsdFailReports
<1>3. ASSUME NEW a \in Attempt, NsdLaunches(a)
      PROVE  /\ UNCHANGED OutsideNsd
             /\ phase[a] = "unused" /\ phase' = [phase EXCEPT ![a] = "posted"]
  BY <1>3 DEF NsdLaunches
<1> QED
  BY <1>1, <1>2, <1>3 DEF Nsd

\* A step creates a client, or it leaves the client, or drops it, and brings no
\* attempt under way.
LEMMA ClientStep ==
    ASSUME TypeOK, [Next]_vars
    PROVE  \/ \E a \in Attempt, target \in [via : Vias, device : Device], s \in {session, After(session, "BEGIN_DISCOVERY")} :
                 Connect(a, target, s) /\ phase[a] \in {"unused", "posted"}
           \/ /\ client' \in {client, None}
              /\ \A a \in Attempt : phase'[a] \in UnderWay => phase[a] \in UnderWay
<1> USE DEF UnderWay, TypeOK
<1> DEFINE Quiet == /\ client' \in {client, None}
                    /\ \A a \in Attempt : phase'[a] \in UnderWay => phase[a] \in UnderWay
           Creates == \E a \in Attempt, target \in [via : Vias, device : Device],
                         s \in {session, After(session, "BEGIN_DISCOVERY")} :
                         Connect(a, target, s) /\ phase[a] \in {"unused", "posted"}
<1> SUFFICES Creates \/ Quiet
  OBVIOUS
<1>1. ASSUME NEW a \in Attempt, NEW via \in {"manual", "qr"}, NEW d \in Device, BeginEndpoint(a, via, d)
      PROVE  Creates
  <2>1. [via |-> via, device |-> d] \in [via : Vias, device : Device]
    BY DEF Vias
  <2> QED
    BY <1>1, <2>1 DEF BeginEndpoint
<1>2. ASSUME NEW a \in Attempt, RunPosted(a) PROVE Creates \/ Quiet
  <2>1. aim[a] \in [via : Vias, device : Device] /\ phase[a] = "posted"
    BY <1>2 DEF RunPosted
  <2>2. CASE cancelled[a]
    BY <1>2, <2>2 DEF RunPosted
  <2>3. CASE ~cancelled[a]
    BY <1>2, <2>1, <2>3 DEF RunPosted
  <2> QED
    BY <2>2, <2>3
<1>3. CASE BeginBrowse \/ StartFails \/ CaptureFails \/ TapApprove \/ ApprovePairing
  BY <1>3 DEF BeginBrowse, StartFails, CaptureFails, IntentFails, TapApprove, ApprovePairing, jobVars
<1>4. CASE StopSession \/ OnDestroy
  BY <1>4 DEF StopSession, OnDestroy, Teardown, TornDown, jobVars
<1>5. ASSUME NEW a \in Attempt, Coroutine(a), ~RunPosted(a) PROVE Quiet
  BY <1>5 DEF Coroutine, ConnectCancelled, ConnectBroken, ConnectMisled, ConnectFails, ConnectPinned,
              ConnectPrompts, jobVars
<1>6. ASSUME NEW a \in Attempt, DialStarts(a) \/ Dial(a) \/ Hello(a) PROVE Quiet
  <2>1. client' = client
    BY <1>6 DEF DialStarts, Dial, DialFails, DialSucceeds, DialRefused, Hello, HelloSucceeds, HelloFails,
                OutsideConnect, jobVars
  <2>2. \A b \in Attempt : phase'[b] \in UnderWay => phase[b] \in UnderWay
    BY <1>6 DEF DialStarts, Dial, DialFails, DialSucceeds, DialRefused, Hello, HelloSucceeds, HelloFails
  <2> QED
    BY <2>1, <2>2
<1>7. ASSUME NEW a \in Attempt, Receive(a) PROVE Quiet
  BY <1>7 DEF Receive, RxEnds, RxFails, RxFailApplies, RxFailReports, OutsideRx, jobVars
<1>8. CASE Nsd
  BY <1>8, NsdStep DEF OutsideNsd
<1>9. CASE UNCHANGED vars
  BY <1>9 DEF vars, jobVars
<1> HIDE DEF Quiet, Creates, TypeOK, UnderWay
<1>10. ASSUME NEW a \in Attempt, Coroutine(a) \/ DialStarts(a) \/ Dial(a) \/ Hello(a) \/ Receive(a)
       PROVE  Creates \/ Quiet
  BY <1>2, <1>5, <1>6, <1>7, <1>10
<1>11. CASE Intents
  BY <1>1, <1>3, <1>4, <1>11 DEF Intents
<1> QED
  BY <1>8, <1>9, <1>10, <1>11 DEF Next

\* Only a connection whose peer is not verified makes a peer wait for the approval.
LEMMA PendingStep ==
    ASSUME [Next]_vars
    PROVE  pendingPeer' \in {pendingPeer, None} \/ \E a \in Attempt : ConnectPrompts(a)
<1> USE DEF uiVars
<1>1. CASE Intents
  BY <1>1 DEF Intents, BeginEndpoint, Begins, BeginBrowse, StartFails, CaptureFails, IntentFails, TapApprove, ApprovePairing,
              StopSession, OnDestroy, Teardown, TornDown
<1>2. ASSUME NEW a \in Attempt, Coroutine(a), ~ConnectPrompts(a) PROVE pendingPeer' = pendingPeer
  BY <1>2 DEF Coroutine, RunPosted, ConnectCancelled, ConnectBroken, ConnectMisled, ConnectFails, ConnectPinned
<1>3. ASSUME NEW a \in Attempt, DialStarts(a) \/ Dial(a) \/ Hello(a) PROVE pendingPeer' = pendingPeer
  BY <1>3 DEF DialStarts, Dial, DialFails, DialSucceeds, DialRefused, Hello, HelloSucceeds, HelloFails,
              OutsideConnect
<1>4. ASSUME NEW a \in Attempt, Receive(a) PROVE pendingPeer' = pendingPeer
  BY <1>4 DEF Receive, RxEnds, RxFails, RxFailApplies, RxFailReports, OutsideRx
<1>5. CASE Nsd
  BY <1>5, NsdStep DEF OutsideNsd
<1>6. CASE UNCHANGED vars
  BY <1>6 DEF vars
<1> QED
  BY <1>1, <1>2, <1>3, <1>4, <1>5, <1>6 DEF Next

\* A loop begins to read when a pinned peer has connected, or on the approval, which
\* takes whatever client there is.
LEMMA ReadingStep ==
    ASSUME TypeOK, [Next]_vars, NEW a \in Attempt, rx'[a] = "reading", rx[a] # "reading"
    PROVE  \/ ConnectPinned(a)
           \/ /\ pendingPeer # None
              /\ client = a
              /\ known' = known \cup {pendingPeer}
              /\ peer' = peer
<1> USE DEF rxVars
<1>1. ASSUME rx' = rx PROVE FALSE
  BY <1>1
<1>2. ASSUME NEW b \in Attempt, StartReceiveLoop(b) PROVE a = b
  BY <1>2 DEF StartReceiveLoop, TypeOK
<1>3. CASE ApprovePairing
  <2>1. client # None /\ StartReceiveLoop(client) /\ pendingPeer # None
        /\ known' = known \cup {pendingPeer} /\ peer' = peer
    BY <1>1, <1>3 DEF ApprovePairing
  <2> QED
    BY <1>2, <2>1 DEF TypeOK
<1>4. CASE Intents /\ ~ApprovePairing
  BY <1>1, <1>4 DEF Intents, BeginEndpoint, BeginBrowse, StartFails, CaptureFails, IntentFails, TapApprove, StopSession, OnDestroy
<1>5. ASSUME NEW b \in Attempt, Coroutine(b) PROVE ConnectPinned(a)
  <2>1. ConnectPinned(b)
    BY <1>1, <1>5 DEF Coroutine, RunPosted, ConnectCancelled, ConnectBroken, ConnectMisled, ConnectFails,
                      ConnectPrompts
  <2> QED
    BY <1>2, <2>1 DEF ConnectPinned
<1>6. ASSUME NEW b \in Attempt, DialStarts(b) \/ Dial(b) \/ Hello(b) PROVE FALSE
  BY <1>1, <1>6 DEF DialStarts, Dial, DialFails, DialSucceeds, DialRefused, Hello, HelloSucceeds, HelloFails,
                    OutsideConnect
<1>7. ASSUME NEW b \in Attempt, Receive(b) PROVE FALSE
  BY <1>7 DEF Receive, RxEnds, RxFails, RxFailApplies, RxFailReports, TypeOK
<1>8. CASE Nsd
  BY <1>1, <1>8, NsdStep DEF OutsideNsd
<1>9. CASE UNCHANGED vars
  BY <1>1, <1>9 DEF vars
<1> QED
  BY <1>3, <1>4, <1>5, <1>6, <1>7, <1>8, <1>9 DEF Next

\* A connection that was verified by its pin has a known peer.
LEMMA PinnedIsKnown ==
    ASSUME TypeOK, TrustInv, NEW a \in Attempt, ConnectPinned(a)
    PROVE  peer[a] \in known
<1>1. pin[a] # None /\ phase[a] = "ready"
  BY DEF ConnectPinned, Connected, Verified
<1>2. peer[a] \in Device /\ pin[a] = KeyFingerprint(peer[a])
  BY <1>1 DEF TrustInv, Trusts
<1> QED
  BY <1>2 DEF TrustInv

\* A manual endpoint never has a fingerprint to compare with.
ManualUnpinned == \A a \in Attempt : aim[a].via = "manual" => pin[a] = None

\* Aims and pins change together, when an attempt begins, but for the aim that the
\* NSD thread gives an attempt.
LEMMA ManualStep == TypeOK /\ ManualUnpinned /\ [Next]_vars => ManualUnpinned'
<1> SUFFICES ASSUME TypeOK, ManualUnpinned, [Next]_vars PROVE ManualUnpinned'
  OBVIOUS
<1> USE DEF goalVars
<1>1. ASSUME UNCHANGED goalVars PROVE ManualUnpinned'
  BY <1>1 DEF ManualUnpinned
<1>2. ASSUME NEW a \in Attempt, NEW target \in [via : Vias, device : Device \cup {None}], NEW s,
             Connect(a, target, s)
      PROVE  ManualUnpinned'
  <2>1. aim' = [aim EXCEPT ![a] = target] /\ pin' = [pin EXCEPT ![a] = Expected(target)]
    BY <1>2 DEF Connect
  <2>2. target.via = "manual" => Expected(target) = None
    BY DEF Expected
  <2> QED
    BY <2>1, <2>2 DEF ManualUnpinned, TypeOK
<1>3. ASSUME NEW a \in Attempt, NEW via \in {"manual", "qr"}, NEW d \in Device, BeginEndpoint(a, via, d)
      PROVE  ManualUnpinned'
  <2>1. [via |-> via, device |-> d] \in [via : Vias, device : Device \cup {None}]
    BY DEF Vias
  <2>2. Connect(a, [via |-> via, device |-> d], After(session, "BEGIN_DISCOVERY"))
    BY <1>3 DEF BeginEndpoint
  <2> QED
    BY <1>2, <2>1, <2>2
<1>4. CASE BeginBrowse \/ StartFails \/ CaptureFails \/ TapApprove \/ ApprovePairing \/ StopSession \/ OnDestroy
  BY <1>1, <1>4 DEF BeginBrowse, StartFails, CaptureFails, IntentFails, TapApprove, ApprovePairing,
                    StopSession, OnDestroy
<1>5. ASSUME NEW a \in Attempt, RunPosted(a) PROVE ManualUnpinned'
  <2>1. UNCHANGED goalVars \/ Connect(a, aim[a], session)
    BY <1>5 DEF RunPosted
  <2>2. aim[a] \in [via : Vias, device : Device \cup {None}]
    BY DEF TypeOK
  <2> QED
    BY <1>1, <1>2, <2>1, <2>2
<1>6. ASSUME NEW a \in Attempt, Coroutine(a), ~RunPosted(a) PROVE ManualUnpinned'
  BY <1>1, <1>6 DEF Coroutine, ConnectCancelled, ConnectBroken, ConnectMisled, ConnectFails, ConnectPinned,
                    ConnectPrompts
<1>7. ASSUME NEW a \in Attempt, DialStarts(a) \/ Dial(a) \/ Hello(a) PROVE ManualUnpinned'
  BY <1>1, <1>7 DEF DialStarts, Dial, DialFails, DialSucceeds, DialRefused, Hello, HelloSucceeds, HelloFails,
                    OutsideConnect
<1>8. ASSUME NEW a \in Attempt, Receive(a) PROVE ManualUnpinned'
  BY <1>1, <1>8 DEF Receive, RxEnds, RxFails, RxFailApplies, RxFailReports, OutsideRx
<1>9. ASSUME NEW a \in Attempt, NsdLaunches(a) PROVE ManualUnpinned'
  <2>1. aim' = [aim EXCEPT ![a] = [via |-> "advert", device |-> nsd.device]] /\ pin' = pin
    BY <1>9 DEF NsdLaunches, OutsideNsd
  <2> QED
    BY <2>1 DEF ManualUnpinned, TypeOK
<1>10. CASE Nsd /\ ~\E a \in Attempt : NsdLaunches(a)
  <2>1. aim' = aim
    <3>1. ASSUME NEW d \in Device, NsdResolves(d) PROVE aim' = aim
      BY <3>1 DEF NsdResolves
    <3> QED
      BY <1>10, <3>1 DEF Nsd, NsdApplies, NsdChecksAgain, NsdAssigns, NsdFails, NsdFailApplies, NsdFailReports
  <2>2. pin' = pin
    BY <1>10, NsdStep DEF OutsideNsd
  <2> QED
    BY <1>1, <2>1, <2>2
<1>11. CASE UNCHANGED vars
  BY <1>1, <1>11 DEF vars
<1> QED
  BY <1>3, <1>4, <1>5, <1>6, <1>7, <1>8, <1>9, <1>10, <1>11 DEF Next, Intents

\* No event but an identity match or an approval brings the word "established" to
\* the screen.
LEMMA AfterUi ==
    ASSUME NEW s \in Sessions, NEW event \in ServiceEvents \ {"IDENTITY_MATCHES", "PAIRING_APPROVED"},
           After(s, event).ui = "ESTABLISHED"
    PROVE  s.ui = "ESTABLISHED"
<1>1. CASE After(s, event) = s
  BY <1>1
<1>2. CASE After(s, event) # s
  <2>1. /\ Accepts(s.machine, event)
        /\ After(s, event) = [s EXCEPT !.machine = Apply(s.machine, event), !.ui = Apply(s.machine, event).state]
    BY <1>2 DEF After
  <2>2. Apply(s.machine, event).state = "ESTABLISHED"
    BY <2>1 DEF Sessions
  <2>3. event \in Events \cap DOMAIN Target(s.machine.state) /\ s.machine.state \in States
    BY <2>1 DEF Accepts, ServiceEvents, Sessions, Machines
  <2>4. Apply(s.machine, event).state = Target(s.machine.state)[event]
    BY <2>1 DEF Apply, ServiceEvents
  <2> QED
    BY <2>2, <2>3, <2>4, EstablishingEvents DEF ServiceEvents
<1> QED
  BY <1>1, <1>2

\* An attempt whose own step shows the session as established has passed its pin.
LEMMA UnaskedStep ==
    ASSUME TypeOK, [Next]_vars, NEW a \in Attempt, phase'[a] # phase[a],
           session.ui # "ESTABLISHED", session'.ui = "ESTABLISHED"
    PROVE  ConnectPinned(a)
<1>0. /\ session \in Sessions
      /\ {"BEGIN_DISCOVERY", "TLS_STARTED", "TLS_SUCCEEDED", "PAIRING_NEEDED", "FAILURE"}
            \subseteq ServiceEvents \ {"IDENTITY_MATCHES", "PAIRING_APPROVED"}
  BY DEF TypeOK, ServiceEvents, Events
<1>1. \A s \in Sessions, state \in States : Shown(s, state).ui = state
  BY DEF Shown, Sessions
<1>2. {"TLS_HANDSHAKING", "FAILED", "PAIRING_REQUIRED"} \subseteq States \ {"ESTABLISHED"}
  BY DEF States
<1>3. ASSUME NEW s \in Sessions PROVE Failed(s).ui # "ESTABLISHED"
  <2>1. "FAILURE" \in ServiceEvents
    BY <1>0
  <2>2. After(s, "FAILURE") \in Sessions
    BY <2>1, AfterFacts
  <2>3. "FAILED" \in States
    BY <1>2
  <2>4. Shown(After(s, "FAILURE"), "FAILED").ui = "FAILED"
    BY <1>1, <2>2, <2>3
  <2> QED
    BY <2>4 DEF Failed
<1>4. After(session, "TLS_SUCCEEDED") \in Sessions /\ After(session, "TLS_SUCCEEDED").ui # "ESTABLISHED"
  BY <1>0, AfterFacts, AfterUi
<1>5. ASSUME session' = session PROVE FALSE
  BY <1>5
<1>6. ASSUME phase' = phase PROVE FALSE
  BY <1>6
<1>7. ASSUME NEW b \in Attempt, NEW target, NEW s \in Sessions, Connect(b, target, s) PROVE FALSE
  <2>1. After(s, "TLS_STARTED") \in Sessions
    BY <1>0, AfterFacts
  <2> QED
    BY <1>1, <1>2, <1>7, <2>1 DEF Connect
<1>8. CASE Intents
  <2>1. ASSUME NEW b \in Attempt, NEW via \in {"manual", "qr"}, NEW d \in Device, BeginEndpoint(b, via, d)
        PROVE  FALSE
    <3>1. After(session, "BEGIN_DISCOVERY") \in Sessions
      BY <1>0, AfterFacts
    <3> QED
      BY <1>7, <2>1, <3>1 DEF BeginEndpoint
  <2> QED
    BY <1>6, <1>8, <2>1 DEF Intents, BeginBrowse, StartFails, CaptureFails, IntentFails, TapApprove,
                            ApprovePairing, StopSession, OnDestroy
<1>9. ASSUME NEW b \in Attempt, Coroutine(b) PROVE ConnectPinned(a)
  <2>1. CASE RunPosted(b)
    BY <1>0, <1>5, <1>7, <2>1 DEF RunPosted
  <2>2. CASE ConnectCancelled(b)
    BY <1>5, <2>2 DEF ConnectCancelled
  <2>3. CASE ConnectBroken(b) \/ ConnectMisled(b)
    BY <1>0, <1>3, <1>4, <2>3 DEF ConnectBroken, ConnectMisled, ConnectFails
  <2>4. CASE ConnectPinned(b)
    <3>1. phase' = [phase EXCEPT ![b] = "done"]
      BY <2>4 DEF ConnectPinned
    <3>2. a = b
      BY <3>1 DEF TypeOK
    <3> QED
      BY <2>4, <3>2
  <2>5. CASE ConnectPrompts(b)
    <3>1. After(After(session, "TLS_SUCCEEDED"), "PAIRING_NEEDED") \in Sessions
      BY <1>0, <1>4, AfterFacts
    <3> QED
      BY <1>1, <1>2, <2>5, <3>1 DEF ConnectPrompts
  <2> QED
    BY <1>9, <2>1, <2>2, <2>3, <2>4, <2>5 DEF Coroutine
<1>10. ASSUME NEW b \in Attempt, DialStarts(b) \/ Dial(b) \/ Hello(b) PROVE FALSE
  BY <1>5, <1>10 DEF DialStarts, Dial, DialFails, DialSucceeds, DialRefused, Hello, HelloSucceeds, HelloFails,
                     OutsideConnect
<1>11. ASSUME NEW b \in Attempt, Receive(b) PROVE FALSE
  BY <1>6, <1>11 DEF Receive, RxEnds, RxFails, RxFailApplies, RxFailReports, OutsideRx
<1>12. CASE Nsd
  <2>1. ASSUME NEW b \in Attempt, NsdLaunches(b) PROVE FALSE
    BY <1>5, <2>1 DEF NsdLaunches
  <2>2. ASSUME NEW d \in Device, NsdResolves(d) PROVE FALSE
    BY <1>5, <2>2 DEF NsdResolves
  <2> QED
    BY <1>6, <1>12, <2>1, <2>2
    DEF Nsd, NsdApplies, NsdChecksAgain, NsdAssigns, NsdFails, NsdFailApplies, NsdFailReports
<1>13. CASE UNCHANGED vars
  BY <1>5, <1>13 DEF vars
<1> QED
  BY <1>8, <1>9, <1>10, <1>11, <1>12, <1>13 DEF Next

\* Without the user nobody is established but the known device the attempt was for,
\* whatever is approved or begun between the choice of the pin and the answer.
THEOREM UnaskedIsVerified == Spec => UnaskedIsKnown
<1>1. Init => ManualUnpinned
  BY DEF Init, ManualUnpinned
<1>2. IInv /\ ManualUnpinned /\ [Next]_vars => ManualUnpinned'
  BY ManualStep DEF IInv
<1>3. ASSUME IInv, ManualUnpinned, [Next]_vars, NEW a \in Attempt, phase'[a] # phase[a],
             session.ui # "ESTABLISHED", session'.ui = "ESTABLISHED"
      PROVE  peer[a] = aim[a].device /\ peer[a] \in known
  <2>1. ConnectPinned(a) /\ peer[a] \in known
    BY <1>3, UnaskedStep, PinnedIsKnown DEF IInv, ServiceInv
  <2>2. pin[a] # None /\ ~Misled(a)
    BY <2>1 DEF ConnectPinned, Verified
  <2> QED
    BY <1>3, <2>1, <2>2 DEF ManualUnpinned, Misled
<1>4. IInv /\ ManualUnpinned /\ [Next]_vars =>
         [\A a \in Attempt :
             /\ phase'[a] # phase[a]
             /\ session.ui # "ESTABLISHED" /\ session'.ui = "ESTABLISHED"
             => peer[a] = aim[a].device /\ peer[a] \in known]_vars
  BY <1>3
<1> QED
  BY <1>1, <1>2, <1>4, Invariance, PTL DEF Spec, UnaskedIsKnown

\* Attempts that keep apart keep the approved client the one with the approved peer.
LEMMA AloneStep ==
    ASSUME TypeOK, TrustInv, AloneInv, [Next]_vars, [Alone]_vars
    PROVE  AloneInv'
<1>1. known \subseteq known' /\ \A a \in Attempt : peer[a] # None => peer'[a] = peer[a]
  BY PeersStay
<1>2. ASSUME NEW a \in Attempt, rx'[a] = "reading" PROVE peer'[a] \in known'
  <2>1. peer[a] \in known => peer[a] # None
    BY DEF TypeOK
  <2>2. CASE rx[a] = "reading"
    BY <1>1, <2>1, <2>2 DEF AloneInv
  <2>3. CASE ConnectPinned(a)
    BY <1>1, <2>1, <2>3, PinnedIsKnown
  <2>4. CASE pendingPeer # None /\ client = a /\ known' = known \cup {pendingPeer} /\ peer' = peer
    <3>1. a # None
      BY ServiceAssumption
    <3> QED
      BY <2>4, <3>1 DEF AloneInv
  <2> QED
    BY <1>2, <2>2, <2>3, <2>4, ReadingStep
<1>3. ASSUME NEW a \in Attempt, NEW target \in [via : Vias, device : Device], NEW s,
             Connect(a, target, s), phase[a] \in {"unused", "posted"}
      PROVE  /\ pendingPeer' = None
             /\ client' = a
             /\ \A b \in Attempt : phase'[b] \in UnderWay => b = a
  <2>1. /\ client' = a
        /\ phase'[a] = "dispatched" /\ phase[a] # "dispatched"
        /\ \A b \in Attempt \ {a} : phase'[b] = phase[b]
    BY <1>3 DEF Connect, TypeOK
  <2>2. Alone
    BY <2>1 DEF vars
  <2> QED
    BY <2>1, <2>2 DEF Alone
<1>4. \A a \in Attempt : phase'[a] \in UnderWay => client' \in {a, None}
  BY <1>3, ClientStep DEF AloneInv
<1>5. ASSUME pendingPeer' # None, client' # None PROVE peer'[client'] = pendingPeer'
  <2>1. client' = client
    BY <1>3, <1>5, ClientStep
  <2>2. client \in Attempt
    BY <1>5, <2>1 DEF TypeOK
  <2>3. CASE pendingPeer' = pendingPeer
    BY <1>1, <1>5, <2>1, <2>2, <2>3 DEF AloneInv
  <2>4. ASSUME NEW a \in Attempt, ConnectPrompts(a) PROVE peer'[client'] = pendingPeer'
    <3>1. phase[a] = "ready" /\ pendingPeer' = peer[a] /\ peer' = peer
      BY <2>4 DEF ConnectPrompts, Connected
    <3>2. client = a
      BY <1>5, <2>1, <3>1 DEF AloneInv, UnderWay
    <3> QED
      BY <2>1, <3>1, <3>2
  <2> QED
    BY <1>5, <2>3, <2>4, PendingStep
<1> QED
  BY <1>2, <1>4, <1>5 DEF AloneInv

\* The class comment's promise holds for as long as attempts keep apart: frames come
\* from approved peers only, if no attempt begins while another is under way or a
\* prompt is shown.
THEOREM AloneReceivesFromApproved == Spec /\ [][Alone]_vars => []ReceivesFromApproved
<1>1. Init => AloneInv
  BY DEF Init, AloneInv, UnderWay
<1>2. IInv /\ AloneInv /\ [Next]_vars /\ [Alone]_vars => AloneInv'
  BY AloneStep DEF IInv, ServiceInv
<1>3. AloneInv => ReceivesFromApproved
  BY DEF AloneInv, ReceivesFromApproved
<1> QED
  BY <1>1, <1>2, <1>3, Invariance, PTL DEF Spec

\* With attempts that keep apart, the pending peer is the one whose prompt the user
\* has tapped, nothing is under way while it waits, and one attempt at a time is.
TapInv ==
    /\ tapped # None => pendingPeer = tapped \/ gone
    /\ pendingPeer # None => \A a \in Attempt : phase[a] \notin UnderWay
    /\ \A a, b \in Attempt : phase[a] \in UnderWay /\ phase[b] \in UnderWay => a = b

\* What a step does to the tap: the approval consumes it, and the pending peer it is
\* about is replaced by a new prompt or dropped by onDestroy only.
LEMMA TapStep ==
    ASSUME [Next]_vars
    PROVE  /\ gone => gone'
           /\ \/ tapped' = None
              \/ tapped' = prompt /\ UNCHANGED uiVars
              \/ /\ tapped' = tapped
                 /\ gone' \/ pendingPeer' = pendingPeer \/ \E a \in Attempt : ConnectPrompts(a)
<1> USE DEF lifeVars, uiVars, userVars
<1>1. CASE Intents
  <2>1. CASE \E a \in Attempt, via \in {"manual", "qr"}, d \in Device : BeginEndpoint(a, via, d)
    BY <2>1 DEF BeginEndpoint, Begins, InOrder
  <2>2. CASE BeginBrowse \/ StartFails \/ CaptureFails
    BY <2>2 DEF BeginBrowse, Begins, StartFails, CaptureFails, IntentFails, InOrder
  <2>3. CASE TapApprove \/ ApprovePairing
    BY <2>3 DEF TapApprove, ApprovePairing
  <2>4. CASE StopSession
    BY <2>4 DEF StopSession, InOrder
  <2>5. CASE OnDestroy
    BY <2>5 DEF OnDestroy
  <2> QED
    BY <1>1, <2>1, <2>2, <2>3, <2>4, <2>5 DEF Intents
<1>2. ASSUME NEW a \in Attempt, Coroutine(a)
      PROVE  UNCHANGED <<gone, tapped>> /\ (pendingPeer' = pendingPeer \/ ConnectPrompts(a))
  BY <1>2 DEF Coroutine, RunPosted, ConnectCancelled, ConnectBroken, ConnectMisled, ConnectFails,
              ConnectPinned, ConnectPrompts
<1>3. ASSUME NEW a \in Attempt, DialStarts(a) \/ Dial(a) \/ Hello(a) PROVE UNCHANGED <<gone, tapped, pendingPeer>>
  BY <1>3 DEF DialStarts, Dial, DialFails, DialSucceeds, DialRefused, Hello, HelloSucceeds, HelloFails,
              OutsideConnect
<1>4. ASSUME NEW a \in Attempt, Receive(a) PROVE UNCHANGED <<gone, tapped, pendingPeer>>
  BY <1>4 DEF Receive, RxEnds, RxFails, RxFailApplies, RxFailReports, OutsideRx
<1>5. CASE Nsd
  BY <1>5, NsdStep DEF OutsideNsd
<1>6. CASE UNCHANGED vars
  BY <1>6 DEF vars
<1> QED
  BY <1>1, <1>2, <1>3, <1>4, <1>5, <1>6 DEF Next

\* Attempts that keep apart keep the prompt that was tapped.
LEMMA AloneTapStep ==
    ASSUME IInv, TapInv, [Next]_vars, [Alone]_vars
    PROVE  TapInv'
<1> USE DEF IInv, ServiceInv
<1>1. ASSUME NEW a \in Attempt, ConnectPrompts(a)
      PROVE  /\ tapped' = tapped /\ (tapped = None \/ gone) /\ gone' = gone
             /\ \A b \in Attempt : phase'[b] \notin UnderWay
  <2>1. /\ phase[a] = "ready" /\ ~cancelled[a]
        /\ phase' = [phase EXCEPT ![a] = "done"] /\ UNCHANGED <<lifeVars, userVars>>
    BY <1>1 DEF ConnectPrompts, Connected
  <2>2. phase[a] \in UnderWay /\ "done" \notin UnderWay
    BY <2>1 DEF UnderWay
  <2>3. \A b \in Attempt : phase'[b] \notin UnderWay
    BY <2>1, <2>2 DEF TapInv, TypeOK
  <2>4. tapped = None \/ gone
    BY <2>2 DEF TapInv, TypeOK
  <2> QED
    BY <2>1, <2>3, <2>4 DEF lifeVars, userVars
<1>2. ASSUME NEW a \in Attempt, NEW target \in [via : Vias, device : Device], NEW s,
             Connect(a, target, s), phase[a] \in {"unused", "posted"}
      PROVE  /\ pendingPeer' = None
             /\ \A b \in Attempt : phase'[b] \in UnderWay => b = a
  <2>1. /\ phase'[a] = "dispatched" /\ phase[a] # "dispatched"
        /\ \A b \in Attempt \ {a} : phase'[b] = phase[b]
    BY <1>2 DEF Connect, TypeOK
  <2>2. Alone
    BY <2>1 DEF vars
  <2> QED
    BY <2>1, <2>2 DEF Alone
<1>3. \/ pendingPeer' = None /\ \E a \in Attempt : \A b \in Attempt : phase'[b] \in UnderWay => b = a
      \/ \A a \in Attempt : phase'[a] \in UnderWay => phase[a] \in UnderWay
  BY <1>2, ClientStep
<1>4. tapped' # None => pendingPeer' = tapped' \/ gone'
  <2>1. prompt = pendingPeer
    BY DEF PromptIsPending
  <2> QED
    BY <1>1, <2>1, TapStep DEF TapInv, uiVars
<1>5. ASSUME pendingPeer' # None PROVE \A a \in Attempt : phase'[a] \notin UnderWay
  <2>1. CASE pendingPeer' = pendingPeer
    BY <1>3, <1>5, <2>1 DEF TapInv
  <2> QED
    BY <1>1, <1>5, <2>1, PendingStep
<1>6. \A a, b \in Attempt : phase'[a] \in UnderWay /\ phase'[b] \in UnderWay => a = b
  BY <1>3 DEF TapInv
<1> QED
  BY <1>4, <1>5, <1>6 DEF TapInv

\* So does its other half: if attempts keep apart, who becomes trusted is who the
\* user was shown when approving.
THEOREM AloneTrustsWhatWasTapped == Spec /\ [][Alone]_vars => TrustsWhatWasTapped
<1>1. Init => TapInv
  BY DEF Init, TapInv, UnderWay
<1>2. IInv /\ TapInv /\ [Next]_vars /\ [Alone]_vars => TapInv'
  BY AloneTapStep
<1>3. ASSUME IInv, TapInv, [Next]_vars, known' # known
      PROVE  known' = known \cup {tapped}
  <2>1. /\ ApprovePairing /\ session.machine.state = "PAIRING_REQUIRED"
        /\ known' = known \cup {pendingPeer}
    BY <1>3, KnownStep
  <2>2. ~gone
    BY <1>3, <2>1 DEF IInv, ServiceInv, StopInv, StoppedAtRest
  <2>3. tapped # None
    BY <2>1 DEF ApprovePairing
  <2> QED
    BY <1>3, <2>1, <2>2, <2>3 DEF TapInv
<1>4. IInv /\ TapInv /\ [Next]_vars => [known' # known => known' = known \cup {tapped}]_vars
  BY <1>3
<1> QED
  BY <1>1, <1>2, <1>4, Invariance, PTL DEF Spec, TrustsWhatWasTapped

------------------------------------------------------------------------------
(* When a prompt can be approved. *)

\* These events take a session's machine to no state outside K.
Keeps(K, E) ==
    \A s \in Sessions, event \in E : s.machine.state \in K => After(s, event).machine.state \in K

\* Where a step leaves the machine if the events other than a candidate's keep it in K.
LEMMA MachineStays ==
    ASSUME NEW K, Keeps(K, ServiceEvents \ {"CANDIDATE_FOUND"}),
           TypeOK, [Next]_vars, session.machine.state \in K
    PROVE  session'.machine.state \in K \cup {"CLOSING"} \/ NsdApplies
<1> DEFINE Stays(s) == s \in Sessions /\ s.machine.state \in K
<1>0. Stays(session)
  BY DEF TypeOK
<1>1. {"BEGIN_DISCOVERY", "TLS_STARTED", "TLS_SUCCEEDED", "IDENTITY_MATCHES", "PAIRING_NEEDED",
       "PAIRING_APPROVED", "FAILURE"} \subseteq ServiceEvents \ {"CANDIDATE_FOUND"}
  BY DEF ServiceEvents, Events
<1>2. ASSUME NEW s, Stays(s), NEW event \in ServiceEvents \ {"CANDIDATE_FOUND"}
      PROVE  Stays(After(s, event))
  BY <1>2, AfterFacts DEF Keeps
<1>3. ASSUME NEW s, Stays(s), NEW state \in States PROVE Stays(Shown(s, state))
  BY <1>3, ShownFacts
<1>4. {"DISCOVERING", "TLS_HANDSHAKING", "PAIRING_REQUIRED", "ESTABLISHED", "FAILED"} \subseteq States
  BY DEF States
<1> HIDE DEF Stays
<1>5. \A s : Stays(s) => Stays(Failed(s))
  BY <1>1, <1>2, <1>3, <1>4 DEF Failed
<1>6. Stays(After(session, "BEGIN_DISCOVERY"))
  BY <1>0, <1>1, <1>2
<1>7. CASE \E a \in Attempt, via \in {"manual", "qr"}, d \in Device : BeginEndpoint(a, via, d)
  <2>1. session' = Shown(After(After(session, "BEGIN_DISCOVERY"), "TLS_STARTED"), "TLS_HANDSHAKING")
    BY <1>7 DEF BeginEndpoint, Connect
  <2>2. Stays(After(After(session, "BEGIN_DISCOVERY"), "TLS_STARTED"))
    BY <1>1, <1>2, <1>6
  <2> QED
    BY <1>3, <1>4, <2>1, <2>2 DEF Stays
<1>8. CASE BeginBrowse
  <2>1. PICK s \in {After(session, "BEGIN_DISCOVERY"), Failed(After(session, "BEGIN_DISCOVERY"))} :
            session' = Shown(s, "DISCOVERING")
    BY <1>8 DEF BeginBrowse
  <2>2. Stays(s)
    BY <1>5, <1>6
  <2> QED
    BY <1>3, <1>4, <2>1, <2>2 DEF Stays
<1>9. CASE StartFails \/ CaptureFails
  BY <1>0, <1>5, <1>9 DEF StartFails, CaptureFails, IntentFails, Stays
<1>10. CASE ApprovePairing
  <2>1. Stays(Shown(After(session, "PAIRING_APPROVED"), "ESTABLISHED"))
    BY <1>0, <1>1, <1>2, <1>3, <1>4
  <2> QED
    BY <1>0, <1>10, <2>1 DEF ApprovePairing, Stays
<1>11. CASE StopSession \/ OnDestroy
  <2>1. session' = session \/ session'.machine = Stop(session.machine)
    BY <1>11 DEF StopSession, OnDestroy, Teardown, TornDown
  <2>2. Stop(session.machine).state \in {session.machine.state, "CLOSING"}
    BY StopFacts DEF TypeOK, Sessions
  <2> QED
    BY <1>0, <2>1, <2>2 DEF Stays
<1>12. ASSUME NEW a \in Attempt, Coroutine(a) PROVE Stays(session')
  <2>1. CASE RunPosted(a)
    BY <1>0, <1>1, <1>2, <1>3, <1>4, <2>1 DEF RunPosted, Connect
  <2>2. CASE ConnectCancelled(a) \/ ConnectBroken(a)
    BY <1>0, <1>5, <2>2 DEF ConnectCancelled, ConnectBroken, ConnectFails
  <2>3. Stays(After(session, "TLS_SUCCEEDED"))
    BY <1>0, <1>1, <1>2
  <2>4. CASE ConnectMisled(a)
    BY <1>5, <2>3, <2>4 DEF ConnectMisled, ConnectFails
  <2>5. CASE ConnectPinned(a) \/ ConnectPrompts(a)
    <3>1. /\ Stays(After(After(session, "TLS_SUCCEEDED"), "IDENTITY_MATCHES"))
          /\ Stays(After(After(session, "TLS_SUCCEEDED"), "PAIRING_NEEDED"))
      BY <1>1, <1>2, <2>3
    <3> QED
      BY <1>3, <1>4, <2>5, <3>1 DEF ConnectPinned, ConnectPrompts
  <2> QED
    BY <1>12, <2>1, <2>2, <2>4, <2>5 DEF Coroutine
<1>13. ASSUME NEW a \in Attempt, Receive(a) PROVE Stays(session')
  BY <1>0, <1>1, <1>2, <1>3, <1>4, <1>13 DEF Receive, RxEnds, RxFails, RxFailApplies, RxFailReports
<1>14. CASE Nsd /\ ~NsdApplies
  <2>1. \/ session' = session
        \/ session' = After(session, "FAILURE")
        \/ session' = Shown(session, "FAILED")
    <3>1. ASSUME NEW d \in Device, NsdResolves(d) PROVE session' = session
      BY <3>1 DEF NsdResolves
    <3>2. ASSUME NEW a \in Attempt, NsdLaunches(a) PROVE session' = session
      BY <3>2 DEF NsdLaunches
    <3>3. CASE NsdChecksAgain \/ NsdAssigns \/ NsdFails
      BY <3>3 DEF NsdChecksAgain, NsdAssigns, NsdFails
    <3>4. CASE NsdFailApplies \/ NsdFailReports
      BY <3>4 DEF NsdFailApplies, NsdFailReports
    <3> QED
      BY <1>14, <3>1, <3>2, <3>3, <3>4 DEF Nsd
  <2>2. Stays(After(session, "FAILURE")) /\ Stays(Shown(session, "FAILED"))
    BY <1>0, <1>1, <1>2, <1>3, <1>4
  <2> QED
    BY <1>0, <2>1, <2>2 DEF Stays
<1>15. ASSUME session' = session PROVE session'.machine.state \in K
  BY <1>15
<1>16. CASE TapApprove \/ UNCHANGED vars
  BY <1>15, <1>16 DEF TapApprove, vars
<1>17. ASSUME NEW a \in Attempt, DialStarts(a) \/ Dial(a) \/ Hello(a) PROVE session' = session
  BY <1>17 DEF DialStarts, Dial, DialFails, DialSucceeds, DialRefused, Hello, HelloSucceeds, HelloFails,
              OutsideConnect
<1>18. Stays(session') => session'.machine.state \in K
  BY DEF Stays
<1> QED
  BY <1>7, <1>8, <1>9, <1>10, <1>11, <1>12, <1>13, <1>14, <1>15, <1>16, <1>17, <1>18 DEF Next, Intents

\* Before a candidate the machine is in one of these.
Waiting == {"IDLE", "DISCOVERING", "CLOSING"}

\* Only a candidate takes the machine out of DISCOVERING, and nothing but a stop
\* takes it out of FAILED.
LEMMA WaitingAndFailedKept ==
    Keeps(Waiting, ServiceEvents \ {"CANDIDATE_FOUND"}) /\ Keeps({"FAILED"}, ServiceEvents)
<1>1. ASSUME NEW s \in Sessions, NEW event \in ServiceEvents,
             ~Accepts(s.machine, event)
      PROVE  After(s, event) = s
  BY <1>1 DEF After
<1>2. ASSUME NEW s \in Sessions, NEW event \in ServiceEvents, s.machine.state \in {"CLOSING", "FAILED"}
      PROVE  ~Accepts(s.machine, event)
  <2>1. event \notin {"STOP", "CLOSED", "none"}
    BY DEF ServiceEvents, Events
  <2>2. DOMAIN Target(s.machine.state) = {"none"}
    BY <1>2 DEF Target
  <2> QED
    BY <2>1, <2>2 DEF Accepts
<1>3. ASSUME NEW s \in Sessions, NEW event \in ServiceEvents \ {"CANDIDATE_FOUND"},
             s.machine.state = "DISCOVERING"
      PROVE  ~Accepts(s.machine, event)
  <2>1. event \notin {"STOP", "CLOSED"}
    BY DEF ServiceEvents
  <2>2. DOMAIN Target(s.machine.state) = {"CANDIDATE_FOUND"}
    BY <1>3 DEF Target
  <2> QED
    BY <2>1, <2>2 DEF Accepts
<1>4. ASSUME NEW s \in Sessions, NEW event \in ServiceEvents, s.machine.state = "IDLE"
      PROVE  After(s, event).machine.state \in {"IDLE", "DISCOVERING"}
  <2>1. CASE ~Accepts(s.machine, event)
    BY <1>1, <1>4, <2>1
  <2>2. CASE Accepts(s.machine, event)
    <3>1. event \notin {"STOP", "CLOSED"} /\ event \in Events
      BY DEF ServiceEvents
    <3>2. event = "BEGIN_DISCOVERY"
      BY <1>4, <2>2, <3>1 DEF Accepts, Target
    <3>3. Apply(s.machine, event).state = "DISCOVERING"
      BY <1>4, <2>2, <3>2 DEF Apply, Target
    <3>4. After(s, event) = [s EXCEPT !.machine = Apply(s.machine, event), !.ui = Apply(s.machine, event).state]
      BY <2>2, <3>2 DEF After
    <3> QED
      BY <3>3, <3>4 DEF Sessions
  <2> QED
    BY <2>1, <2>2
<1> QED
  BY <1>1, <1>2, <1>3, <1>4 DEF Keeps, Waiting

\* Until NSD has found a candidate the machine waits for one: an endpoint typed in
\* or scanned from a QR code does not move it, whatever the screen shows, so that no
\* prompt can be approved and nobody becomes known.
THEOREM NoPairingWithoutCandidate ==
  Spec /\ [][~NsdApplies]_vars => [](session.machine.state \in Waiting) /\ [][known' = known]_vars
<1>1. Init => session.machine.state \in Waiting
  BY DEF Init, NewMachine, Waiting
<1>2. /\ TypeOK /\ session.machine.state \in Waiting
      /\ [Next]_vars /\ [~NsdApplies]_vars
      => (session.machine.state \in Waiting)'
  <2> SUFFICES ASSUME TypeOK, session.machine.state \in Waiting, [Next]_vars, [~NsdApplies]_vars
               PROVE  session'.machine.state \in Waiting
    OBVIOUS
  <2>1. CASE ~NsdApplies
    BY <2>1, WaitingAndFailedKept, MachineStays DEF Waiting
  <2>2. CASE UNCHANGED vars
    BY <2>2 DEF vars
  <2> QED
    BY <2>1, <2>2
<1>3. session.machine.state \in Waiting /\ [Next]_vars => [known' = known]_vars
  BY KnownStep DEF Waiting
<1> QED
  BY <1>1, <1>2, <1>3, TypeCorrect, PTL DEF Spec

\* A session machine that has failed moves to CLOSING at most: a start after a
\* failure browses and connects again, and its session cannot be established, nor
\* its prompt approved, before the service is created anew.
THEOREM FailureIsFinal ==
  Spec => [][session.machine.state = "FAILED" => session'.machine.state \in {"FAILED", "CLOSING"}]_vars
<1>1. ASSUME TypeOK, [Next]_vars, session.machine.state = "FAILED"
      PROVE  session'.machine.state \in {"FAILED", "CLOSING"}
  <2>1. Keeps({"FAILED"}, ServiceEvents) /\ Keeps({"FAILED"}, ServiceEvents \ {"CANDIDATE_FOUND"})
    BY WaitingAndFailedKept DEF Keeps
  <2>2. CASE NsdApplies
    <3>1. session \in Sessions /\ "CANDIDATE_FOUND" \in ServiceEvents
      BY <1>1 DEF TypeOK, ServiceEvents, Events
    <3> QED
      BY <1>1, <2>1, <2>2, <3>1 DEF NsdApplies, Keeps
  <2>3. CASE ~NsdApplies
    BY <1>1, <2>1, <2>3, MachineStays
  <2> QED
    BY <2>2, <2>3
<1>2. TypeOK /\ [Next]_vars =>
         [session.machine.state = "FAILED" => session'.machine.state \in {"FAILED", "CLOSING"}]_vars
  BY <1>1
<1> QED
  BY <1>2, TypeCorrect, PTL DEF Spec
==============================================================================
