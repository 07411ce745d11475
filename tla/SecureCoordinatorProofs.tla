----------------------- MODULE SecureCoordinatorProofs -----------------------
(* Proofs about SecureCoordinator, for every set of connections and senders. *)
EXTENDS SecureCoordinator, TLAPS

\* What every step preserves.
IInv == TypeOK /\ SessionInv

USE CoordinatorAssumption

\* A coordinator that has not been started satisfies the invariant.
LEMMA InitInv == Init => IInv
<1> SUFFICES ASSUME Init PROVE IInv
  OBVIOUS
<1> USE DEF Init
<1>1. TypeOK
  BY DEF TypeOK, ListenerStates, AcceptPcs, ServingPcs, StreamStates, ControlPcs, SendPcs, RemoteStates
<1>2. LifecycleInv
  BY DEF LifecycleInv
<1>3. ServingInv
  BY DEF ServingInv, PublishedPcs
<1>4. HolderInv
  BY DEF HolderInv, Published
<1>5. RemoteInv
  BY DEF RemoteInv
<1> QED
  BY <1>1, <1>2, <1>3, <1>4, <1>5 DEF IInv, SessionInv

\* Every step of the controller, the accept thread, a sender or a remote keeps it.
LEMMA StepInv == IInv /\ [Next]_vars => IInv'
<1> SUFFICES ASSUME IInv, [Next]_vars PROVE IInv'
  OBVIOUS
<1> USE DEF IInv, TypeOK, SessionInv, LifecycleInv, ServingInv, HolderInv, RemoteInv,
            Published, PublishedPcs, ListenerStates, AcceptPcs, ServingPcs, StreamStates,
            ControlPcs, SendPcs, RemoteStates, Survives, accVars, peerVars, ctlVars, sendVars
<1>1. CASE Start
  BY <1>1 DEF Start
<1>2. CASE StopBegin
  BY <1>2 DEF StopBegin
<1>3. CASE StopPeer
  BY <1>3 DEF StopPeer, PeerStop, PeerStopUnlocked, Locked, LockedForAck
<1>4. CASE StopCoordinator
  <2> USE <1>4 DEF StopCoordinator
  <2>1. TypeOK'
    <3>1. CASE running
      <4>1. remote' = [c \in Conn |-> IF remote[c] = "queued" THEN "closed" ELSE remote[c]]
        BY <3>1
      <4>2. \A c \in Conn : remote[c] \in RemoteStates
        OBVIOUS
      <4>3. remote' \in [Conn -> RemoteStates]
        BY <4>1, <4>2
      <4>4. running' \in BOOLEAN
        BY <3>1
      <4> QED
        BY <3>1, <4>3, <4>4
    <3>2. CASE ~running
      BY <3>2
    <3> QED
      BY <3>1, <3>2
  <2>2. LifecycleInv'
    OBVIOUS
  <2>3. ServingInv'
    OBVIOUS
  <2>4. HolderInv'
    OBVIOUS
  <2>5. RemoteInv'
    OBVIOUS
  <2> QED
    BY <2>1, <2>2, <2>3, <2>4, <2>5
<1>5. CASE Join
  BY <1>5 DEF Join
<1>6. CASE StopReset
  BY <1>6 DEF StopReset
<1>7. CASE AcceptExit
  BY <1>7 DEF AcceptExit
<1>8. ASSUME NEW c \in Conn, Accept(c) PROVE IInv'
  BY <1>8 DEF Accept
<1>9. CASE HandshakeOk
  BY <1>9 DEF HandshakeOk
<1>10. CASE HelloOk
  BY <1>10 DEF HelloOk
<1>11. CASE EstablishFail
  BY <1>11 DEF EstablishFail, HandleSocketReturns
<1>12. CASE Publish
  BY <1>12 DEF Publish, HandleSocketReturns
<1>13. CASE RunLoop
  BY <1>13 DEF RunLoop
<1>14. CASE ReadFrame
  BY <1>14 DEF ReadFrame
<1>15. CASE ReadFail
  BY <1>15 DEF ReadFail
<1>16. CASE ReadAfterFree
  BY <1>16 DEF ReadAfterFree
<1>17. CASE AckLock
  BY <1>17 DEF AckLock, Locked, LockedForAck
<1>18. CASE AckDone
  BY <1>18 DEF AckDone
<1>19. CASE AckFail
  BY <1>19 DEF AckFail
<1>20. CASE Finish
  BY <1>20 DEF Finish, PeerStop, PeerStopUnlocked, Locked, LockedForAck
<1>21. CASE Clear
  BY <1>21 DEF Clear, HandleSocketReturns
<1>22. ASSUME NEW s \in Senders, SendCopy(s) PROVE IInv'
  BY <1>22 DEF SendCopy
<1>23. ASSUME NEW s \in Senders, SendLock(s) PROVE IInv'
  BY <1>23 DEF SendLock, SendReturns, Locked, LockedForAck
<1>24. ASSUME NEW s \in Senders, SendDone(s) PROVE IInv'
  BY <1>24 DEF SendDone, SendReturns
<1>25. ASSUME NEW s \in Senders, SendFail(s) PROVE IInv'
  BY <1>25 DEF SendFail, SendReturns
<1>26. ASSUME NEW s \in Senders, SendAfterFree(s) PROVE IInv'
  BY <1>26 DEF SendAfterFree, SendReturns
<1>27. ASSUME NEW c \in Conn, RemoteConnect(c) PROVE IInv'
  BY <1>27 DEF RemoteConnect
<1>28. ASSUME NEW c \in Conn, RemoteGivesUp(c) PROVE IInv'
  BY <1>28 DEF RemoteGivesUp
<1>29. ASSUME NEW c \in Conn, RemoteHangsUp(c) PROVE IInv'
  BY <1>29 DEF RemoteHangsUp
<1>30. CASE Crash
  BY <1>30 DEF Crash
<1>31. CASE Dead
  BY <1>31 DEF Dead, vars
<1>32. CASE UNCHANGED vars
  BY <1>32 DEF vars
<1> QED
  BY <1>1, <1>2, <1>3, <1>4, <1>5, <1>6, <1>7, <1>8, <1>9, <1>10, <1>11, <1>12, <1>13, <1>14, <1>15, <1>16, <1>17, <1>18, <1>19, <1>20, <1>21, <1>22, <1>23, <1>24, <1>25, <1>26, <1>27, <1>28, <1>29, <1>30, <1>31, <1>32
  DEF Next, Controller, AcceptThread, Sender, Remote

\* The inductive invariant holds throughout.
THEOREM Invariance == Spec => []IInv
<1>1. Init => IInv
  BY InitInv
<1>2. IInv /\ [Next]_vars => IInv'
  BY StepInv
<1> QED
  BY <1>1, <1>2, PTL DEF Spec

\* Every variable keeps its type, for any number of connections and senders.
THEOREM TypeCorrect == Spec => []TypeOK
<1>1. IInv => TypeOK
  BY DEF IInv
<1> QED
  BY <1>1, Invariance, PTL

\* handle_socket never serves, publishes or finds two sessions.
THEOREM SingleSession == Spec => []OneSession
<1>1. IInv => OneSession
  BY DEF IInv, SessionInv, ServingInv, OneSession, PublishedPcs
<1> QED
  BY <1>1, Invariance, PTL

\* A sender inside SSL_write keeps the accept thread from destroying the Stream.
THEOREM WritersAreSafe == Spec => []WriteHoldsSession
<1>1. IInv => WriteHoldsSession
  <2> SUFFICES ASSUME IInv, NEW s \in Senders, sendPc[s] = "writing"
               PROVE  /\ sendPeer[s] = sock
                      /\ stream[sock] # "destroyed"
                      /\ accPc \notin {"handshake", "hello", "publish", "clear"}
    BY DEF WriteHoldsSession
  <2>1. sendPeer[s] = sock /\ accPc \in {"run", "read", "ack", "finish"}
    BY DEF IInv, SessionInv, HolderInv
  <2>2. sock \in Conn
    BY <2>1 DEF IInv, TypeOK, ServingPcs
  <2> QED
    BY <2>1, <2>2 DEF IInv, SessionInv, ServingInv
<1> QED
  BY <1>1, Invariance, PTL

\* write_mutex_ keeps SSL_write to one thread: two senders, or a sender and the accept
\* thread with its heartbeat ack, never write at once.
THEOREM SingleWriter == Spec => []OneWriter
<1>1. IInv => OneWriter
  BY DEF IInv, SessionInv, HolderInv, OneWriter
<1> QED
  BY <1>1, Invariance, PTL

\* Once stop has returned, nothing of the coordinator is left behind.
THEOREM StopReleases == Spec => []StopReleasesAll
<1>1. IInv => StopReleasesAll
  <2> SUFFICES ASSUME IInv, ctlPc = "idle", ~running
               PROVE  /\ accPc = "none" /\ listener = "none"
                      /\ activePeer = None
                      /\ \A c \in Conn : /\ ~established[c]
                                         /\ stream[c] \in {"absent", "destroyed"}
                                         /\ remote[c] \in {"away", "closed"}
    BY DEF StopReleasesAll
  <2>1. accPc = "none" /\ listener = "none"
    BY DEF IInv, SessionInv, LifecycleInv
  <2>2. activePeer = None /\ sock \notin Conn
    BY <2>1 DEF IInv, SessionInv, ServingInv, PublishedPcs, TypeOK, ServingPcs
  <2>3. ASSUME NEW c \in Conn
        PROVE  /\ ~established[c]
               /\ stream[c] \in {"absent", "destroyed"}
               /\ remote[c] \in {"away", "closed"}
    <3>1. ~established[c] /\ stream[c] \notin {"open", "closed"}
      BY <2>2 DEF IInv, SessionInv, ServingInv
    <3>2. remote[c] \notin {"queued", "connected"}
      BY <2>2 DEF IInv, SessionInv, RemoteInv
    <3> QED
      BY <3>1, <3>2 DEF IInv, TypeOK, StreamStates, RemoteStates
  <2> QED
    BY <2>1, <2>2, <2>3
<1> QED
  BY <1>1, Invariance, PTL

\* A thread inside SSL_accept, SSL_read or SSL_write.
WritesInTls == accPc = "acking" \/ \E s \in Senders : sendPc[s] = "writing"
InTls == accPc \in {"handshake", "hello", "read"} \/ WritesInTls

\* The accept thread is out of TLS and holds no one up: its next step is its own.
AcceptCanGo ==
    \/ accPc \in {"publish", "run", "clear"}
    \/ accPc = "loop" /\ ~running
    \/ accPc \in {"ack", "finish"} /\ ~Locked(sock)

\* A stop, a send or an ack waits for write_mutex_ only while another thread is
\* inside SSL_write; and the join of a stop waits only for an accept thread that
\* has a step of its own to take or is, like whoever it waits for, inside TLS.
OnlyTlsDelays ==
    /\ ctlPc = "stopPeer" => ~Locked(ctlPeer) \/ WritesInTls
    /\ \A s \in Senders : sendPc[s] = "copied" => ~Locked(sendPeer[s]) \/ WritesInTls
    /\ accPc \in {"ack", "finish"} => ~Locked(sock) \/ \E s \in Senders : sendPc[s] = "writing"
    /\ ctlPc = "join" => accPc = "exited" \/ AcceptCanGo \/ InTls

\* The three locks and the join never leave everyone waiting on everyone: what a
\* caller of stop or send waits for is, in the end, always one TLS call.
THEOREM NoLockCycle == Spec => []OnlyTlsDelays
<1>1. IInv => OnlyTlsDelays
  <2> SUFFICES ASSUME IInv PROVE OnlyTlsDelays
    OBVIOUS
  <2>1. ASSUME NEW c, Locked(c) PROVE WritesInTls
    BY <2>1 DEF Locked, LockedForAck, WritesInTls
  <2>2. ASSUME accPc \in {"ack", "finish"}, Locked(sock)
        PROVE  \E s \in Senders : sendPc[s] = "writing"
    BY <2>2 DEF Locked, LockedForAck
  <2>3. ASSUME ctlPc = "join" PROVE accPc = "exited" \/ AcceptCanGo \/ InTls
    <3>1. accPc \in AcceptPcs \ {"none"} /\ ~running
      BY <2>3 DEF IInv, TypeOK, SessionInv, LifecycleInv
    <3>2. CASE accPc \in {"ack", "finish"} /\ Locked(sock)
      BY <3>2, <2>2 DEF InTls, WritesInTls
    <3>3. CASE ~(accPc \in {"ack", "finish"} /\ Locked(sock))
      BY <3>1, <3>3 DEF AcceptPcs, ServingPcs, AcceptCanGo, InTls, WritesInTls
    <3> QED BY <3>2, <3>3
  <2> QED BY <2>1, <2>2, <2>3 DEF OnlyTlsDelays
<1> QED
  BY <1>1, Invariance, PTL

\* The active session changes hands only through None, with its stream closed.
THEOREM Handover == Spec => SessionHandover
<1>1. IInv /\ [Next]_vars =>
        [activePeer # None /\ activePeer' # activePeer =>
            activePeer' = None /\ stream[activePeer] # "open"]_vars
  <2> SUFFICES ASSUME IInv, Next, activePeer # None, activePeer' # activePeer
               PROVE  activePeer' = None /\ stream[activePeer] # "open"
    OBVIOUS
  <2>1. CASE StopReset
    BY <2>1 DEF StopReset, IInv, SessionInv, LifecycleInv, ServingInv, PublishedPcs
  <2>2. CASE Publish
    BY <2>2 DEF Publish
  <2>3. CASE Clear
    BY <2>3 DEF Clear, IInv, SessionInv, ServingInv, PublishedPcs
  <2>4. CASE Controller /\ ~StopReset
    BY <2>4 DEF Controller, Start, StopBegin, StopPeer, StopCoordinator, Join, accVars
  <2>5. CASE AcceptThread /\ ~Publish /\ ~Clear
    BY <2>5 DEF AcceptThread, AcceptExit, Accept, HandshakeOk, HelloOk, EstablishFail, RunLoop,
                ReadFrame, ReadFail, ReadAfterFree, AckLock, AckDone, AckFail, Finish
  <2>6. CASE \E s \in Senders : Sender(s)
    BY <2>6 DEF Sender, SendCopy, SendLock, SendDone, SendFail, SendAfterFree, accVars
  <2>7. CASE \E c \in Conn : Remote(c)
    BY <2>7 DEF Remote, RemoteConnect, RemoteGivesUp, RemoteHangsUp, accVars
  <2>8. CASE Crash \/ Dead
    BY <2>8 DEF Crash, Dead, vars, accVars
  <2> QED
    BY <2>1, <2>2, <2>3, <2>4, <2>5, <2>6, <2>7, <2>8 DEF Next
<1> QED
  BY <1>1, Invariance, PTL DEF Spec, SessionHandover

------------------------------------------------------------------------------
(* The threads implement the single session slot. *)

\* Before the first start the slot is empty and the host is off.
LEMMA SlotInitially == Init => Slot!SlotInit
  BY DEF Init, Slot!SlotInit

\* Every step of the threads is a step of the slot or leaves it alone: Publish
\* opens it, Clear closes it, a failed establish turns a connection away.
LEMMA SlotStep == IInv /\ [Next]_vars => [Slot!SlotNext]_(Slot!slotVars)
<1> SUFFICES ASSUME IInv, [Next]_vars PROVE [Slot!SlotNext]_(Slot!slotVars)
  OBVIOUS
<1> DEFINE gone == {c \in Conn : stream[c] = "destroyed"}
<1> USE DEF Slot!slotVars, Slot!SlotNext
<1>1. CASE Start
  <2>1. accPc = "none" /\ accPc' = "loop" /\ activePeer' = activePeer /\ stream' = stream
    BY <1>1 DEF Start, IInv, SessionInv, LifecycleInv, peerVars
  <2> QED
    BY <2>1 DEF Slot!SwitchOn
<1>2. CASE Join
  <2>1. accPc # "none" /\ accPc' = "none" /\ activePeer' = activePeer /\ stream' = stream
    BY <1>2 DEF Join, peerVars
  <2>2. activePeer = None
    BY <1>2 DEF Join, IInv, SessionInv, ServingInv, PublishedPcs
  <2> QED
    BY <2>1, <2>2 DEF Slot!SwitchOff
<1>3. CASE StopReset
  BY <1>3 DEF StopReset, IInv, SessionInv, LifecycleInv, ServingInv, PublishedPcs, peerVars
<1>4. CASE EstablishFail
  <2>1. sock \in Conn /\ stream[sock] # "destroyed" /\ activePeer = None
    BY <1>4 DEF EstablishFail, IInv, TypeOK, ServingPcs, SessionInv, ServingInv, PublishedPcs
  <2>2. gone' = gone \cup {sock}
    BY <1>4, <2>1 DEF EstablishFail, HandleSocketReturns, IInv, TypeOK
  <2>3. accPc # "none" /\ accPc' # "none" /\ activePeer' = activePeer
    BY <1>4 DEF EstablishFail, HandleSocketReturns
  <2>4. Slot!TurnAway(sock)
    BY <2>1, <2>2, <2>3, CoordinatorAssumption DEF Slot!TurnAway
  <2> QED
    BY <2>1, <2>4 DEF Slot!TurnAway
<1>5. CASE Publish
  <2>1. sock \in Conn /\ stream[sock] # "destroyed" /\ activePeer = None
    BY <1>5 DEF Publish, IInv, TypeOK, ServingPcs, SessionInv, ServingInv, PublishedPcs
  <2>2. accPc # "none" /\ accPc' # "none" /\ activePeer' = sock /\ stream' = stream
    BY <1>5, <2>1 DEF Publish, peerVars
  <2>3. Slot!Open(sock)
    BY <2>1, <2>2 DEF Slot!Open
  <2> QED
    BY <2>1, <2>3
<1>6. CASE Clear
  <2>1. sock \in Conn /\ activePeer = sock
    BY <1>6 DEF Clear, IInv, TypeOK, ServingPcs, SessionInv, ServingInv, PublishedPcs
  <2>2. gone' = gone \cup {sock}
    BY <1>6, <2>1 DEF Clear, HandleSocketReturns, IInv, TypeOK
  <2>3. accPc # "none" /\ accPc' # "none" /\ activePeer' = None
    BY <1>6, <2>1 DEF Clear, HandleSocketReturns
  <2> QED
    BY <2>1, <2>2, <2>3, CoordinatorAssumption DEF Slot!Close
<1>7. CASE StopPeer \/ Finish
  <2>1. gone' = gone
    BY <1>7 DEF StopPeer, Finish, PeerStop, PeerStopUnlocked, IInv, TypeOK
  <2>2. activePeer' = activePeer /\ ((accPc = "none") <=> (accPc' = "none"))
    BY <1>7 DEF StopPeer, Finish, accVars
  <2> QED
    BY <2>1, <2>2
<1>8. ASSUME NEW c \in Conn, Accept(c) PROVE [Slot!SlotNext]_(Slot!slotVars)
  <2>1. stream[c] = "absent"
    BY <1>8 DEF Accept, IInv, SessionInv, RemoteInv
  <2>2. gone' = gone
    BY <1>8, <2>1 DEF Accept, IInv, TypeOK
  <2> QED
    BY <1>8, <2>2 DEF Accept
<1>9. CASE ReadFail \/ AckFail
  <2>1. stream[sock] = "open" /\ accPc # "none" /\ accPc' # "none" /\ activePeer' = activePeer
    BY <1>9 DEF ReadFail, AckFail, IInv, SessionInv, ServingInv
  <2>2. gone' = gone
    BY <1>9, <2>1 DEF ReadFail, AckFail, IInv, TypeOK
  <2> QED
    BY <2>1, <2>2
<1>10. ASSUME NEW s \in Senders, SendFail(s) PROVE [Slot!SlotNext]_(Slot!slotVars)
  <2>1. gone' = gone
    BY <1>10 DEF SendFail, IInv, TypeOK
  <2> QED
    BY <1>10, <2>1 DEF SendFail, accVars
<1>11. CASE AcceptExit \/ HandshakeOk \/ HelloOk \/ RunLoop \/ ReadFrame \/ ReadAfterFree \/ AckLock \/ AckDone
  BY <1>11 DEF AcceptExit, HandshakeOk, HelloOk, RunLoop, ReadFrame, ReadAfterFree, AckLock, AckDone, peerVars
<1>12. CASE StopBegin \/ StopCoordinator \/ Crash \/ Dead \/ UNCHANGED vars
  BY <1>12 DEF StopBegin, StopCoordinator, Crash, Dead, vars, accVars, peerVars
<1>13. ASSUME NEW s \in Senders, SendCopy(s) \/ SendLock(s) \/ SendDone(s) \/ SendAfterFree(s)
       PROVE [Slot!SlotNext]_(Slot!slotVars)
  BY <1>13 DEF SendCopy, SendLock, SendDone, SendAfterFree, accVars, peerVars
<1>14. ASSUME NEW c \in Conn, Remote(c) PROVE [Slot!SlotNext]_(Slot!slotVars)
  BY <1>14 DEF Remote, RemoteConnect, RemoteGivesUp, RemoteHangsUp, accVars, peerVars
<1> QED
  BY <1>1, <1>2, <1>3, <1>4, <1>5, <1>6, <1>7, <1>8, <1>9, <1>10, <1>11, <1>12, <1>13, <1>14
  DEF Next, Controller, AcceptThread, Sender

\* SecureCoordinator implements SessionSlot: one slot, held once per connection,
\* empty whenever the host is off.
THEOREM SlotRefinement == Spec => ImplementsSlot
<1>1. Init => Slot!SlotInit
  BY SlotInitially
<1>2. IInv /\ [Next]_vars => [Slot!SlotNext]_(Slot!slotVars)
  BY SlotStep
<1> QED
  BY <1>1, <1>2, Invariance, PTL DEF Spec, ImplementsSlot, Slot!SlotSpec
==============================================================================
