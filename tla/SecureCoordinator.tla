-------------------------- MODULE SecureCoordinator --------------------------
(***************************************************************************)
(* The Windows side of a session: Coordinator (listener and accept         *)
(* thread), SecureCoordinator (the active session), SessionPeer            *)
(* (established flag and write mutex) and tls::Stream (the SSL object).    *)
(*                                                                         *)
(* Threads: the controller (the GUI thread, which starts and stops the     *)
(* coordinator), the accept thread (which also runs the session of the     *)
(* connection it accepted) and senders (the input hook thread).  Remotes   *)
(* are the environment.  A connection stands for one accepted socket with  *)
(* its SessionPeer and its Stream, so each is used once.                   *)
(*                                                                         *)
(* A lock held over straight-line code is one step; write_mutex_ is held   *)
(* over SSL_write, which may block, and is visible as Locked.  A thread    *)
(* blocked in a TLS call holds a pointer to the SSL object; when another   *)
(* thread frees that object meanwhile, the blocked call either fails or    *)
(* takes the process down (crashed).                                       *)
(***************************************************************************)
EXTENDS Naturals, FiniteSets

CONSTANTS Conn,      \* connections remotes may open
          Senders,   \* threads that call SecureCoordinator::send
          None       \* no connection

ASSUME CoordinatorAssumption == None \notin Conn

VARIABLES running,      \* Coordinator::running_
          listener,     \* Coordinator::listener_: "none", "open" or "closed"
          accPc,        \* where the accept thread is; "none" before it exists
          sock,         \* the connection handle_socket owns, or None
          activePeer,   \* SecureCoordinator::active_peer_
          established,  \* SessionPeer::established_ of each connection
          stream,       \* tls::Stream of each connection
          ctlPc,        \* where the controller is in SecureCoordinator::stop
          ctlPeer,      \* the controller's copy of active_peer_
          sendPc,       \* where each sender is in SecureCoordinator::send
          sendPeer,     \* each sender's copy of active_peer_
          remote,       \* the other end of each connection
          crashed       \* the process died of a use after free

accVars  == <<accPc, sock, activePeer>>
peerVars == <<established, stream>>
ctlVars  == <<running, listener, ctlPc, ctlPeer>>
sendVars == <<sendPc, sendPeer>>
vars == <<accVars, peerVars, ctlVars, sendVars, remote, crashed>>

ListenerStates == {"none", "open", "closed"}
AcceptPcs  == {"none", "loop", "handshake", "hello", "publish", "run", "read",
               "ack", "acking", "finish", "clear", "exited"}
ServingPcs == {"handshake", "hello", "publish", "run", "read", "ack", "acking",
               "finish", "clear"}
\* "open": the SSL object is allocated; "closed": freed by Stream::close;
\* "destroyed": the Stream object itself is gone.
StreamStates == {"absent", "open", "closed", "destroyed"}
ControlPcs   == {"idle", "stopPeer", "stopCoordinator", "join", "reset"}
SendPcs      == {"idle", "copied", "writing"}
RemoteStates == {"away", "queued", "connected", "closed"}

\* write_mutex_ of c is held over a blocking SSL_write: by the accept thread
\* for a heartbeat ack, or by a sender.
LockedForAck(c) == accPc = "acking" /\ sock = c
Locked(c) ==
    \/ LockedForAck(c)
    \/ \E s \in Senders : sendPc[s] = "writing" /\ sendPeer[s] = c

\* listen(candidate, 1): one connection waits for accept.
Backlog == 1
Queued == {c \in Conn : remote[c] = "queued"}

Init ==
    /\ running = FALSE
    /\ listener = "none"
    /\ accPc = "none"
    /\ sock = None
    /\ activePeer = None
    /\ established = [c \in Conn |-> FALSE]
    /\ stream = [c \in Conn |-> "absent"]
    /\ ctlPc = "idle"
    /\ ctlPeer = None
    /\ sendPc = [s \in Senders |-> "idle"]
    /\ sendPeer = [s \in Senders |-> None]
    /\ remote = [c \in Conn |-> "away"]
    /\ crashed = FALSE

\* Every step but Crash is taken by a live process and leaves it alive.
Survives == ~crashed /\ crashed' = crashed

------------------------------------------------------------------------------
(* The controller. *)

\* SecureCoordinator::start, Coordinator::start: listen, then spawn the thread.
Start ==
    /\ Survives
    /\ ctlPc = "idle"
    /\ ~running
    /\ running' = TRUE
    /\ listener' = "open"
    /\ accPc' = "loop"
    /\ UNCHANGED <<sock, activePeer, peerVars, ctlPc, ctlPeer, sendVars, remote>>

\* Mutant: no test for a null active_peer_.
StopBeginUnchecked ==
    /\ Survives
    /\ ctlPc = "idle"
    /\ ctlPeer' = activePeer
    /\ ctlPc' = "stopPeer"
    /\ UNCHANGED <<running, listener, accVars, peerVars, sendVars, remote>>

\* SecureCoordinator::stop copies active_peer_ under session_mutex_.
StopBegin ==
    /\ Survives
    /\ ctlPc = "idle"
    /\ ctlPeer' = activePeer
    /\ ctlPc' = IF activePeer = None THEN "stopCoordinator" ELSE "stopPeer"
    /\ UNCHANGED <<running, listener, accVars, peerVars, sendVars, remote>>

\* SessionPeer::stop drops established_ and closes the stream.  Closing a stream
\* twice, or one whose memory is gone, leaves its state alone.
PeerStopUnlocked(c) ==
    /\ established' = [established EXCEPT ![c] = FALSE]
    /\ stream' = [stream EXCEPT ![c] = IF @ = "open" THEN "closed" ELSE @]

\* It does so under write_mutex_.
PeerStop(c) == ~Locked(c) /\ PeerStopUnlocked(c)

StopPeer ==
    /\ Survives
    /\ ctlPc = "stopPeer"
    /\ PeerStop(ctlPeer)
    /\ ctlPc' = "stopCoordinator"
    /\ UNCHANGED <<running, listener, ctlPeer, accVars, sendVars, remote>>

\* Coordinator::stop up to the join.  Closing the listener resets the
\* connections that wait in its backlog.
StopCoordinator ==
    /\ Survives
    /\ ctlPc = "stopCoordinator"
    /\ IF running
       THEN /\ running' = FALSE
            /\ listener' = "closed"
            /\ remote' = [c \in Conn |-> IF remote[c] = "queued" THEN "closed" ELSE remote[c]]
            /\ ctlPc' = "join"
       ELSE /\ ctlPc' = "reset"
            /\ UNCHANGED <<running, listener, remote>>
    /\ UNCHANGED <<ctlPeer, accVars, peerVars, sendVars>>

\* Mutant: detach instead of join.
JoinDetached ==
    /\ Survives
    /\ ctlPc = "join"
    /\ listener' = "none"
    /\ ctlPc' = "reset"
    /\ UNCHANGED <<running, ctlPeer, accVars, peerVars, sendVars, remote>>

\* thread_.join() returns, listener_.reset().
Join ==
    /\ Survives
    /\ ctlPc = "join"
    /\ accPc = "exited"
    /\ accPc' = "none"
    /\ listener' = "none"
    /\ ctlPc' = "reset"
    /\ UNCHANGED <<running, ctlPeer, sock, activePeer, peerVars, sendVars, remote>>

\* The tail of SecureCoordinator::stop: the controller drops its references.
StopReset ==
    /\ Survives
    /\ ctlPc = "reset"
    /\ activePeer' = None
    /\ ctlPeer' = None
    /\ ctlPc' = "idle"
    /\ UNCHANGED <<running, listener, accPc, sock, peerVars, sendVars, remote>>

------------------------------------------------------------------------------
(* The accept thread. *)

\* Mutant: leave the loop on listener_.reset() only, which waits for the join.
AcceptExitOnReset ==
    /\ Survives
    /\ accPc = "loop"
    /\ listener = "none"
    /\ accPc' = "exited"
    /\ UNCHANGED <<sock, activePeer, peerVars, ctlVars, sendVars, remote>>

AcceptExit ==
    /\ Survives
    /\ accPc = "loop"
    /\ ~running
    /\ accPc' = "exited"
    /\ UNCHANGED <<sock, activePeer, peerVars, ctlVars, sendVars, remote>>

\* select reports the listener readable, accept takes c, handle_socket builds
\* its Stream and its SessionPeer and enters the TLS handshake.
Accept(c) ==
    /\ Survives
    /\ accPc = "loop"
    /\ listener = "open"
    /\ remote[c] = "queued"
    /\ remote' = [remote EXCEPT ![c] = "connected"]
    /\ sock' = c
    /\ stream' = [stream EXCEPT ![c] = "open"]
    /\ accPc' = "handshake"
    /\ UNCHANGED <<activePeer, established, ctlVars, sendVars>>

\* The handshake completes and the local hello is written.
HandshakeOk ==
    /\ Survives
    /\ accPc = "handshake"
    /\ remote[sock] = "connected"
    /\ accPc' = "hello"
    /\ UNCHANGED <<sock, activePeer, peerVars, ctlVars, sendVars, remote>>

\* A well-formed hello with the Android role arrives: establish returns true.
HelloOk ==
    /\ Survives
    /\ accPc = "hello"
    /\ remote[sock] = "connected"
    /\ established' = [established EXCEPT ![sock] = TRUE]
    /\ accPc' = "publish"
    /\ UNCHANGED <<stream, sock, activePeer, ctlVars, sendVars, remote>>

\* Mutant: the accept thread ends with its first connection.
HandleSocketEndsThread ==
    /\ established' = [established EXCEPT ![sock] = FALSE]
    /\ stream' = [stream EXCEPT ![sock] = "destroyed"]
    /\ remote' = [remote EXCEPT ![sock] = "closed"]
    /\ sock' = None
    /\ accPc' = "exited"

\* handle_socket returns: the stream, the peer's owner and the socket go, and
\* the remote sees the connection close.
HandleSocketReturns ==
    /\ established' = [established EXCEPT ![sock] = FALSE]
    /\ stream' = [stream EXCEPT ![sock] = "destroyed"]
    /\ remote' = [remote EXCEPT ![sock] = "closed"]
    /\ sock' = None
    /\ accPc' = "loop"

\* establish gives up: the remote is gone, or sent something it rejects.
EstablishFail ==
    /\ Survives
    /\ accPc \in {"handshake", "hello"}
    /\ HandleSocketReturns
    /\ UNCHANGED <<activePeer, ctlVars, sendVars>>

\* Under session_mutex_: refuse a second session, or publish this one.
Publish ==
    /\ Survives
    /\ accPc = "publish"
    /\ IF activePeer # None
       THEN HandleSocketReturns /\ UNCHANGED activePeer
       ELSE /\ activePeer' = sock
            /\ accPc' = "run"
            /\ UNCHANGED <<sock, peerVars, remote>>
    /\ UNCHANGED <<ctlVars, sendVars>>

\* The head of SessionPeer::run's loop and of Stream::read: enter SSL_read
\* unless the session was stopped or its stream closed meanwhile.
RunLoop ==
    /\ Survives
    /\ accPc = "run"
    /\ IF established[sock] /\ stream[sock] = "open"
       THEN accPc' = "read" /\ UNCHANGED established
       ELSE /\ accPc' = "finish"
            /\ established' = [established EXCEPT ![sock] = FALSE]
    /\ UNCHANGED <<stream, sock, activePeer, ctlVars, sendVars, remote>>

\* A frame arrives and the handler runs: a heartbeat is to be answered, a
\* feature frame was dispatched, or the frame ends the session (SessionClose,
\* no handler for its channel, or a handler that returns false).
ReadFrame ==
    /\ Survives
    /\ accPc = "read"
    /\ stream[sock] = "open"
    /\ remote[sock] = "connected"
    /\ accPc' \in {"ack", "run", "finish"}
    /\ UNCHANGED <<sock, activePeer, peerVars, ctlVars, sendVars, remote>>

\* SSL_read fails or the frame is rejected: Stream::read closes the stream
\* without write_mutex_ and run drops established_.
ReadFail ==
    /\ Survives
    /\ accPc = "read"
    /\ stream[sock] = "open"
    /\ stream' = [stream EXCEPT ![sock] = "closed"]
    /\ established' = [established EXCEPT ![sock] = FALSE]
    /\ accPc' = "finish"
    /\ UNCHANGED <<sock, activePeer, ctlVars, sendVars, remote>>

\* The blocked SSL_read returns after another thread freed its SSL object and
\* the damage shows as a failed read.
ReadAfterFree ==
    /\ Survives
    /\ accPc = "read"
    /\ stream[sock] # "open"
    /\ established' = [established EXCEPT ![sock] = FALSE]
    /\ accPc' = "finish"
    /\ UNCHANGED <<stream, sock, activePeer, ctlVars, sendVars, remote>>

\* The heartbeat handler calls SessionPeer::send: take write_mutex_, look at
\* established_ and closed_, enter SSL_write.
AckLock ==
    /\ Survives
    /\ accPc = "ack"
    /\ ~Locked(sock)
    /\ accPc' = IF established[sock] /\ stream[sock] = "open" THEN "acking" ELSE "finish"
    /\ UNCHANGED <<sock, activePeer, peerVars, ctlVars, sendVars, remote>>

\* The frame went out, or into the socket buffer of a connection that is gone.
AckDone ==
    /\ Survives
    /\ accPc = "acking"
    /\ accPc' = "run"
    /\ UNCHANGED <<sock, activePeer, peerVars, ctlVars, sendVars, remote>>

\* write_exact closes the stream, still under write_mutex_; the handler
\* returns false.
AckFail ==
    /\ Survives
    /\ accPc = "acking"
    /\ remote[sock] = "closed"
    /\ stream' = [stream EXCEPT ![sock] = "closed"]
    /\ accPc' = "finish"
    /\ UNCHANGED <<established, sock, activePeer, ctlVars, sendVars, remote>>

\* Mutant: run is over and nobody stops the peer.
FinishQuietly ==
    /\ Survives
    /\ accPc = "finish"
    /\ accPc' = "clear"
    /\ UNCHANGED <<sock, activePeer, peerVars, ctlVars, sendVars, remote>>

\* run is over (after the stop it makes itself when the handler refused a
\* frame, which this one repeats): handle_socket calls SessionPeer::stop.
Finish ==
    /\ Survives
    /\ accPc = "finish"
    /\ PeerStop(sock)
    /\ accPc' = "clear"
    /\ UNCHANGED <<sock, activePeer, ctlVars, sendVars, remote>>

\* Mutant: the active session is left in place.
ClearForgets ==
    /\ Survives
    /\ accPc = "clear"
    /\ HandleSocketReturns
    /\ UNCHANGED <<activePeer, ctlVars, sendVars>>

\* Under session_mutex_, drop active_* if they are still this session's; then
\* handle_socket returns to the accept loop.
Clear ==
    /\ Survives
    /\ accPc = "clear"
    /\ activePeer' = IF activePeer = sock THEN None ELSE activePeer
    /\ HandleSocketReturns
    /\ UNCHANGED <<ctlVars, sendVars>>

------------------------------------------------------------------------------
(* A sender. *)

\* SecureCoordinator::send copies active_peer_ under session_mutex_.
SendCopy(s) ==
    /\ Survives
    /\ sendPc[s] = "idle"
    /\ activePeer # None
    /\ sendPeer' = [sendPeer EXCEPT ![s] = activePeer]
    /\ sendPc' = [sendPc EXCEPT ![s] = "copied"]
    /\ UNCHANGED <<accVars, peerVars, ctlVars, remote>>

\* send returns and its reference goes.
SendReturns(s) ==
    /\ sendPc' = [sendPc EXCEPT ![s] = "idle"]
    /\ sendPeer' = [sendPeer EXCEPT ![s] = None]

\* SessionPeer::send takes write_mutex_ and looks at established_, Stream::write
\* at closed_.
SendLock(s) ==
    /\ Survives
    /\ sendPc[s] = "copied"
    /\ ~Locked(sendPeer[s])
    /\ IF established[sendPeer[s]] /\ stream[sendPeer[s]] = "open"
       THEN sendPc' = [sendPc EXCEPT ![s] = "writing"] /\ UNCHANGED sendPeer
       ELSE SendReturns(s)
    /\ UNCHANGED <<accVars, peerVars, ctlVars, remote>>

SendDone(s) ==
    /\ Survives
    /\ sendPc[s] = "writing"
    /\ stream[sendPeer[s]] = "open"
    /\ SendReturns(s)
    /\ UNCHANGED <<accVars, peerVars, ctlVars, remote>>

\* SSL_write fails: write_exact closes the stream, established_ stays.
SendFail(s) ==
    /\ Survives
    /\ sendPc[s] = "writing"
    /\ stream[sendPeer[s]] = "open"
    /\ remote[sendPeer[s]] = "closed"
    /\ stream' = [stream EXCEPT ![sendPeer[s]] = "closed"]
    /\ SendReturns(s)
    /\ UNCHANGED <<established, accVars, ctlVars, remote>>

\* The reading side freed the SSL object under a blocked SSL_write.
SendAfterFree(s) ==
    /\ Survives
    /\ sendPc[s] = "writing"
    /\ stream[sendPeer[s]] # "open"
    /\ SendReturns(s)
    /\ UNCHANGED <<accVars, peerVars, ctlVars, remote>>

------------------------------------------------------------------------------
(* Remotes, and the end of the process. *)

RemoteConnect(c) ==
    /\ Survives
    /\ remote[c] = "away"
    /\ listener = "open"
    /\ Cardinality(Queued) < Backlog
    /\ remote' = [remote EXCEPT ![c] = "queued"]
    /\ UNCHANGED <<accVars, peerVars, ctlVars, sendVars>>

RemoteGivesUp(c) ==
    /\ Survives
    /\ remote[c] = "queued"
    /\ remote' = [remote EXCEPT ![c] = "closed"]
    /\ UNCHANGED <<accVars, peerVars, ctlVars, sendVars>>

RemoteHangsUp(c) ==
    /\ Survives
    /\ remote[c] = "connected"
    /\ remote' = [remote EXCEPT ![c] = "closed"]
    /\ UNCHANGED <<accVars, peerVars, ctlVars, sendVars>>

\* A thread inside, or about to enter, memory another thread has freed.
Dangling ==
    \/ accPc = "read" /\ stream[sock] # "open"
    \/ \E s \in Senders : sendPc[s] = "writing" /\ stream[sendPeer[s]] # "open"
    \/ ctlPc = "stopPeer" /\ stream[ctlPeer] = "destroyed"

Crash ==
    /\ ~crashed
    /\ Dangling
    /\ crashed' = TRUE
    /\ UNCHANGED <<accVars, peerVars, ctlVars, sendVars, remote>>

Controller == Start \/ StopBegin \/ StopPeer \/ StopCoordinator \/ Join \/ StopReset

AcceptThread ==
    \/ AcceptExit \/ \E c \in Conn : Accept(c)
    \/ HandshakeOk \/ HelloOk \/ EstablishFail \/ Publish
    \/ RunLoop \/ ReadFrame \/ ReadFail \/ ReadAfterFree
    \/ AckLock \/ AckDone \/ AckFail \/ Finish \/ Clear

Sender(s) ==
    SendCopy(s) \/ SendLock(s) \/ SendDone(s) \/ SendFail(s) \/ SendAfterFree(s)

Remote(c) == RemoteConnect(c) \/ RemoteGivesUp(c) \/ RemoteHangsUp(c)

\* The dead process takes no further step.
Dead == crashed /\ UNCHANGED vars

Next ==
    \/ Controller
    \/ AcceptThread
    \/ \E s \in Senders : Sender(s)
    \/ \E c \in Conn : Remote(c)
    \/ Crash
    \/ Dead

Spec == Init /\ [][Next]_vars

(***************************************************************************)
(* Fairness.  A thread that can run does.  A thread that waits for         *)
(* write_mutex_ gets it if it is free again and again (strong fairness).   *)
(* A thread inside a TLS call returns once the remote is gone; nothing     *)
(* else makes it return, since a stop frees the SSL object but leaves the  *)
(* socket open (BIO_NOCLOSE) and no timeout is set.                        *)
(***************************************************************************)
RemoteGone == sock # None /\ remote[sock] = "closed"

WriterRemoteGone(s) == sendPeer[s] # None /\ remote[sendPeer[s]] = "closed"

ControllerFairness ==
    /\ SF_vars(StopPeer)
    /\ WF_vars(StopCoordinator \/ Join \/ StopReset)

AcceptFairness ==
    /\ WF_vars(AcceptExit \/ Publish \/ RunLoop \/ Clear)
    /\ \A c \in Conn : WF_vars(Accept(c))
    /\ SF_vars(AckLock) /\ SF_vars(Finish)
    /\ WF_vars(RemoteGone /\ (EstablishFail \/ ReadFail \/ ReadAfterFree \/ AckFail))

SenderFairness ==
    \A s \in Senders :
        /\ SF_vars(SendLock(s))
        /\ WF_vars(SendFail(s))
        /\ WF_vars(WriterRemoteGone(s) /\ SendAfterFree(s))

ThreadFairness == ControllerFairness /\ AcceptFairness /\ SenderFairness

\* The threads run; remotes do as they please.
ThreadSpec == Spec /\ ThreadFairness

\* Besides, every remote that is being served hangs up in the end.
HangUpSpec == ThreadSpec /\ \A c \in Conn : WF_vars(RemoteHangsUp(c))

------------------------------------------------------------------------------
(* Properties. *)

\* The variables stay in their sets, and a thread that uses a connection has one.
TypeOK ==
    /\ running \in BOOLEAN
    /\ listener \in ListenerStates
    /\ accPc \in AcceptPcs
    /\ sock \in Conn \cup {None}
    /\ activePeer \in Conn \cup {None}
    /\ established \in [Conn -> BOOLEAN]
    /\ stream \in [Conn -> StreamStates]
    /\ ctlPc \in ControlPcs
    /\ ctlPeer \in Conn \cup {None}
    /\ sendPc \in [Senders -> SendPcs]
    /\ sendPeer \in [Senders -> Conn \cup {None}]
    /\ remote \in [Conn -> RemoteStates]
    /\ crashed \in BOOLEAN
    /\ accPc \in ServingPcs <=> sock \in Conn
    /\ ctlPc = "stopPeer" => ctlPeer \in Conn
    /\ \A s \in Senders : sendPc[s] # "idle" <=> sendPeer[s] \in Conn

\* One session at a time, and it is the one the accept thread serves: no other
\* connection is established, and nothing else is ever the active peer.  The
\* branch of handle_socket that refuses a second session is never needed.
OneSession ==
    /\ \A c \in Conn : established[c] => c = sock
    /\ activePeer # None => activePeer = sock
    /\ accPc = "publish" => activePeer = None

\* While a sender is inside SSL_write of a session, the accept thread still
\* holds that session: it can neither return from handle_socket, which destroys
\* the Stream the write uses, nor have moved on to another connection.
WriteHoldsSession ==
    \A s \in Senders : sendPc[s] = "writing" =>
        /\ sendPeer[s] = sock
        /\ stream[sock] # "destroyed"
        /\ accPc \notin {"handshake", "hello", "publish", "clear"}

\* SSL_write is never entered by two threads on one stream.
OneWriter ==
    /\ \A s, t \in Senders :
         sendPc[s] = "writing" /\ sendPc[t] = "writing" /\ sendPeer[s] = sendPeer[t] => s = t
    /\ accPc = "acking" => \A s \in Senders : sendPc[s] # "writing"

\* After stop has returned nothing of the coordinator is left: no accept thread,
\* no listener, no active or established session, no live stream and no open
\* or waiting connection.  It also holds before the first start.
StopReleasesAll ==
    ctlPc = "idle" /\ ~running =>
        /\ accPc = "none" /\ listener = "none"
        /\ activePeer = None
        /\ \A c \in Conn : /\ ~established[c]
                           /\ stream[c] \in {"absent", "destroyed"}
                           /\ remote[c] \in {"away", "closed"}

\* The inductive invariant behind the ones above, in four parts.  The listener,
\* the running flag and the accept thread agree with where the controller is.
LifecycleInv ==
    /\ running => /\ listener = "open"
                  /\ accPc \notin {"none", "exited"}
                  /\ ctlPc \notin {"join", "reset"}
    /\ ~running /\ ctlPc # "join" => accPc = "none" /\ listener = "none"
    /\ ctlPc = "join" => ~running /\ listener = "closed" /\ accPc # "none"

\* The accept thread's connection is the one with a Stream; it is established
\* from the hello to the stop and the active peer from Publish to Clear.
PublishedPcs == {"run", "read", "ack", "acking", "finish", "clear"}
ServingInv ==
    /\ \A c \in Conn : established[c] => c = sock /\ accPc \notin {"handshake", "hello", "clear"}
    /\ accPc \in PublishedPcs => activePeer = sock
    /\ accPc \notin PublishedPcs => activePeer = None
    /\ \A c \in Conn : stream[c] \in {"open", "closed"} <=> c = sock
    /\ accPc \in {"handshake", "hello", "publish", "acking"} => stream[sock] = "open"
    /\ accPc = "clear" => stream[sock] = "closed"

\* A copied peer was published, and a thread inside SSL_write keeps the accept
\* thread short of the stop that ends its session.
Published(c) == c # None => stream[c] # "absent" /\ (c = sock => accPc \in PublishedPcs)
HolderInv ==
    /\ Published(ctlPeer)
    /\ \A s \in Senders : Published(sendPeer[s])
    /\ \A s \in Senders : sendPc[s] = "writing" =>
           sendPeer[s] = sock /\ accPc \in {"run", "read", "ack", "finish"}
    /\ \A s, t \in Senders : sendPc[s] = "writing" /\ sendPc[t] = "writing" => s = t

\* A remote waits only for an open listener, and is connected only to the
\* accept thread's socket.
RemoteInv ==
    \A c \in Conn :
        /\ remote[c] \in {"away", "queued"} => stream[c] = "absent"
        /\ remote[c] = "queued" => running
        /\ remote[c] = "connected" => c = sock

SessionInv == LifecycleInv /\ ServingInv /\ HolderInv /\ RemoteInv

\* The active session is never swapped for another without being cleared first,
\* and it is only cleared when its stream has been closed.
SessionHandover ==
    [][activePeer # None /\ activePeer' # activePeer =>
          activePeer' = None /\ stream[activePeer] # "open"]_vars

\* stop() comes back, provided remotes hang up in the end.
StopReturns == ctlPc # "idle" ~> (ctlPc = "idle" \/ crashed)

\* The protocol's promise that stop() cancels pending I/O: once stop has closed the
\* stream under the accept thread's read of that session, the read returns.
StopCancelsRead ==
    ctlPc = "join" /\ accPc = "read" /\ ctlPeer = sock ~> (accPc # "read" \/ crashed)

\* A connection that waits in the backlog is accepted or reset, provided the
\* remotes that are served hang up in the end.
QueueMoves == \A c \in Conn : remote[c] = "queued" ~> (remote[c] # "queued" \/ crashed)

\* The threads and locks implement the single session slot.
Slot == INSTANCE SessionSlot WITH
            host <- IF accPc = "none" THEN "off" ELSE "on",
            slot <- activePeer,
            past <- {c \in Conn : stream[c] = "destroyed"}

ImplementsSlot == Slot!SlotSpec
==============================================================================
