---------------------------- MODULE FeatureSession ----------------------------
(***************************************************************************)
(* One session between the coordinator and a phone, frame by frame: the    *)
(* hello exchange, Windows' receive loop with its router and dispatcher,   *)
(* the hook thread that sends captured input, and the phone's receive loop *)
(* that injects it.  Which connection is the session, and who may close    *)
(* it, is SecureCoordinator's matter; that one SSL_write at a time reaches *)
(* the stream is its OneWriter.                                            *)
(*                                                                         *)
(* Frames already written stay in the sequences sent (by the phone) and    *)
(* down (by Windows); taken and downTaken say how far the other side read. *)
(***************************************************************************)
EXTENDS Wire, FiniteSets

CONSTANTS
    LocalHellos,  \* the hello messages Windows may be configured with
    Offers,       \* [channel, kind, body]: what the phone asks its codec to send
    RawFrames,    \* frames that another authenticated program may write
    Events,       \* what the hooks may deliver
    Clickable,    \* the events among them whose gesture the phone can perform
    IdModulus,    \* the capture callback's counter wraps at this value; 2^32 in the code
    MaxUp,        \* bound: frames the phone writes
    MaxAhead,     \* bound: frames on their way to Windows, its receive window
    MaxUnread,    \* frames on their way to the phone, beyond which a write blocks
    MaxEvents,    \* bound: events captured while the session is up
    NoFrame       \* no frame in hand; not a frame

ASSUME WireAssumption ==
    /\ IdModulus \in Nat \ {0, 1}
    /\ MaxUp \in Nat
    /\ MaxAhead \in Nat \ {0}
    /\ MaxUnread \in Nat \ {0}
    /\ MaxEvents \in Nat
    /\ Clickable \subseteq Events
    /\ \A hello \in LocalHellos : hello.form = "hello"
    /\ \A event \in Events : event.form = "input"
    /\ \A o \in Offers : o.body.form = "offer" => o.body \in Offer
    /\ \A f \in RawFrames : f.body.form = "offer" => f.body \in Offer

VARIABLES
    localHello, \* SecureCoordinator::local_hello_
    peer,       \* "new", "up" (established_) or "ended"
    winPc,      \* the accept thread: "greet", "header", "body", "handle" or "done"
    frame,      \* the frame it has in hand
    stopped,    \* the window has called stop()
    sent,       \* frames from the phone, in the order written
    taken,      \* how many of them Windows has begun to read
    handled,    \* [at, message]: what the handlers got, and from which frame
    counter,    \* request_counter
    captured,   \* encodable events that were captured while the session was up
    down,       \* frames from Windows
    downTaken,  \* how many of them the phone has read
    phone,      \* "hello", "idle", "reading", "handling", "waiting", "deaf" or "gone"
    posted,     \* the event in the main thread's queue, or NoFrame
    gestures    \* events that were performed on the phone

winVars == <<localHello, peer, winPc, frame, stopped, taken, handled>>
hookVars == <<counter, captured>>
phoneVars == <<downTaken, phone, posted, gestures>>
vars == <<winVars, hookVars, phoneVars, sent, down>>

Init ==
    /\ localHello \in LocalHellos
    /\ peer = "new"
    /\ winPc = "greet"
    /\ frame = NoFrame
    /\ stopped = FALSE
    /\ sent = <<>>
    /\ taken = 0
    /\ handled = <<>>
    /\ counter = 1
    /\ captured = <<>>
    /\ down = <<>>
    /\ downTaken = 0
    /\ phone = "hello"
    /\ posted = NoFrame
    /\ gestures = <<>>

------------------------------------------------------------------------------
(* The accept thread. *)

\* SSL_write returns only once the connection has taken the frame.
RoomToAnswer == Len(down) - downTaken < MaxUnread

\* SessionPeer::stop after the loop, or a stream that closed itself.
EndSession ==
    /\ peer' = "ended"
    /\ winPc' = "done"
    /\ frame' = NoFrame
    /\ UNCHANGED <<localHello, stopped, handled, hookVars, phoneVars, sent>>

\* establish: Windows speaks first.  A local hello that its own encoder refuses
\* ends every session here.
Greet ==
    /\ winPc = "greet"
    /\ Encodable(localHello)
    /\ winPc' = "header"
    /\ down' = Append(down, Envelope(1, kSessionHello, 1, localHello))
    /\ UNCHANGED <<localHello, peer, frame, stopped, taken, handled, hookVars, phoneVars, sent>>

GreetFails ==
    /\ winPc = "greet"
    /\ ~Encodable(localHello)
    /\ EndSession
    /\ UNCHANGED <<taken, down>>

\* Stream::read up to the allocation of the frame.
ReadHeader ==
    /\ winPc = "header"
    /\ peer # "ended"
    /\ taken < Len(sent)
    /\ HeaderAccepted(sent[taken + 1])
    /\ taken' = taken + 1
    /\ frame' = sent[taken + 1]
    /\ winPc' = "body"
    /\ UNCHANGED <<localHello, peer, stopped, handled, hookVars, phoneVars, sent, down>>

RejectHeader ==
    /\ winPc = "header"
    /\ peer # "ended"
    /\ taken < Len(sent)
    /\ ~HeaderAccepted(sent[taken + 1])
    /\ taken' = taken + 1
    /\ EndSession
    /\ UNCHANGED down

ReadBody ==
    /\ winPc = "body"
    /\ peer # "ended"
    /\ Decodable(frame)
    /\ winPc' = "handle"
    /\ UNCHANGED <<localHello, peer, frame, stopped, taken, handled, hookVars, phoneVars, sent, down>>

RejectBody ==
    /\ winPc = "body"
    /\ peer # "ended"
    /\ ~Decodable(frame)
    /\ EndSession
    /\ UNCHANGED <<taken, down>>

\* The phone has closed the connection, or stop has closed the stream.
ReadFails ==
    /\ winPc \in {"header", "body"}
    /\ phone = "gone" \/ peer = "ended"
    /\ EndSession
    /\ UNCHANGED <<taken, down>>

\* establish: the first frame must be an Android hello.  stop finds no peer to
\* stop before that, so peer is still "new".
HelloGood ==
    /\ IsHello(frame)
    /\ frame.body.form = "hello"
    /\ Readable(frame.body, frame.length)
    /\ frame.body.role = "android"

AcceptHello ==
    /\ winPc = "handle"
    /\ peer = "new"
    /\ HelloGood
    /\ peer' = "up"
    /\ winPc' = "header"
    /\ frame' = NoFrame
    /\ UNCHANGED <<localHello, stopped, taken, handled, hookVars, phoneVars, sent, down>>

RejectHello ==
    /\ winPc = "handle"
    /\ peer = "new"
    /\ ~HelloGood
    /\ EndSession
    /\ UNCHANGED <<taken, down>>

\* run's loop condition after a handler said true.
NextFrame ==
    /\ winPc' = IF peer = "up" THEN "header" ELSE "done"
    /\ frame' = NoFrame
    /\ UNCHANGED <<localHello, peer, stopped, taken, hookVars, phoneVars, sent>>

\* Mutant: the ack has an id of its own.
AnswerWithOwnId ==
    /\ winPc = "handle"
    /\ peer = "up"
    /\ IsHeartbeat(frame)
    /\ RoomToAnswer
    /\ down' = Append(down, Envelope(1, kHeartbeatAck, 1, [form |-> "byte"]))
    /\ NextFrame
    /\ UNCHANGED handled

\* Mutant: a heartbeat is noted and not answered.
SwallowHeartbeat ==
    /\ winPc = "handle"
    /\ peer = "up"
    /\ IsHeartbeat(frame)
    /\ NextFrame
    /\ UNCHANGED <<handled, down>>

\* SessionPeer::send, with no time limit on the write or on the lock before it.
AnswerHeartbeat ==
    /\ winPc = "handle"
    /\ peer = "up"
    /\ IsHeartbeat(frame)
    /\ RoomToAnswer
    /\ down' = Append(down, Envelope(1, kHeartbeatAck, frame.requestId, [form |-> "byte"]))
    /\ NextFrame
    /\ UNCHANGED handled

\* The ack cannot be sent: stop() was here first, or the phone has gone.
AnswerFails ==
    /\ winPc = "handle"
    /\ peer = "ended" \/ (peer = "up" /\ phone = "gone")
    /\ IsHeartbeat(frame)
    /\ EndSession
    /\ UNCHANGED <<taken, down>>

CloseRequested ==
    /\ winPc = "handle"
    /\ peer # "new"
    /\ IsClose(frame)
    /\ EndSession
    /\ UNCHANGED <<taken, down>>

\* Handlers run on the accept thread; those of the window refuse Opus, and
\* PCM16 when the renderer fails.
HandleFeature ==
    /\ winPc = "handle"
    /\ peer # "new"
    /\ Dispatches(frame)
    /\ frame.body.form = "audio" => frame.body.codec = "pcm16"
    /\ handled' = Append(handled, [at |-> taken, message |-> Sanitized(frame.body)])
    /\ NextFrame
    /\ UNCHANGED down

\* Router, dispatcher or handler said false.
RefuseFrame ==
    /\ winPc = "handle"
    /\ peer # "new"
    /\ ~IsHeartbeat(frame)
    /\ ~IsClose(frame)
    /\ Dispatches(frame) => frame.body.form = "audio"
    /\ EndSession
    /\ UNCHANGED <<taken, down>>

------------------------------------------------------------------------------
(* The window: stop() closes the peer it finds published. *)

Stop ==
    /\ ~stopped
    /\ peer = "up"
    /\ stopped' = TRUE
    /\ peer' = "ended"
    /\ UNCHANGED <<localHello, winPc, frame, taken, handled, hookVars, phoneVars, sent, down>>

(* The hook thread: the capture callback and SecureCoordinator::send. *)

\* Mutant: the counter is wider than its type.
NextIdUnbounded(n) == n + 1

NextId(n) == (n + 1) % IdModulus

\* Mutant: zero is not skipped.
FreshIdAsIs == counter

FreshId == IF counter = 0 THEN NextId(counter) ELSE counter

Capture(event) ==
    LET e == Envelope(1, kInputEvent, FreshId, event) IN
    /\ peer = "up"
    /\ Len(captured) < MaxEvents
    /\ Encodable(event)
    /\ Sendable(e) => RoomToAnswer
    /\ counter' = NextId(FreshId)
    /\ captured' = Append(captured, event)
    /\ down' = IF Sendable(e) THEN Append(down, e) ELSE down
    /\ UNCHANGED <<winVars, phoneVars, sent>>

\* An event its codec refuses is dropped before it gets an id.  Without a session,
\* or without anyone at its other end, an event costs an id and is not sent.
DropEvent(event) ==
    /\ peer # "up" \/ phone = "gone"
    /\ Encodable(event)
    /\ counter' = NextId(FreshId)
    /\ UNCHANGED <<winVars, captured, phoneVars, sent, down>>

------------------------------------------------------------------------------
(* The phone. *)

\* What is written once Windows has ended the session is read by nobody.
RoomToWrite == Len(sent) < MaxUp /\ Len(sent) - taken < MaxAhead /\ peer # "ended"

\* The hello the app introduces itself with.
AppHello ==
    Envelope(1, kSessionHello, 1,
        [form |-> "hello", role |-> "android", maxFrame |-> 4096 * KiB,
         device |-> [length |-> 7, chars |-> "plain"]])

\* The whole of connect up to readHello.
PhoneHello ==
    /\ phone = "hello"
    /\ RoomToWrite
    /\ sent' = Append(sent, AppHello)
    /\ phone' = "idle"
    /\ UNCHANGED <<winVars, hookVars, downTaken, posted, gestures, down>>

\* sendEnvelope needs the client's monitor, which readEnvelope keeps until a
\* frame has come.  A message that a codec or the envelope refuses is not sent.
Written(o, i) == Envelope(o.channel, o.kind, i, o.body)

PhoneSend(o) ==
    LET e == Written(o, Len(sent) + 1) IN
    /\ phone \in {"idle", "handling", "waiting", "deaf"}
    /\ RoomToWrite
    /\ Encodable(o.body)
    /\ Sendable(e)
    /\ sent' = Append(sent, e)
    /\ UNCHANGED <<winVars, hookVars, phoneVars, down>>

\* Another program with an accepted certificate writes what it likes.
PeerWrites(f) ==
    /\ phone # "gone"
    /\ RoomToWrite
    /\ sent' = Append(sent, f)
    /\ UNCHANGED <<winVars, hookVars, phoneVars, down>>

\* readHello, then the receive loop once the peer is trusted.
StartLoop ==
    /\ phone = "idle"
    /\ down # <<>>
    /\ downTaken' = 1
    /\ phone' = "reading"
    /\ UNCHANGED <<winVars, hookVars, posted, gestures, sent, down>>

LeaveRead ==
    /\ phone = "reading"
    /\ downTaken < Len(down)
    /\ downTaken' = downTaken + 1
    /\ phone' = "handling"
    /\ UNCHANGED <<winVars, hookVars, posted, gestures, sent, down>>

\* An input event is posted to the main thread.
PostEvent ==
    /\ phone = "handling"
    /\ IsInput(down[downTaken])
    /\ posted' = down[downTaken].body
    /\ phone' = "waiting"
    /\ UNCHANGED <<winVars, hookVars, downTaken, gestures, sent, down>>

\* Mutant: a late answer is taken for a refusal of this event only.
LoopGoesOn ==
    /\ phone \in {"handling", "waiting"}
    /\ phone' = "reading"
    /\ UNCHANGED <<winVars, hookVars, downTaken, posted, gestures, sent, down>>

\* No handler, no accessibility service, no answer from the main thread within a
\* second, or the end of the stream: the receive loop ends, and nothing else.
LoopFails ==
    /\ \/ phone \in {"handling", "waiting"}
       \/ phone = "reading" /\ peer = "ended"
    /\ phone' = "deaf"
    /\ UNCHANGED <<winVars, hookVars, downTaken, posted, gestures, sent, down>>

\* The main thread performs what was posted, also for a loop that has given up.
Perform ==
    /\ posted # NoFrame
    /\ posted \in Clickable
    /\ gestures' = Append(gestures, posted)
    /\ posted' = NoFrame
    /\ phone' = IF phone = "waiting" THEN "reading" ELSE phone
    /\ UNCHANGED <<winVars, hookVars, downTaken, sent, down>>

\* It refuses points off the screen, wheel, keys and button releases, and the
\* system may refuse any gesture.
PerformFails ==
    /\ posted # NoFrame
    /\ posted' = NoFrame
    /\ phone' = IF phone = "waiting" THEN "deaf" ELSE phone
    /\ UNCHANGED <<winVars, hookVars, downTaken, gestures, sent, down>>

\* stopSession or the end of the process.
PhoneGoes ==
    /\ phone \notin {"hello", "gone"}
    /\ phone' = "gone"
    /\ UNCHANGED <<winVars, hookVars, downTaken, posted, gestures, sent, down>>

------------------------------------------------------------------------------

Serve ==
    \/ Greet \/ GreetFails
    \/ ReadHeader \/ RejectHeader \/ ReadBody \/ RejectBody \/ ReadFails
    \/ AcceptHello \/ RejectHello
    \/ AnswerHeartbeat \/ AnswerFails \/ CloseRequested
    \/ HandleFeature \/ RefuseFrame

Phone ==
    \/ PhoneHello \/ StartLoop \/ LeaveRead
    \/ PostEvent \/ LoopFails \/ Perform \/ PerformFails \/ PhoneGoes
    \/ \E o \in Offers : PhoneSend(o)
    \/ \E f \in RawFrames : PeerWrites(f)

Next ==
    \/ Serve
    \/ Stop
    \/ \E event \in Events : Capture(event) \/ DropEvent(event)
    \/ Phone

\* A program at the other end that is in its receive loop.
Receive == LeaveRead \/ PostEvent \/ LoopFails

\* The accept thread runs whenever it can, and among the writers its turn comes if
\* there is room again and again.  A receive loop goes on or gives up.
Spec ==
    /\ Init /\ [][Next]_vars
    /\ WF_vars(Serve) /\ SF_vars(AnswerHeartbeat)
    /\ WF_vars(Receive)

------------------------------------------------------------------------------
(* Properties. *)

\* Every variable keeps its type and its bound.
TypeOK ==
    /\ localHello \in LocalHellos
    /\ peer \in {"new", "up", "ended"}
    /\ winPc \in {"greet", "header", "body", "handle", "done"}
    /\ winPc \notin {"body", "handle"} => frame = NoFrame
    /\ winPc \in {"body", "handle"} => taken > 0 /\ frame = sent[taken]
    /\ stopped \in BOOLEAN
    /\ taken \in 0 .. Len(sent)
    /\ Len(handled) <= taken
    /\ counter \in 0 .. IdModulus - 1
    /\ downTaken \in 0 .. Len(down)
    /\ Len(down) - downTaken <= MaxUnread
    /\ phone \in {"hello", "idle", "reading", "handling", "waiting", "deaf", "gone"}
    /\ posted \in Events \cup {NoFrame}

\* The handlers get the features in the order the peer wrote them, each once and
\* none left out, as the peer wrote them but for the names of offers, which are
\* safe to show whoever wrote them.
HandledAsSent ==
    /\ \A k \in DOMAIN handled :
           /\ handled[k].at \in 2 .. taken
           /\ Dispatches(sent[handled[k].at])
           /\ handled[k].message.form = sent[handled[k].at].body.form
           /\ IF handled[k].message.form = "offer"
              THEN handled[k].message.name.chars = "plain"
              ELSE handled[k].message = sent[handled[k].at].body
    /\ \A j, k \in DOMAIN handled : j < k => handled[j].at < handled[k].at
    /\ \A i \in 2 .. taken :
           Dispatches(sent[i]) /\ (i < taken \/ winPc = "header") =>
               \E k \in DOMAIN handled : handled[k].at = i

\* Frame i is what the app's encoders write there: its hello, then messages under
\* their own kind and with an audio codec that Windows has.
Wanted(o) ==
    /\ FormatOf(o) = o.body.form
    /\ o.body.form = "audio" => o.body.codec = "pcm16"

Own(i) ==
    IF i = 1 THEN sent[1] = AppHello
    ELSE \E o \in Offers :
            /\ Wanted(o) /\ Encodable(o.body) /\ Sendable(Written(o, i))
            /\ sent[i] = Written(o, i)

\* The two sides agree on sizes, limits and names: as long as Windows has read only
\* what the app's encoders write, the session ends by a stop, with the phone, on
\* Windows' own hello or with an audio frame that the renderer refuses, never
\* because a frame is not understood.
OwnFramesKeepSession ==
    peer = "ended" =>
        \/ stopped
        \/ phone = "gone"
        \/ ~Encodable(localHello)
        \/ \E i \in 1 .. taken : ~Own(i)
        \/ sent[taken].body.form = "audio"

\* Where the frames of a kind are: the heartbeats that the accept thread has done
\* with, its answers to them and the events the hooks have sent.
Beats == {i \in 1 .. (IF winPc \in {"body", "handle"} THEN taken - 1 ELSE taken) : IsHeartbeat(sent[i])}
Acks == {i \in DOMAIN down : IsAck(down[i])}
Inputs == {i \in DOMAIN down : IsInput(down[i])}

\* The way to go through A and B in step, from the least element of each, until
\* A is used up.  There is none if B is used up first.
InStep(A, B) ==
    {f \in [A -> B] :
        /\ \A i, j \in A : i < j => f[i] < f[j]
        /\ \A i \in A, b \in B : b < f[i] => \E j \in A : f[j] = b}

UsesUp(f, B) == \A b \in B : \E a \in DOMAIN f : f[a] = b

\* While there is a session, every captured event the codec accepts is written,
\* in order, however often the ids wrap: no frame goes out with id zero.
EventsAreSent ==
    /\ \E f \in InStep(Inputs, DOMAIN captured) :
           /\ UsesUp(f, DOMAIN captured)
           /\ \A i \in Inputs : down[i].body = captured[f[i]]
    /\ \A k \in DOMAIN down : Sendable(down[k])

\* The acks echo the ids of the heartbeats that were read, in their order, and
\* none is missing while the session is up.
AcksMatch ==
    \E f \in InStep(Acks, Beats) :
        /\ \A i \in Acks : down[i].requestId = sent[f[i]].requestId
        /\ peer = "up" => UsesUp(f, Beats)

\* The phone performs the events in the order they were captured and leaves none
\* out in between, although it may give up on one that is performed later.
GesturesFollowEvents ==
    \E f \in InStep(DOMAIN gestures, Inputs) :
        \A k \in DOMAIN gestures : gestures[k] = down[f[k]].body

\* A heartbeat is answered, the session ends or the other end stops reading,
\* whatever the hook thread writes in between.
Acked(i) == \E k \in DOMAIN down : IsAck(down[k]) /\ down[k].requestId = sent[i].requestId
HeartbeatAnswered ==
    \A i \in 1 .. MaxUp :
        (i <= Len(sent) /\ IsHeartbeat(sent[i])) ~>
            \/ peer = "ended"
            \/ phone \notin {"reading", "handling", "waiting"}
            \/ i <= Len(sent) /\ Acked(i)
===============================================================================
