------------------------- MODULE FeatureSessionProofs -------------------------
(***************************************************************************)
(* Proofs about FeatureSession: what the accept thread does with the       *)
(* frames of a session, for any frames and any bounds.                     *)
(***************************************************************************)
EXTENDS FeatureSession, WellFoundedInduction, TLAPS

\* The elements of a sequence do not matter here.
IsSeq(s) == \E S : s \in Seq(S)

FrameInv ==
    /\ IsSeq(sent)
    /\ IsSeq(handled)
    /\ IsSeq(down)
    /\ \A k \in 1 .. Len(sent) : sent[k].body.form = "offer" => sent[k].body \in Offer
    /\ \A k \in 1 .. Len(down) : IsInput(down[k]) => down[k].body \in Events

\* The first frame is the hello; a session that has ended under the accept thread
\* was stopped; and what is in hand has not been handled.
LoopInv ==
    /\ winPc = "greet" => peer = "new" /\ taken = 0
    /\ winPc = "header" => (peer = "new" <=> taken = 0)
    /\ winPc \in {"body", "handle"} =>
           /\ peer = "new" <=> taken = 1
           /\ Len(handled) < taken
           /\ \A k \in DOMAIN handled : handled[k].at < taken
    /\ \A k \in DOMAIN handled : handled[k].at \in 2 .. taken
    /\ winPc = "handle" => Decodable(frame)
    /\ winPc \in {"header", "body", "handle"} /\ peer = "ended" => stopped
    /\ winPc = "done" => peer = "ended"

PhoneInv ==
    /\ phone \in {"hello", "idle"} => downTaken = 0
    /\ phone \in {"reading", "handling", "waiting"} => downTaken # 0

\* Nothing is written before Windows' hello.
SilentInv == winPc = "greet" => Len(down) = 0

Inv == FrameInv /\ TypeOK /\ LoopInv /\ PhoneInv /\ SilentInv

------------------------------------------------------------------------------
(* Sequences and sizes. *)

\* What Append does to a sequence of anything.
LEMMA AppendAny ==
  ASSUME NEW s, NEW e, IsSeq(s)
  PROVE  /\ Len(s) \in Nat
         /\ DOMAIN s = 1 .. Len(s)
         /\ IsSeq(Append(s, e))
         /\ Len(Append(s, e)) = Len(s) + 1
         /\ DOMAIN Append(s, e) = 1 .. Len(s) + 1
         /\ \A k \in 1 .. Len(s) : Append(s, e)[k] = s[k]
         /\ Append(s, e)[Len(s) + 1] = e
<1>1. PICK S : s \in Seq(S)
  BY DEF IsSeq
<1> DEFINE T == S \cup {e}
<1>2. s \in Seq(T)
  BY <1>1
<1>3. Append(s, e) \in Seq(T)
  BY <1>2
<1>4. IsSeq(Append(s, e))
  BY <1>3 DEF IsSeq
<1> QED BY <1>1, <1>2, <1>3, <1>4

\* The empty sequence is one.
LEMMA EmptySeq == IsSeq(<<>>) /\ Len(<<>>) = 0
<1>1. <<>> \in Seq({})
  OBVIOUS
<1> QED BY <1>1 DEF IsSeq

\* The request counter stays within its type.
LEMMA CounterWraps ==
  ASSUME NEW n \in Nat
  PROVE  NextId(n) \in 0 .. IdModulus - 1
  BY WireAssumption DEF NextId

\* The name of an offer that was made safe is one.
LEMMA SafeName ==
  ASSUME NEW m \in Offer
  PROVE  /\ Sanitized(m) \in Offer
         /\ Sanitized(m).form = "offer"
         /\ m.name.chars # "other" => Sanitized(m).name.chars = "plain"
<1>1. m.name \in Text /\ m.form = "offer"
  BY DEF Offer
<1>2. safe_display_name(m.name) \in Text
  BY <1>1 DEF Text, safe_display_name
<1>3. m.name.chars # "other" => safe_display_name(m.name).chars = "plain"
  BY <1>1 DEF Text, safe_display_name
<1>4. Sanitized(m) = [m EXCEPT !.name = safe_display_name(m.name)]
  BY <1>1 DEF Sanitized
<1> HIDE DEF safe_display_name
<1> QED BY <1>2, <1>3, <1>4 DEF Offer

\* What the codec writes for a message that is no offer is the message.
LEMMA EnvelopeBody ==
  ASSUME NEW c, NEW k, NEW id, NEW m
  PROVE  /\ Envelope(c, k, id, m).body = Sanitized(m)
         /\ Envelope(c, k, id, m).channel = c
         /\ Envelope(c, k, id, m).kind = k
         /\ m.form # "offer" => Sanitized(m) = m
  BY DEF Envelope, Sanitized

------------------------------------------------------------------------------
(* What grows only grows at its end. *)

\* The peer's frames stay as they were written.
LEMMA SentGrows ==
  ASSUME Inv, [Next]_vars
  PROVE  /\ IsSeq(sent')
         /\ Len(sent) \in Nat /\ Len(sent') \in Nat /\ Len(sent) <= Len(sent')
         /\ \A k \in 1 .. Len(sent) : sent'[k] = sent[k]
         /\ \A k \in 1 .. Len(sent') : sent'[k].body.form = "offer" => sent'[k].body \in Offer
<1> USE DEF Inv, FrameInv
<1>1. Len(sent) \in Nat
  BY AppendAny
<1>2. ASSUME NEW e, sent' = Append(sent, e), e.body.form = "offer" => e.body \in Offer
      PROVE  /\ IsSeq(sent')
             /\ Len(sent) \in Nat /\ Len(sent') \in Nat /\ Len(sent) <= Len(sent')
             /\ \A k \in 1 .. Len(sent) : sent'[k] = sent[k]
             /\ \A k \in 1 .. Len(sent') : sent'[k].body.form = "offer" => sent'[k].body \in Offer
  <2>1. /\ IsSeq(sent')
        /\ Len(sent') = Len(sent) + 1
        /\ \A k \in 1 .. Len(sent) : sent'[k] = sent[k]
        /\ sent'[Len(sent) + 1] = e
    BY <1>2, AppendAny
  <2> QED BY <1>1, <1>2, <2>1
<1>3. CASE PhoneHello
  <2>1. AppHello.body.form = "hello"
    BY EnvelopeBody DEF AppHello
  <2>2. sent' = Append(sent, AppHello)
    BY <1>3 DEF PhoneHello
  <2> QED BY <1>2, <2>1, <2>2
<1>4. ASSUME NEW o \in Offers, PhoneSend(o)
      PROVE  sent' = Append(sent, Envelope(o.channel, o.kind, Len(sent) + 1, o.body))
  BY <1>4 DEF PhoneSend, Written
<1>5. ASSUME NEW o \in Offers
      PROVE  LET e == Envelope(o.channel, o.kind, Len(sent) + 1, o.body)
             IN  e.body.form = "offer" => e.body \in Offer
  <2> DEFINE e == Envelope(o.channel, o.kind, Len(sent) + 1, o.body)
  <2>1. e.body = Sanitized(o.body)
    BY EnvelopeBody
  <2>2. CASE o.body.form = "offer"
    BY <2>1, <2>2, SafeName, WireAssumption
  <2>3. CASE o.body.form # "offer"
    BY <2>1, <2>3, EnvelopeBody
  <2> QED BY <2>2, <2>3
<1>6. ASSUME NEW f \in RawFrames, PeerWrites(f)
      PROVE  sent' = Append(sent, f) /\ (f.body.form = "offer" => f.body \in Offer)
  BY <1>6, WireAssumption DEF PeerWrites
<1>7. CASE sent' = sent
  BY <1>1, <1>7
<1>8. CASE Phone
  BY <1>2, <1>3, <1>4, <1>5, <1>6, <1>7, <1>8
  DEF Phone, StartLoop, LeaveRead, PostEvent, LoopFails, Perform, PerformFails, PhoneGoes
<1>9. CASE Serve \/ Stop \/ (\E event \in Events : Capture(event) \/ DropEvent(event))
  BY <1>7, <1>9
  DEF Serve, Greet, GreetFails, ReadHeader, RejectHeader, ReadBody, RejectBody, ReadFails,
      AcceptHello, RejectHello, AnswerHeartbeat, AnswerFails, CloseRequested, HandleFeature,
      RefuseFrame, EndSession, NextFrame, Stop, Capture, DropEvent, winVars, hookVars, phoneVars
<1> QED BY <1>7, <1>8, <1>9 DEF Next, vars

\* Windows sends nothing on the input kind that the hooks have not delivered.
LEMMA DownGrows ==
  ASSUME Inv, [Next]_vars
  PROVE  /\ IsSeq(down')
         /\ Len(down) \in Nat /\ Len(down') \in Nat /\ Len(down) <= Len(down')
         /\ \A k \in 1 .. Len(down') : IsInput(down'[k]) => down'[k].body \in Events
<1> USE DEF Inv, FrameInv
<1>1. Len(down) \in Nat
  BY AppendAny
<1>2. ASSUME NEW e, down' = Append(down, e), IsInput(e) => e.body \in Events
      PROVE  /\ IsSeq(down')
             /\ Len(down) \in Nat /\ Len(down') \in Nat /\ Len(down) <= Len(down')
             /\ \A k \in 1 .. Len(down') : IsInput(down'[k]) => down'[k].body \in Events
  <2>1. /\ IsSeq(down')
        /\ Len(down') = Len(down) + 1
        /\ \A k \in 1 .. Len(down) : down'[k] = down[k]
        /\ down'[Len(down) + 1] = e
    BY <1>2, AppendAny
  <2> QED BY <1>1, <1>2, <2>1
<1>3. CASE down' = down
  BY <1>1, <1>3
<1>4. CASE Greet
  <2>1. ~IsInput(Envelope(1, kSessionHello, 1, localHello))
    BY EnvelopeBody DEF IsInput, kSessionHello, kInputEvent
  <2> QED BY <1>2, <1>4, <2>1 DEF Greet
<1>5. CASE AnswerHeartbeat
  <2>1. ~IsInput(Envelope(1, kHeartbeatAck, frame.requestId, [form |-> "byte"]))
    BY EnvelopeBody DEF IsInput, kHeartbeatAck, kInputEvent
  <2> QED BY <1>2, <1>5, <2>1 DEF AnswerHeartbeat
<1>6. ASSUME NEW event \in Events, Capture(event)
      PROVE  \/ down' = down
             \/ \E e : down' = Append(down, e) /\ (IsInput(e) => e.body \in Events)
  <2> DEFINE e == Envelope(1, kInputEvent, FreshId, event)
  <2>1. e.body = event
    BY EnvelopeBody, WireAssumption
  <2>2. down' = Append(down, e) \/ down' = down
    BY <1>6 DEF Capture
  <2> HIDE DEF e
  <2> QED BY <2>1, <2>2
<1>7. CASE Serve
  BY <1>3, <1>4, <1>5, <1>7
  DEF Serve, GreetFails, ReadHeader, RejectHeader, ReadBody, RejectBody, ReadFails,
      AcceptHello, RejectHello, AnswerFails, CloseRequested, HandleFeature, RefuseFrame
<1>8. CASE Phone \/ Stop
  BY <1>3, <1>8
  DEF Phone, PhoneHello, StartLoop, LeaveRead, PostEvent, LoopFails, Perform, PerformFails,
      PhoneGoes, PhoneSend, PeerWrites, Stop
<1>9. CASE \E event \in Events : Capture(event) \/ DropEvent(event)
  BY <1>2, <1>3, <1>6, <1>9 DEF DropEvent
<1> QED BY <1>3, <1>7, <1>8, <1>9 DEF Next, vars

------------------------------------------------------------------------------
(* The accept thread. *)

\* What a step leaves alone when it is none of the accept thread or the window.
OtherStep ==
    \/ Phone
    \/ \E event \in Events : Capture(event) \/ DropEvent(event)
    \/ UNCHANGED vars

LEMMA OthersKeepWindows ==
  ASSUME OtherStep
  PROVE  UNCHANGED winVars
  BY DEF OtherStep, Phone, PhoneHello, StartLoop, LeaveRead, PostEvent, LoopFails, Perform,
         PerformFails, PhoneGoes, PhoneSend, PeerWrites, Capture, DropEvent, vars

\* The part of the type invariant that is about the accept thread.
LoopTypes ==
    /\ localHello \in LocalHellos
    /\ peer \in {"new", "up", "ended"}
    /\ winPc \in {"greet", "header", "body", "handle", "done"}
    /\ winPc \notin {"body", "handle"} => frame = NoFrame
    /\ winPc \in {"body", "handle"} => taken > 0 /\ frame = sent[taken]
    /\ stopped \in BOOLEAN
    /\ taken \in 0 .. Len(sent)
    /\ Len(handled) <= taken

\* Every step keeps the loop's place, and hands each frame to a handler at most once.
LEMMA NextLoop ==
  ASSUME Inv, [Next]_vars
  PROVE  LoopTypes' /\ LoopInv' /\ IsSeq(handled')
<1> DEFINE Goal == LoopTypes' /\ LoopInv' /\ IsSeq(handled')
<1> USE DEF Inv, FrameInv, TypeOK, LoopInv, LoopTypes
<1>a. /\ Len(sent) \in Nat /\ Len(sent') \in Nat /\ Len(sent) <= Len(sent')
      /\ \A k \in 1 .. Len(sent) : sent'[k] = sent[k]
  BY SentGrows
<1>b. Len(handled) \in Nat /\ DOMAIN handled = 1 .. Len(handled)
  BY AppendAny
<1>1. CASE Greet
  BY <1>a, <1>b, <1>1 DEF Greet
<1>2. CASE GreetFails \/ RejectBody \/ ReadFails \/ RejectHello \/ AnswerFails
           \/ CloseRequested \/ RefuseFrame
  BY <1>a, <1>b, <1>2
  DEF GreetFails, RejectBody, ReadFails, RejectHello, AnswerFails, CloseRequested,
      RefuseFrame, EndSession
<1>3. CASE ReadHeader
  <2>1. Len(handled) < taken'
    BY <1>a, <1>b, <1>3 DEF ReadHeader
  <2>2. \A k \in DOMAIN handled' : handled'[k].at \in 2 .. taken /\ handled'[k].at < taken'
    BY <1>3 DEF ReadHeader
  <2> QED BY <1>a, <1>b, <1>3, <2>1, <2>2 DEF ReadHeader
<1>4. CASE RejectHeader
  BY <1>a, <1>b, <1>4 DEF RejectHeader, EndSession
<1>5. CASE ReadBody
  BY <1>a, <1>b, <1>5 DEF ReadBody
<1>6. CASE AcceptHello
  BY <1>a, <1>b, <1>6 DEF AcceptHello
<1>7. CASE AnswerHeartbeat
  BY <1>a, <1>b, <1>7 DEF AnswerHeartbeat, NextFrame
<1>8. CASE HandleFeature
  <2> DEFINE h == [at |-> taken, message |-> Sanitized(frame.body)]
  <2>1. IsSeq(handled') /\ Len(handled') = Len(handled) + 1
    BY <1>8, AppendAny DEF HandleFeature
  <2>2. /\ DOMAIN handled' = 1 .. Len(handled) + 1
        /\ \A k \in DOMAIN handled : handled'[k] = handled[k]
        /\ handled'[Len(handled) + 1] = h
    BY <1>8, AppendAny DEF HandleFeature
  <2>3. taken >= 2 /\ taken' = taken
    BY <1>8 DEF HandleFeature, NextFrame
  <2>4. \A k \in DOMAIN handled' : handled'[k].at \in 2 .. taken
    BY <1>b, <2>2, <2>3
  <2> HIDE DEF h
  <2> QED BY <1>a, <1>b, <1>8, <2>1, <2>3, <2>4 DEF HandleFeature, NextFrame
<1>9. CASE Stop
  BY <1>a, <1>b, <1>9 DEF Stop
<1>10. CASE OtherStep
  BY <1>a, <1>b, <1>10, OthersKeepWindows DEF winVars
<1> QED BY <1>1, <1>2, <1>3, <1>4, <1>5, <1>6, <1>7, <1>8, <1>9, <1>10
        DEF Next, Serve, OtherStep

\* Windows sends its hello, acks and events, and nothing else.
LEMMA WhoSends ==
  ASSUME [Next]_vars
  PROVE  \/ down' = down
         \/ Greet
         \/ AnswerHeartbeat
         \/ \E event \in Events : Capture(event)
BY DEF Next, Serve, GreetFails, ReadHeader, RejectHeader, ReadBody, RejectBody, ReadFails,
       AcceptHello, RejectHello, AnswerFails, CloseRequested, HandleFeature, RefuseFrame, Stop,
       DropEvent, Phone, PhoneHello, StartLoop, LeaveRead, PostEvent, LoopFails, Perform,
       PerformFails, PhoneGoes, PhoneSend, PeerWrites, vars

\* No writer writes more than the connection takes, and none before the hello.
LEMMA NextRoom ==
  ASSUME Inv, [Next]_vars
  PROVE  SilentInv' /\ Len(down') - downTaken' <= MaxUnread
<1> USE DEF Inv, TypeOK, SilentInv
<1>a. Len(down) \in Nat /\ downTaken \in Nat /\ MaxUnread \in Nat \ {0}
  BY AppendAny, WireAssumption DEF FrameInv
<1>1. ASSUME NEW e, down' = Append(down, e), downTaken' = downTaken, RoomToAnswer,
             winPc' # "greet"
      PROVE  SilentInv' /\ Len(down') - downTaken' <= MaxUnread
  <2>1. Len(down') = Len(down) + 1
    BY <1>1, AppendAny DEF FrameInv
  <2> QED BY <1>1, <1>a, <2>1 DEF RoomToAnswer
<1>2. CASE Greet
  <2>1. Len(down) = 0 /\ downTaken = 0 /\ downTaken' = downTaken
    BY <1>2, <1>a DEF Greet, phoneVars
  <2> QED BY <1>1, <1>2, <1>a, <2>1 DEF Greet, RoomToAnswer
<1>3. CASE AnswerHeartbeat
  BY <1>1, <1>3 DEF AnswerHeartbeat, NextFrame, phoneVars
<1>4. ASSUME NEW event \in Events, Capture(event)
      PROVE  SilentInv' /\ Len(down') - downTaken' <= MaxUnread
  <2> DEFINE e == Envelope(1, kInputEvent, FreshId, event)
  <2>1. (down' = Append(down, e) /\ RoomToAnswer) \/ down' = down
    BY <1>4 DEF Capture
  <2> HIDE DEF e
  <2>2. winPc # "greet" /\ winPc' = winPc /\ downTaken' = downTaken
    BY <1>4 DEF Capture, winVars, phoneVars, LoopInv
  <2> QED BY <1>1, <1>a, <2>1, <2>2
<1>5. CASE down' = down /\ ~Greet
  <2>1. winPc' = "greet" => winPc = "greet"
    BY <1>5, OthersKeepWindows
    DEF Next, Serve, OtherStep, GreetFails, ReadHeader, RejectHeader, ReadBody, RejectBody,
        ReadFails, AcceptHello, RejectHello, AnswerHeartbeat, AnswerFails, CloseRequested,
        HandleFeature, RefuseFrame, EndSession, NextFrame, Stop, winVars
  <2>2. downTaken' = downTaken \/ downTaken' = downTaken + 1 \/ StartLoop
    BY DEF Next, Serve, Greet, GreetFails, ReadHeader, RejectHeader, ReadBody, RejectBody,
           ReadFails, AcceptHello, RejectHello, AnswerHeartbeat, AnswerFails, CloseRequested,
           HandleFeature, RefuseFrame, EndSession, NextFrame, Stop, Capture, DropEvent,
           Phone, PhoneHello, LeaveRead, PostEvent, LoopFails, Perform,
           PerformFails, PhoneGoes, PhoneSend, PeerWrites, vars, phoneVars
  <2>3. CASE StartLoop
    BY <1>5, <1>a, <2>1, <2>3 DEF StartLoop, PhoneInv
  <2> QED BY <1>5, <1>a, <2>1, <2>2, <2>3
<1> QED BY <1>2, <1>3, <1>4, <1>5, WhoSends

\* The phone's side and the hook thread keep their types.
LEMMA NextTypes ==
  ASSUME Inv, [Next]_vars
  PROVE  TypeOK' /\ PhoneInv'
<1> USE DEF Inv, TypeOK, PhoneInv
<1>1. LoopTypes'
  BY NextLoop
<1>2. Len(down) \in Nat /\ Len(down') \in Nat /\ Len(down) <= Len(down')
  BY DownGrows
<1>3. counter' \in 0 .. IdModulus - 1
  <2>1. counter \in Nat
    BY WireAssumption
  <2>2. FreshId \in Nat
    BY <2>1, CounterWraps, WireAssumption DEF FreshId
  <2>3. NextId(FreshId) \in 0 .. IdModulus - 1
    BY <2>2, CounterWraps
  <2>4. counter' = NextId(FreshId) \/ counter' = counter
    BY DEF Next, Serve, Greet, GreetFails, ReadHeader, RejectHeader, ReadBody, RejectBody,
           ReadFails, AcceptHello, RejectHello, AnswerHeartbeat, AnswerFails, CloseRequested,
           HandleFeature, RefuseFrame, EndSession, NextFrame, Stop, Capture, DropEvent,
           Phone, PhoneHello, StartLoop, LeaveRead, PostEvent, LoopFails, Perform,
           PerformFails, PhoneGoes, PhoneSend, PeerWrites, vars, hookVars
  <2> QED BY <2>3, <2>4
<1>4. /\ downTaken' \in 0 .. Len(down')
      /\ phone' \in {"hello", "idle", "reading", "handling", "waiting", "deaf", "gone"}
      /\ posted' \in Events \cup {NoFrame}
      /\ PhoneInv'
  <2>1. CASE UNCHANGED phoneVars
    BY <1>2, <2>1 DEF phoneVars
  <2>2. CASE StartLoop
    <3>1. Len(down) > 0
      <4>1. IsSeq(down) /\ down # <<>>
        BY <2>2 DEF StartLoop, FrameInv
      <4> QED BY <4>1 DEF IsSeq
    <3> QED BY <1>2, <2>2, <3>1 DEF StartLoop
  <2>3. CASE PostEvent
    <3>1. downTaken \in 1 .. Len(down) => posted' \in Events
      BY <2>3 DEF PostEvent, FrameInv
    <3>2. downTaken # 0
      BY <2>3 DEF PostEvent
    <3> QED BY <1>2, <2>3, <3>1, <3>2 DEF PostEvent
  <2>4. CASE PhoneHello \/ LeaveRead \/ LoopFails \/ Perform \/ PerformFails \/ PhoneGoes
    BY <1>2, <2>4 DEF PhoneHello, LeaveRead, LoopFails, Perform, PerformFails, PhoneGoes
  <2>5. UNCHANGED phoneVars \/ StartLoop \/ PostEvent
        \/ PhoneHello \/ LeaveRead \/ LoopFails \/ Perform \/ PerformFails \/ PhoneGoes
    BY DEF Next, Serve, Greet, GreetFails, ReadHeader, RejectHeader, ReadBody, RejectBody,
           ReadFails, AcceptHello, RejectHello, AnswerHeartbeat, AnswerFails, CloseRequested,
           HandleFeature, RefuseFrame, EndSession, NextFrame, Stop, Capture, DropEvent,
           Phone, PhoneSend, PeerWrites, vars, phoneVars
  <2> QED BY <2>1, <2>2, <2>3, <2>4, <2>5
<1>5. Len(down') - downTaken' <= MaxUnread
  BY NextRoom
<1> QED BY <1>1, <1>3, <1>4, <1>5 DEF LoopTypes

\* The session before its first step.
LEMMA InitInv == Init => Inv
<1> SUFFICES ASSUME Init
             PROVE  Inv
  OBVIOUS
<1>1. FrameInv
  BY EmptySeq DEF Init, FrameInv
<1>2. TypeOK
  <2>1. counter \in 0 .. IdModulus - 1
    BY WireAssumption DEF Init
  <2>2. taken \in 0 .. Len(sent) /\ downTaken \in 0 .. Len(down) /\ Len(handled) <= taken
    BY EmptySeq DEF Init
  <2>3. stopped \in BOOLEAN
    BY DEF Init
  <2>4. Len(down) - downTaken <= MaxUnread
    <3>1. Len(down) = 0 /\ downTaken = 0
      BY EmptySeq DEF Init
    <3> QED BY <3>1, WireAssumption
  <2> QED BY <2>1, <2>2, <2>3, <2>4 DEF Init, TypeOK
<1>3. LoopInv /\ PhoneInv /\ SilentInv
  BY EmptySeq DEF Init, LoopInv, PhoneInv, SilentInv
<1> QED BY <1>1, <1>2, <1>3 DEF Inv

\* Each step keeps the invariant that all proofs here start from.
LEMMA NextInv == Inv /\ [Next]_vars => Inv'
<1> SUFFICES ASSUME Inv, [Next]_vars
             PROVE  Inv'
  OBVIOUS
<1>1. FrameInv'
  BY SentGrows, DownGrows, NextLoop DEF FrameInv
<1> QED BY <1>1, NextLoop, NextTypes, NextRoom DEF Inv

------------------------------------------------------------------------------

\* Every variable keeps its type, whatever the peer writes and the hooks deliver.
THEOREM SessionTypes == Spec => []TypeOK
<1>1. Inv => TypeOK
  BY DEF Inv
<1> QED BY <1>1, InitInv, NextInv, PTL DEF Spec

\* The frames after which the loop may go on: a hello first, then heartbeats and
\* features that a codec accepts; never Opus.
Passable(i) ==
    /\ Decodable(sent[i])
    /\ i = 1 => IsHello(sent[1]) /\ sent[1].body.form = "hello"
                 /\ Readable(sent[1].body, sent[1].length) /\ sent[1].body.role = "android"
    /\ i > 1 => \/ IsHeartbeat(sent[i])
                \/ Dispatches(sent[i]) /\ (sent[i].body.form = "audio" => sent[i].body.codec = "pcm16")

\* The ways out of the loop: the session has ended only after a stop, the phone's
\* end, a local hello that cannot be encoded, an audio frame or a frame that is not
\* passable.
ExitInv ==
    /\ \A i \in 1 .. taken : i < taken \/ winPc = "header" => Passable(i)
    /\ peer = "ended" =>
           \/ stopped
           \/ phone = "gone"
           \/ ~Encodable(localHello)
           \/ taken > 0 /\ (Passable(taken) => sent[taken].body.form = "audio")

\* A frame that was written stays as passable as it was.
LEMMA PassableStays ==
  ASSUME Inv, [Next]_vars, NEW i \in 1 .. Len(sent)
  PROVE  Passable(i)' <=> Passable(i)
<1>1. Len(sent) \in Nat /\ sent'[i] = sent[i] /\ sent'[1] = sent[1]
  BY SentGrows
<1> QED BY <1>1 DEF Passable

\* A close request, and a frame that nobody dispatches, is not passable after the
\* hello.
LEMMA CloseNotPassable ==
  ASSUME NEW i \in Nat, i > 1, IsClose(sent[i])
  PROVE  ~Passable(i)
<1>1. FormatOf(sent[i]) = "none"
  BY DEF FormatOf, IsClose, IsInput, kSessionClose, kDisplayCommand, kInputEvent
<1>2. ~Dispatches(sent[i])
  BY <1>1 DEF Dispatches, Readable
<1>3. ~IsHeartbeat(sent[i])
  BY DEF IsClose, IsHeartbeat, kSessionClose, kHeartbeat
<1> QED BY <1>2, <1>3 DEF Passable

\* Each way out of run and establish has one of the causes, and each way on has not.
LEMMA NextCause ==
  ASSUME Inv, ExitInv, [Next]_vars
  PROVE  ExitInv'
<1> DEFINE Cause == \/ stopped
                    \/ phone = "gone"
                    \/ ~Encodable(localHello)
                    \/ taken > 0 /\ (Passable(taken) => sent[taken].body.form = "audio")
           Read == \A i \in 1 .. taken : i < taken \/ winPc = "header" => Passable(i)
<1> USE DEF Inv, TypeOK
<1>a. /\ Len(sent) \in Nat /\ Len(sent') \in Nat /\ Len(sent) <= Len(sent')
      /\ \A k \in 1 .. Len(sent) : sent'[k] = sent[k]
  BY SentGrows
<1>b. \A i \in 1 .. Len(sent) : Passable(i)' <=> Passable(i)
  BY PassableStays
<1>c. Read /\ (peer = "ended" => Cause)
  BY DEF ExitInv
<1> SUFFICES Read' /\ (peer' = "ended" => Cause')
  BY DEF ExitInv
<1> HIDE DEF ExitInv
<1>1. CASE Greet
  BY <1>1, <1>a, <1>b, <1>c DEF Greet, LoopInv
<1>2. CASE GreetFails
  BY <1>2, <1>a, <1>b, <1>c DEF GreetFails, EndSession, LoopInv
<1>3. CASE ReadHeader
  BY <1>3, <1>a, <1>b, <1>c DEF ReadHeader, LoopInv
<1>4. CASE RejectHeader
  <2>1. ~Passable(taken + 1)
    BY <1>4 DEF RejectHeader, Passable, Decodable
  <2>2. sent' = sent /\ taken' = taken + 1 /\ taken + 1 \in 1 .. Len(sent)
    BY <1>4, <1>a DEF RejectHeader, EndSession
  <2>3. ~Passable(taken)'
    BY <1>b, <2>1, <2>2
  <2>4. Read'
    BY <1>4, <1>a, <1>b, <1>c, <2>2 DEF RejectHeader, EndSession
  <2> QED BY <2>2, <2>3, <2>4
<1>5. CASE ReadBody
  BY <1>5, <1>a, <1>b, <1>c DEF ReadBody
<1>6. CASE RejectBody \/ RejectHello \/ CloseRequested \/ RefuseFrame
  <2>1. taken \in 1 .. Len(sent) /\ frame = sent[taken]
    BY <1>6 DEF RejectBody, RejectHello, CloseRequested, RefuseFrame
  <2>2. Passable(taken) => sent[taken].body.form = "audio"
    <3>1. CASE RejectBody
      BY <2>1, <3>1 DEF RejectBody, Passable
    <3>2. CASE RejectHello
      BY <2>1, <3>2 DEF RejectHello, HelloGood, Passable, LoopInv
    <3>3. CASE CloseRequested
      BY <2>1, <3>3, CloseNotPassable DEF CloseRequested, LoopInv
    <3>4. CASE RefuseFrame
      BY <2>1, <3>4 DEF RefuseFrame, Passable, LoopInv
    <3> QED BY <1>6, <3>1, <3>2, <3>3, <3>4
  <2>3. taken' = taken /\ sent' = sent /\ winPc' = "done"
    BY <1>6 DEF RejectBody, RejectHello, CloseRequested, RefuseFrame, EndSession
  <2>4. Passable(taken)' <=> Passable(taken)
    BY <1>b, <2>1, <2>3
  <2>5. Read'
    BY <1>a, <1>b, <1>c, <2>3
  <2> QED BY <2>1, <2>2, <2>3, <2>4, <2>5
<1>7. CASE ReadFails \/ AnswerFails
  <2>1. stopped \/ phone = "gone"
    BY <1>7 DEF ReadFails, AnswerFails, LoopInv
  <2> QED BY <1>7, <1>a, <1>b, <1>c, <2>1
          DEF ReadFails, AnswerFails, EndSession, phoneVars
<1>8. CASE AcceptHello \/ AnswerHeartbeat \/ HandleFeature
  <2>1. taken \in 1 .. Len(sent) /\ frame = sent[taken] /\ Decodable(frame)
    BY <1>8 DEF AcceptHello, AnswerHeartbeat, HandleFeature, LoopInv
  <2>2. Passable(taken)
    <3>1. CASE AcceptHello
      BY <2>1, <3>1 DEF AcceptHello, HelloGood, Passable, LoopInv
    <3>2. CASE AnswerHeartbeat \/ HandleFeature
      BY <2>1, <3>2 DEF AnswerHeartbeat, HandleFeature, Passable, LoopInv
    <3> QED BY <1>8, <3>1, <3>2
  <2>3. /\ taken' = taken
        /\ sent' = sent
        /\ stopped' = stopped
        /\ localHello' = localHello
        /\ phone' = phone
        /\ peer' = "ended" => peer = "ended"
    BY <1>8 DEF AcceptHello, AnswerHeartbeat, HandleFeature, NextFrame, phoneVars
  <2>4. Read'
    BY <1>a, <1>b, <1>c, <2>1, <2>2, <2>3
  <2>5. peer' = "ended" => Cause'
    BY <1>b, <1>c, <2>1, <2>3
  <2> QED BY <2>4, <2>5
<1>9. CASE Stop
  BY <1>9, <1>a, <1>b, <1>c DEF Stop
<1>10. CASE OtherStep
  <2>1. UNCHANGED winVars
    BY <1>10, OthersKeepWindows
  <2>2. phone = "gone" => phone' = "gone"
    BY <1>10
    DEF OtherStep, Phone, PhoneHello, StartLoop, LeaveRead, PostEvent, LoopFails, Perform,
        PerformFails, PhoneGoes, PhoneSend, PeerWrites, Capture, DropEvent, vars, phoneVars
  <2>3. /\ taken' = taken /\ winPc' = winPc /\ peer' = peer /\ stopped' = stopped
        /\ localHello' = localHello
    BY <2>1 DEF winVars
  <2>4. taken \in 0 .. Len(sent)
    OBVIOUS
  <2> HIDE DEF Inv, TypeOK
  <2>5. Read'
    BY <1>a, <1>b, <1>c, <2>3, <2>4
  <2>6. peer' = "ended" => Cause'
    BY <1>a, <1>b, <1>c, <2>2, <2>3, <2>4
  <2> QED BY <2>5, <2>6
<1> QED BY <1>1, <1>2, <1>3, <1>4, <1>5, <1>6, <1>7, <1>8, <1>9, <1>10
        DEF Next, Serve, OtherStep

\* Every session ends by one of the exits.
LEMMA ExitsHold == Spec => [](Inv /\ ExitInv)
<1>1. Init => ExitInv
  BY DEF Init, ExitInv
<1>2. Inv /\ ExitInv /\ [Next]_vars => ExitInv'
  BY NextCause
<1> QED BY <1>1, <1>2, InitInv, NextInv, PTL DEF Spec

------------------------------------------------------------------------------
(* What the handlers get. *)

\* What one handler call says about the frame it is for.
Faithful(h, f) ==
    /\ Dispatches(f)
    /\ h.message.form = f.body.form
    /\ IF h.message.form = "offer"
       THEN h.message.name.chars = "plain"
       ELSE h.message = f.body

\* A message that its decoder accepted is handed on as it is, an offer with a name
\* that is safe.
LEMMA DispatchFaithful ==
  ASSUME NEW f, Dispatches(f), f.body.form = "offer" => f.body \in Offer, NEW n
  PROVE  Faithful([at |-> n, message |-> Sanitized(f.body)], f)
<1>1. CASE f.body.form = "offer"
  <2>1. f.body.name.chars # "other"
    BY <1>1 DEF Dispatches, Readable, decode_offer, OfferAllowed, TextAllowed
  <2>2. /\ Sanitized(f.body).form = "offer"
        /\ Sanitized(f.body).name.chars = "plain"
    BY <1>1, <2>1, SafeName
  <2> HIDE DEF Sanitized
  <2> QED BY <1>1, <2>2 DEF Faithful
<1>2. CASE f.body.form # "offer"
  BY <1>2 DEF Faithful, Sanitized
<1> QED BY <1>1, <1>2

\* Hellos, heartbeats and closes are dispatched to nobody.
LEMMA ControlNotDispatched ==
  ASSUME NEW f, IsHello(f) \/ IsHeartbeat(f) \/ IsClose(f)
  PROVE  ~Dispatches(f)
<1>1. FormatOf(f) = "none"
  BY DEF FormatOf, IsHello, IsHeartbeat, IsClose, IsInput, kSessionHello, kHeartbeat,
         kSessionClose, kDisplayCommand, kInputEvent
<1> QED BY <1>1 DEF Dispatches, Readable

\* HandledAsSent in the parts that a step can disturb.
Handled ==
    /\ \A k \in DOMAIN handled : Faithful(handled[k], sent[handled[k].at])
    /\ \A j, k \in DOMAIN handled : j < k => handled[j].at < handled[k].at
    /\ \A i \in 2 .. taken :
           Dispatches(sent[i]) /\ (i < taken \/ winPc = "header") =>
               \E k \in DOMAIN handled : handled[k].at = i

\* The parts together are the property.
LEMMA HandledIsAsSent ==
  ASSUME Inv
  PROVE  HandledAsSent <=> Handled
  BY DEF Inv, LoopInv, Handled, HandledAsSent, Faithful

\* Only HandleFeature calls a handler, for the frame that the loop then leaves.
LEMMA NextHandled ==
  ASSUME Inv, Handled, [Next]_vars
  PROVE  Handled'
<1> USE DEF Inv, TypeOK
<1>a. /\ Len(sent) \in Nat /\ Len(sent') \in Nat /\ Len(sent) <= Len(sent')
      /\ \A k \in 1 .. Len(sent) : sent'[k] = sent[k]
  BY SentGrows
<1>b. /\ Len(handled) \in Nat
      /\ DOMAIN handled = 1 .. Len(handled)
      /\ \A k \in DOMAIN handled : handled[k].at \in 2 .. taken
  BY AppendAny DEF FrameInv, LoopInv
<1>c. \A k \in DOMAIN handled : sent'[handled[k].at] = sent[handled[k].at]
  BY <1>a, <1>b
<1>1. ASSUME handled' = handled, taken' = taken, winPc' = "header" => winPc = "header"
      PROVE  Handled'
  <2>1. \A k \in DOMAIN handled' : Faithful(handled'[k], sent'[handled'[k].at])
    BY <1>1, <1>c DEF Handled
  <2>2. ASSUME NEW i \in 2 .. taken', Dispatches(sent'[i]), i < taken' \/ winPc' = "header"
        PROVE  \E k \in DOMAIN handled' : handled'[k].at = i
    <3>1. i \in 2 .. taken /\ sent'[i] = sent[i]
      BY <1>1, <1>a
    <3> QED BY <1>1, <2>2, <3>1 DEF Handled
  <2> QED BY <1>1, <2>1, <2>2 DEF Handled, Faithful
<1>2. CASE ReadHeader \/ RejectHeader
  <2>1. /\ handled' = handled
        /\ sent' = sent
        /\ taken' = taken + 1
        /\ winPc = "header"
        /\ winPc' # "header"
    BY <1>2 DEF ReadHeader, RejectHeader, EndSession
  <2>2. ASSUME NEW i \in 2 .. taken', Dispatches(sent[i]), i < taken'
        PROVE  \E k \in DOMAIN handled : handled[k].at = i
    BY <2>1, <2>2 DEF Handled
  <2> QED BY <2>1, <2>2 DEF Handled, Faithful
<1>3. CASE AcceptHello \/ AnswerHeartbeat
  <2>1. /\ handled' = handled
        /\ sent' = sent
        /\ taken' = taken
        /\ taken \in 1 .. Len(sent)
        /\ winPc = "handle"
    BY <1>3 DEF AcceptHello, AnswerHeartbeat, NextFrame
  <2>2. taken >= 2 => ~Dispatches(sent[taken])
    BY <1>3, ControlNotDispatched DEF AcceptHello, AnswerHeartbeat, LoopInv
  <2>3. ASSUME NEW i \in 2 .. taken, Dispatches(sent[i])
        PROVE  \E k \in DOMAIN handled : handled[k].at = i
    <3>1. i < taken
      BY <2>2, <2>3
    <3> QED BY <2>3, <3>1 DEF Handled
  <2> QED BY <2>1, <2>3 DEF Handled, Faithful
<1>4. CASE HandleFeature
  <2> DEFINE h == [at |-> taken, message |-> Sanitized(frame.body)]
  <2>1. /\ sent' = sent
        /\ taken' = taken
        /\ taken \in 2 .. Len(sent)
        /\ frame = sent[taken]
        /\ winPc = "handle"
        /\ Dispatches(frame)
    BY <1>4 DEF HandleFeature, NextFrame, LoopInv
  <2>2. Faithful(h, sent[taken]) /\ h.at = taken
    BY <2>1, DispatchFaithful DEF FrameInv
  <2> HIDE DEF h
  <2>3. /\ DOMAIN handled' = 1 .. Len(handled) + 1
        /\ \A k \in DOMAIN handled : handled'[k] = handled[k]
        /\ handled'[Len(handled) + 1] = h
    BY <1>4, AppendAny DEF HandleFeature, FrameInv, h
  <2>4. \A k \in DOMAIN handled : handled[k].at < taken
    BY <2>1 DEF LoopInv
  <2>5. \A k \in DOMAIN handled' : Faithful(handled'[k], sent'[handled'[k].at])
    BY <1>b, <2>1, <2>2, <2>3 DEF Handled
  <2>6. \A j, k \in DOMAIN handled' : j < k => handled'[j].at < handled'[k].at
    BY <1>b, <2>2, <2>3, <2>4 DEF Handled
  <2>7. ASSUME NEW i \in 2 .. taken, Dispatches(sent[i])
        PROVE  \E k \in DOMAIN handled' : handled'[k].at = i
    <3>1. CASE i = taken
      BY <1>b, <2>2, <2>3, <3>1
    <3>2. CASE i < taken
      BY <1>b, <2>3, <2>7, <3>2 DEF Handled
    <3> QED BY <3>1, <3>2
  <2> QED BY <2>1, <2>5, <2>6, <2>7 DEF Handled, Faithful
<1>5. CASE OtherStep
  BY <1>1, <1>5, OthersKeepWindows DEF winVars
<1>6. CASE Greet
  <2>1. taken = 0 /\ taken' = taken /\ handled' = handled
    BY <1>6 DEF Greet, LoopInv
  <2>2. 2 .. taken' = {}
    BY <2>1
  <2>3. DOMAIN handled' = {}
    BY <1>b, <2>1
  <2> QED BY <2>2, <2>3 DEF Handled
<1>7. CASE \/ GreetFails \/ ReadBody \/ RejectBody \/ ReadFails \/ RejectHello
           \/ AnswerFails \/ CloseRequested \/ RefuseFrame \/ Stop
  BY <1>1, <1>7
  DEF GreetFails, ReadBody, RejectBody, ReadFails, RejectHello, AnswerFails,
      CloseRequested, RefuseFrame, EndSession, Stop
<1> QED BY <1>2, <1>3, <1>4, <1>5, <1>6, <1>7 DEF Next, Serve, OtherStep

\* The handlers get what the peer wrote: in order, each message once, none left out,
\* and names that are safe to show, whatever frames come and in whatever order.
THEOREM HandlersGetWhatWasSent == Spec => []HandledAsSent
<1>1. Init => Handled
  BY EmptySeq DEF Init, Handled
<1>2. Inv /\ Handled /\ [Next]_vars => Handled'
  BY NextHandled
<1>3. Inv /\ Handled => HandledAsSent
  BY HandledIsAsSent
<1> QED BY <1>1, <1>2, <1>3, InitInv, NextInv, PTL DEF Spec

------------------------------------------------------------------------------
(* Two sequences in step. *)

\* The next after all of A.
Follows(a, A) == A \in SUBSET Int /\ a \in Int /\ \A i \in A : i < a

\* g goes on from f with one more pair.
Longer(g, f, A, B, a, b) ==
    /\ g \in InStep(A \cup {a}, B \cup {b})
    /\ UsesUp(g, B \cup {b})
    /\ g[a] = b
    /\ \A i \in A : g[i] = f[i]

\* One more on each side keeps two sequences in step.
LEMMA StepBoth ==
  ASSUME NEW A, NEW B, NEW f \in InStep(A, B), UsesUp(f, B),
         NEW a, Follows(a, A), NEW b, Follows(b, B)
  PROVE  \E g : Longer(g, f, A, B, a, b)
<1> USE DEF Follows
<1> DEFINE g == [i \in A \cup {a} |-> IF i = a THEN b ELSE f[i]]
<1>1. f \in [A -> B]
  BY DEF InStep
<1>2. a \notin A
  OBVIOUS
<1>3. g[a] = b /\ \A i \in A : g[i] = f[i] /\ f[i] \in B
  BY <1>1, <1>2
<1>4. g \in [A \cup {a} -> B \cup {b}]
  BY <1>1
<1> HIDE DEF g
<1>5. \A i, j \in A \cup {a} : i < j => g[i] < g[j]
  <2> SUFFICES ASSUME NEW i \in A \cup {a}, NEW j \in A \cup {a}, i < j
               PROVE  g[i] < g[j]
    OBVIOUS
  <2>1. i \in A
    OBVIOUS
  <2>2. CASE j = a
    BY <1>3, <2>1, <2>2
  <2>3. CASE j \in A
    BY <1>3, <2>1, <2>3 DEF InStep
  <2> QED BY <2>2, <2>3
<1>6. UsesUp(g, B \cup {b})
  <2>1. DOMAIN g = A \cup {a} /\ DOMAIN f = A
    BY <1>1, <1>4
  <2> QED BY <1>3, <2>1 DEF UsesUp
<1>7. \A i \in A \cup {a}, c \in B \cup {b} : c < g[i] => \E j \in A \cup {a} : g[j] = c
  BY <1>4, <1>6 DEF UsesUp
<1>8. g \in InStep(A \cup {a}, B \cup {b})
  BY <1>4, <1>5, <1>7 DEF InStep
<1> QED BY <1>3, <1>6, <1>8 DEF Longer

\* More to follow on the other side.
LEMMA MoreToFollow ==
  ASSUME NEW A \in SUBSET Int, NEW B \in SUBSET Int, NEW f \in InStep(A, B),
         NEW C \in SUBSET Int, B \subseteq C, \A c \in C \ B, b \in B : b < c
  PROVE  f \in InStep(A, C)
<1>1. f \in [A -> B]
  BY DEF InStep
<1>2. f \in [A -> C]
  BY <1>1
<1>3. ASSUME NEW i \in A, NEW c \in C, c < f[i]
      PROVE  \E j \in A : f[j] = c
  <2>1. f[i] \in B
    BY <1>1
  <2>2. c \notin B => f[i] < c
    BY <2>1
  <2>3. c \in Int /\ f[i] \in Int
    BY <2>1
  <2>4. c \in B
    BY <1>3, <2>2, <2>3
  <2> QED BY <1>3, <2>4 DEF InStep
<1>4. \A i, j \in A : i < j => f[i] < f[j]
  BY DEF InStep
<1> QED BY <1>2, <1>3, <1>4 DEF InStep

\* Nothing is in step with nothing.
LEMMA EmptyStep == \E f \in InStep({}, {}) : UsesUp(f, {})
<1> DEFINE f == [i \in {} |-> i]
<1>1. f \in [{} -> {}]
  OBVIOUS
<1> QED BY <1>1 DEF InStep, UsesUp

\* Where the frames of a kind are once Windows has sent one more.
LEMMA SentOneMore ==
  ASSUME IsSeq(down), NEW e, down' = Append(down, e)
  PROVE  /\ Len(down) \in Nat
         /\ Inputs \subseteq 1 .. Len(down)
         /\ Acks \subseteq 1 .. Len(down)
         /\ Inputs' = IF IsInput(e) THEN Inputs \cup {Len(down) + 1} ELSE Inputs
         /\ Acks' = IF IsAck(e) THEN Acks \cup {Len(down) + 1} ELSE Acks
         /\ \A k \in DOMAIN down : down'[k] = down[k]
         /\ down'[Len(down) + 1] = e
         /\ DOMAIN down' = DOMAIN down \cup {Len(down) + 1}
<1>1. /\ Len(down) \in Nat
      /\ DOMAIN down = 1 .. Len(down)
      /\ DOMAIN down' = 1 .. Len(down) + 1
      /\ \A k \in 1 .. Len(down) : down'[k] = down[k]
      /\ down'[Len(down) + 1] = e
  BY AppendAny
<1>2. DOMAIN down' = DOMAIN down \cup {Len(down) + 1}
  BY <1>1
<1>3. Inputs' = IF IsInput(e) THEN Inputs \cup {Len(down) + 1} ELSE Inputs
  <2>1. ASSUME NEW i
        PROVE  i \in Inputs' <=> i \in IF IsInput(e) THEN Inputs \cup {Len(down) + 1} ELSE Inputs
    BY <1>1, <1>2 DEF Inputs
  <2> QED BY <2>1
<1>4. Acks' = IF IsAck(e) THEN Acks \cup {Len(down) + 1} ELSE Acks
  <2>1. ASSUME NEW i
        PROVE  i \in Acks' <=> i \in IF IsAck(e) THEN Acks \cup {Len(down) + 1} ELSE Acks
    BY <1>1, <1>2 DEF Acks
  <2> QED BY <2>1
<1> QED BY <1>1, <1>2, <1>3, <1>4 DEF Inputs, Acks

------------------------------------------------------------------------------
(* The hook thread. *)

\* The counter's zero is never sent.
LEMMA FreshIdIsNotZero ==
  ASSUME TypeOK
  PROVE  FreshId # 0
<1>1. NextId(0) = 1
  BY WireAssumption DEF NextId
<1> QED BY <1>1 DEF FreshId

\* Whatever Windows puts into an envelope the envelope takes.
LEMMA WindowsSendable ==
  ASSUME NEW id, id # 0
  PROVE  /\ \A event \in Events : Sendable(Envelope(1, kInputEvent, id, event))
         /\ Sendable(Envelope(1, kHeartbeatAck, id, [form |-> "byte"]))
         /\ \A hello \in LocalHellos :
                Encodable(hello) => Sendable(Envelope(1, kSessionHello, id, hello))
<1>1. 1 \in DOMAIN ChannelLimit /\ 1 .. 200 \subseteq 1 .. ChannelLimit[1]
  <2>1. 1 \in DOMAIN ChannelLimit
    BY DEF ChannelLimit
  <2>2. ChannelLimit[1] = 64 * KiB
    BY DEF ChannelLimit
  <2>3. 200 <= 64 * KiB /\ 64 * KiB \in Nat
    BY DEF KiB
  <2> QED BY <2>1, <2>2, <2>3
<1>2. ASSUME NEW kind, NEW m, m.form # "offer", PayloadSize(m) \in 1 .. 200
      PROVE  Sendable(Envelope(1, kind, id, m))
  <2>1. Sanitized(m) = m
    BY <1>2 DEF Sanitized
  <2> DEFINE e == Envelope(1, kind, id, m)
  <2>2. e.channel = 1 /\ e.requestId = id /\ e.length = PayloadSize(m)
    BY <2>1 DEF Envelope
  <2> HIDE DEF e
  <2>3. Sendable(e)
    BY <1>1, <1>2, <2>2 DEF Sendable, KnownChannel
  <2> QED BY <2>3 DEF e
<1>3. ASSUME NEW event \in Events
      PROVE  event.form # "offer" /\ PayloadSize(event) \in 1 .. 200
  <2>1. event.form = "input"
    BY WireAssumption
  <2>2. PayloadSize(event) = 21
    BY <2>1 DEF PayloadSize, kSize
  <2> QED BY <2>1, <2>2
<1>4. LET m == [form |-> "byte"] IN m.form # "offer" /\ PayloadSize(m) \in 1 .. 200
  BY DEF PayloadSize
<1>5. ASSUME NEW hello \in LocalHellos, Encodable(hello)
      PROVE  hello.form # "offer" /\ PayloadSize(hello) \in 1 .. 200
  <2>1. hello.form = "hello"
    BY WireAssumption
  <2>2. hello.device.length \in 1 .. 64
    BY <1>5, <2>1 DEF Encodable, HelloAllowed, TextAllowed
  <2>3. PayloadSize(hello) = 70 + hello.device.length
    BY <2>1 DEF PayloadSize, HelloSize
  <2>4. PayloadSize(hello) \in 1 .. 200
    BY <2>2, <2>3
  <2> QED BY <2>1, <2>4
<1>6. \A event \in Events : Sendable(Envelope(1, kInputEvent, id, event))
  BY <1>2, <1>3
<1>7. Sendable(Envelope(1, kHeartbeatAck, id, [form |-> "byte"]))
  BY <1>2, <1>4
<1>8. \A hello \in LocalHellos :
         Encodable(hello) => Sendable(Envelope(1, kSessionHello, id, hello))
  BY <1>2, <1>5
<1> QED BY <1>6, <1>7, <1>8

EventInv == IsSeq(captured) /\ EventsAreSent

\* A frame that carries no event leaves the events in step.
LEMMA OtherFrameKeepsEvents ==
  ASSUME Inv, EventInv, UNCHANGED captured,
         NEW e, down' = Append(down, e), ~IsInput(e), Sendable(e)
  PROVE  EventInv'
<1>1. PICK f \in InStep(Inputs, DOMAIN captured) :
         /\ UsesUp(f, DOMAIN captured)
         /\ \A i \in Inputs : down[i].body = captured[f[i]]
  BY DEF EventInv, EventsAreSent
<1>2. /\ Inputs' = Inputs
      /\ \A k \in DOMAIN down : down'[k] = down[k]
      /\ \A k \in DOMAIN down' : k \in DOMAIN down \/ down'[k] = e
  BY SentOneMore DEF Inv, FrameInv
<1>3. \A i \in Inputs : down'[i].body = captured[f[i]]
  BY <1>1, <1>2 DEF Inputs
<1>4. \A k \in DOMAIN down' : Sendable(down'[k])
  BY <1>2 DEF EventInv, EventsAreSent
<1> QED BY <1>1, <1>2, <1>3, <1>4 DEF EventInv, EventsAreSent

\* Each step keeps the captured events in step with the frames that carry them.
LEMMA NextEvents ==
  ASSUME Inv, EventInv, [Next]_vars
  PROVE  EventInv'
<1>1. CASE UNCHANGED <<captured, down>>
  <2>1. Inputs' = Inputs
    BY <1>1 DEF Inputs
  <2> QED BY <1>1, <2>1 DEF EventInv, EventsAreSent
<1>2. CASE Greet
  <2> DEFINE e == Envelope(1, kSessionHello, 1, localHello)
  <2>1. ~IsInput(e)
    BY EnvelopeBody DEF IsInput, kSessionHello, kInputEvent
  <2>2. Sendable(e)
    <3>1. localHello \in LocalHellos /\ Encodable(localHello)
      BY <1>2 DEF Greet, Inv, TypeOK
    <3> QED BY <3>1, WindowsSendable
  <2>3. down' = Append(down, e) /\ captured' = captured
    BY <1>2 DEF Greet, hookVars
  <2> HIDE DEF e
  <2> QED BY <2>1, <2>2, <2>3, OtherFrameKeepsEvents
<1>3. CASE AnswerHeartbeat
  <2> DEFINE e == Envelope(1, kHeartbeatAck, frame.requestId, [form |-> "byte"])
  <2>1. ~IsInput(e)
    BY EnvelopeBody DEF IsInput, kHeartbeatAck, kInputEvent
  <2>2. frame.requestId # 0
    BY <1>3 DEF AnswerHeartbeat, Inv, LoopInv, Decodable
  <2>3. Sendable(e)
    BY <2>2, WindowsSendable
  <2>4. down' = Append(down, e) /\ captured' = captured
    BY <1>3 DEF AnswerHeartbeat, NextFrame, hookVars
  <2> HIDE DEF e
  <2> QED BY <2>1, <2>3, <2>4, OtherFrameKeepsEvents
<1>4. ASSUME NEW event \in Events, Capture(event)
      PROVE  EventInv'
  <2> DEFINE e == Envelope(1, kInputEvent, FreshId, event)
             A == Inputs
             B == DOMAIN captured
             a == Len(down) + 1
             b == Len(captured) + 1
  <2>1. IsInput(e) /\ e.body = event
    BY EnvelopeBody, WireAssumption DEF IsInput
  <2>2. Sendable(e)
    BY FreshIdIsNotZero, WindowsSendable DEF Inv
  <2>3. down' = Append(down, e) /\ captured' = Append(captured, event)
    BY <1>4, <2>2 DEF Capture
  <2> HIDE DEF e
  <2>4. /\ Inputs' = A \cup {a}
        /\ A \in SUBSET Int
        /\ a \in Int
        /\ \A i \in A : i < a
        /\ \A i \in A : down'[i] = down[i]
        /\ down'[a] = e
        /\ \A k \in DOMAIN down' : k \in DOMAIN down \/ k = a
        /\ \A k \in DOMAIN down : down'[k] = down[k]
    BY <2>1, <2>3, SentOneMore DEF Inv, FrameInv, Inputs
  <2>5. /\ IsSeq(captured')
        /\ DOMAIN captured' = B \cup {b}
        /\ B \in SUBSET Int
        /\ b \in Int
        /\ \A j \in B : j < b
        /\ \A j \in B : captured'[j] = captured[j]
        /\ captured'[b] = event
    <3>1. IsSeq(captured)
      BY DEF EventInv
    <3>2. /\ Len(captured) \in Nat
          /\ B = 1 .. Len(captured)
          /\ IsSeq(captured')
          /\ DOMAIN captured' = 1 .. Len(captured) + 1
          /\ \A j \in 1 .. Len(captured) : captured'[j] = captured[j]
          /\ captured'[Len(captured) + 1] = event
      BY <2>3, <3>1, AppendAny
    <3> QED BY <3>2
  <2>6. PICK f \in InStep(A, B) : UsesUp(f, B) /\ \A i \in A : down[i].body = captured[f[i]]
    BY DEF EventInv, EventsAreSent
  <2> HIDE DEF A, B, a, b
  <2>7. PICK g : Longer(g, f, A, B, a, b)
    <3>1. Follows(a, A) /\ Follows(b, B)
      BY <2>4, <2>5 DEF Follows
    <3> QED BY <2>6, <3>1, StepBoth
  <2>8. \A i \in A : f[i] \in B
    BY <2>6 DEF InStep
  <2>9. \A i \in A \cup {a} : down'[i].body = captured'[g[i]]
    <3>1. ASSUME NEW i \in A
          PROVE  down'[i].body = captured'[g[i]]
      <4>1. g[i] = f[i] /\ f[i] \in B /\ down'[i] = down[i]
        BY <2>4, <2>7, <2>8 DEF Longer
      <4>2. captured'[f[i]] = captured[f[i]]
        BY <2>5, <4>1
      <4> QED BY <2>6, <4>1, <4>2
    <3>2. down'[a].body = captured'[g[a]]
      BY <2>1, <2>4, <2>5, <2>7 DEF Longer
    <3> QED BY <3>1, <3>2
  <2>10. \A k \in DOMAIN down' : Sendable(down'[k])
    BY <2>2, <2>4 DEF EventInv, EventsAreSent
  <2>11. g \in InStep(Inputs', DOMAIN captured') /\ UsesUp(g, DOMAIN captured')
    BY <2>4, <2>5, <2>7 DEF Longer
  <2>12. EventsAreSent'
    BY <2>4, <2>9, <2>10, <2>11 DEF EventsAreSent
  <2> QED BY <2>5, <2>12 DEF EventInv
<1>5. captured' = captured \/ \E event \in Events : Capture(event)
  BY DEF Next, Serve, Greet, GreetFails, ReadHeader, RejectHeader, ReadBody, RejectBody,
         ReadFails, AcceptHello, RejectHello, AnswerHeartbeat, AnswerFails, CloseRequested,
         HandleFeature, RefuseFrame, EndSession, NextFrame, Stop, DropEvent,
         Phone, PhoneHello, StartLoop, LeaveRead, PostEvent, LoopFails, Perform,
         PerformFails, PhoneGoes, PhoneSend, PeerWrites, vars, hookVars
<1> QED BY <1>1, <1>2, <1>3, <1>4, <1>5, WhoSends

\* The events stay in step in every session.
LEMMA EventsHold == Spec => [](Inv /\ EventInv)
<1>1. Init => EventInv
  <2> SUFFICES ASSUME Init
               PROVE  EventInv
    OBVIOUS
  <2>1. DOMAIN captured = {} /\ DOMAIN down = {} /\ Inputs = {} /\ IsSeq(captured)
    BY EmptySeq, AppendAny DEF Init, Inputs
  <2> QED BY <2>1, EmptyStep DEF EventInv, EventsAreSent
<1>2. Inv /\ EventInv /\ [Next]_vars => EventInv'
  BY NextEvents
<1> QED BY <1>1, <1>2, InitInv, NextInv, PTL DEF Spec

\* Every event the hooks deliver during a session and the codec accepts is written
\* to the phone, once and in order, and none goes out with the id zero that the
\* envelope refuses, wherever the shared counter wraps.
THEOREM CapturedIsSent == Spec => []EventsAreSent
<1>1. EventInv => EventsAreSent
  BY DEF EventInv
<1> QED BY <1>1, EventsHold, PTL

------------------------------------------------------------------------------
(* The acks. *)

\* A heartbeat is no other frame that establish and run know.
LEMMA HeartbeatIsNothingElse ==
  ASSUME NEW f, IsHeartbeat(f)
  PROVE  ~IsHello(f) /\ ~IsClose(f) /\ ~Dispatches(f)
<1>1. ~IsHello(f) /\ ~IsClose(f)
  BY DEF IsHeartbeat, IsHello, IsClose, kHeartbeat, kSessionHello, kSessionClose
<1> QED BY <1>1, ControlNotDispatched

\* How the heartbeats that are done with grow: only one that was answered joins
\* them while the session goes on.
LEMMA BeatsGrow ==
  ASSUME Inv, [Next]_vars
  PROVE  /\ Beats \in SUBSET Int /\ Beats' \in SUBSET Int
         /\ Beats \subseteq Beats'
         /\ \A c \in Beats' \ Beats, b \in Beats : b < c
         /\ \A i \in Beats : sent'[i] = sent[i]
         /\ peer' = "up" /\ ~AnswerHeartbeat => Beats' = Beats /\ (peer = "up" \/ Beats = {})
         /\ AnswerHeartbeat => /\ Beats' = Beats \cup {taken}
                               /\ taken \in Int
                               /\ \A b \in Beats : b < taken
                               /\ sent'[taken] = frame
<1> USE DEF Inv, TypeOK
<1> DEFINE done == IF winPc \in {"body", "handle"} THEN taken - 1 ELSE taken
<1>a. /\ Len(sent) \in Nat
      /\ \A k \in 1 .. Len(sent) : sent'[k] = sent[k]
  BY SentGrows
<1>b. done \in Nat /\ done <= Len(sent)
  BY <1>a
<1>c. Beats = {i \in 1 .. done : IsHeartbeat(sent[i])}
  BY DEF Beats
<1>d. Beats' = {i \in 1 .. done' : IsHeartbeat(sent'[i])}
  BY DEF Beats
<1>e. taken' \in 0 .. Len(sent')
  BY NextTypes
<1>f. \/ done' = done
      \/ /\ done' = done + 1
         /\ taken' \in 1 .. Len(sent)
         /\ peer' = "ended" \/ AnswerHeartbeat \/ AcceptHello \/ HandleFeature
  <2>1. CASE Greet \/ ReadHeader \/ ReadBody \/ Stop
    BY <2>1 DEF Greet, ReadHeader, ReadBody, Stop
  <2>2. CASE GreetFails \/ RejectHeader \/ RejectBody \/ ReadFails \/ RejectHello
             \/ AnswerFails \/ CloseRequested \/ RefuseFrame
    BY <1>a, <2>2 DEF GreetFails, RejectHeader, RejectBody, ReadFails, RejectHello,
                      AnswerFails, CloseRequested, RefuseFrame, EndSession
  <2>3. CASE AcceptHello \/ AnswerHeartbeat \/ HandleFeature
    BY <1>a, <2>3 DEF AcceptHello, AnswerHeartbeat, HandleFeature, NextFrame
  <2>4. CASE OtherStep
    BY <2>4, OthersKeepWindows DEF winVars
  <2> QED BY <2>1, <2>2, <2>3, <2>4 DEF Next, Serve, OtherStep
<1> HIDE DEF done
<1>1. Beats \in SUBSET Int /\ Beats' \in SUBSET Int
  BY <1>c, <1>d
<1>2. Beats \subseteq Beats' /\ \A i \in Beats : sent'[i] = sent[i] /\ i <= done
  <2> SUFFICES ASSUME NEW i \in Beats
               PROVE  i \in Beats' /\ sent'[i] = sent[i] /\ i <= done
    OBVIOUS
  <2>1. i \in 1 .. done /\ IsHeartbeat(sent[i])
    BY <1>c
  <2>2. i \in 1 .. Len(sent) /\ i \in 1 .. done'
    BY <1>a, <1>b, <1>f, <2>1
  <2>3. sent'[i] = sent[i]
    BY <1>a, <2>2
  <2> QED BY <1>d, <2>1, <2>2, <2>3
<1>3. \A c \in Beats' \ Beats : c = done + 1 /\ done' = done + 1
  BY <1>a, <1>b, <1>c, <1>d, <1>f
<1>4. \A c \in Beats' \ Beats, b \in Beats : b < c
  BY <1>b, <1>1, <1>2, <1>3
<1>5. ASSUME peer' = "up", ~AnswerHeartbeat
      PROVE  Beats' = Beats /\ (peer = "up" \/ Beats = {})
  <2>1. CASE AcceptHello
    <3>1. done = 0 /\ done' = 1 /\ sent'[1] = sent[1] /\ IsHello(sent[1])
      BY <1>a, <2>1 DEF AcceptHello, HelloGood, LoopInv, done
    <3>2. Beats = {} /\ Beats' = {}
      BY <1>c, <1>d, <3>1, HeartbeatIsNothingElse
    <3> QED BY <3>2
  <2>2. CASE HandleFeature
    <3>1. /\ done = taken - 1 /\ done' = taken
          /\ taken \in 1 .. Len(sent)
          /\ frame = sent[taken]
          /\ Dispatches(frame)
          /\ peer = "up"
      BY <1>5, <2>2 DEF HandleFeature, NextFrame, done
    <3>2. ~IsHeartbeat(sent'[done + 1])
      BY <1>a, <3>1, HeartbeatIsNothingElse
    <3> QED BY <1>2, <1>3, <1>d, <3>1, <3>2
  <2>3. CASE done' = done
    <3>1. peer = "up"
      <4>1. ~AcceptHello
        BY <1>b, <2>3 DEF AcceptHello, done
      <4> QED BY <1>5, <4>1, OthersKeepWindows
              DEF Next, Serve, OtherStep, Greet, GreetFails, ReadHeader, RejectHeader, ReadBody,
                  RejectBody, ReadFails, RejectHello, AnswerFails, CloseRequested,
                  HandleFeature, RefuseFrame, EndSession, NextFrame, Stop, winVars
    <3>2. Beats' \ Beats = {}
      <4>1. done' # done + 1
        BY <1>b, <2>3
      <4> QED BY <1>3, <4>1
    <3> QED BY <1>2, <3>1, <3>2
  <2> QED BY <1>5, <1>f, <2>1, <2>2, <2>3
<1>6. ASSUME AnswerHeartbeat
      PROVE  /\ Beats' = Beats \cup {taken}
             /\ taken \in Int
             /\ \A b \in Beats : b < taken
             /\ sent'[taken] = frame
  <2>1. /\ done = taken - 1 /\ done' = taken
        /\ taken \in 1 .. Len(sent)
        /\ frame = sent[taken]
        /\ IsHeartbeat(frame)
    BY <1>6 DEF AnswerHeartbeat, NextFrame, done
  <2>2. sent'[taken] = frame
    BY <1>a, <2>1
  <2>3. taken \in Beats'
    BY <1>d, <2>1, <2>2
  <2>4. taken \in Int /\ done + 1 = taken
    BY <2>1
  <2>5. \A c \in Beats' \ Beats : c = taken
    BY <1>3, <2>4
  <2>6. \A b \in Beats : b < taken
    BY <1>1, <1>2, <1>b, <2>4
  <2> QED BY <1>2, <2>2, <2>3, <2>4, <2>5, <2>6
<1> QED BY <1>1, <1>2, <1>4, <1>5, <1>6

\* Frames that are no acks, and frames that were read, leave the acks in step.
LEMMA OtherFrameKeepsAcks ==
  ASSUME Inv, AcksMatch, [Next]_vars, ~AnswerHeartbeat,
         Acks' = Acks, \A i \in Acks : down'[i] = down[i]
  PROVE  AcksMatch'
<1>1. PICK f \in InStep(Acks, Beats) :
         /\ \A i \in Acks : down[i].requestId = sent[f[i]].requestId
         /\ peer = "up" => UsesUp(f, Beats)
  BY DEF AcksMatch
<1>2. \A i \in Acks : f[i] \in Beats
  BY DEF InStep
<1>3. Acks \in SUBSET Int
  BY AppendAny DEF Acks, Inv, FrameInv
<1>4. f \in InStep(Acks, Beats')
  BY <1>3, BeatsGrow, MoreToFollow
<1>5. \A i \in Acks : down'[i].requestId = sent'[f[i]].requestId
  BY <1>1, <1>2, BeatsGrow
<1>6. peer' = "up" => UsesUp(f, Beats')
  BY <1>1, BeatsGrow DEF UsesUp
<1> QED BY <1>4, <1>5, <1>6 DEF AcksMatch

\* Each step keeps the acks in step with the heartbeats that were answered.
LEMMA NextAcks ==
  ASSUME Inv, AcksMatch, [Next]_vars
  PROVE  AcksMatch'
<1>1. CASE down' = down
  <2>1. Acks' = Acks
    BY <1>1 DEF Acks
  <2>2. CASE AnswerHeartbeat
    <3>1. down' # down
      <4>1. Len(down') = Len(down) + 1 /\ Len(down) \in Nat
        BY <2>2, AppendAny DEF AnswerHeartbeat, Inv, FrameInv
      <4> QED BY <4>1
    <3> QED BY <1>1, <3>1
  <2> QED BY <1>1, <2>1, <2>2, OtherFrameKeepsAcks
<1>2. ASSUME NEW e, down' = Append(down, e), ~IsAck(e), ~AnswerHeartbeat
      PROVE  AcksMatch'
  <2>1. Acks' = Acks /\ \A i \in Acks : down'[i] = down[i]
    BY <1>2, SentOneMore DEF Inv, FrameInv, Acks
  <2> QED BY <1>2, <2>1, OtherFrameKeepsAcks
<1>3. CASE Greet
  <2> DEFINE e == Envelope(1, kSessionHello, 1, localHello)
  <2>1. ~IsAck(e)
    BY EnvelopeBody DEF IsAck, kSessionHello, kHeartbeatAck
  <2>2. down' = Append(down, e) /\ ~AnswerHeartbeat
    BY <1>3 DEF Greet, AnswerHeartbeat
  <2> HIDE DEF e
  <2> QED BY <1>2, <2>1, <2>2
<1>4. ASSUME NEW event \in Events, Capture(event)
      PROVE  AcksMatch'
  <2> DEFINE e == Envelope(1, kInputEvent, FreshId, event)
  <2>1. ~IsAck(e)
    BY EnvelopeBody DEF IsAck, kInputEvent, kHeartbeatAck
  <2>2. (down' = Append(down, e) \/ down' = down) /\ winPc' = winPc
    BY <1>4 DEF Capture, winVars
  <2>3. ~AnswerHeartbeat
    BY <2>2 DEF AnswerHeartbeat, NextFrame
  <2> HIDE DEF e
  <2> QED BY <1>1, <1>2, <2>1, <2>2, <2>3
<1>5. CASE AnswerHeartbeat
  <2> DEFINE e == Envelope(1, kHeartbeatAck, frame.requestId, [form |-> "byte"])
             A == Acks
             B == Beats
             a == Len(down) + 1
             b == taken
  <2>1. IsAck(e) /\ e.requestId = frame.requestId
    BY DEF IsAck, Envelope
  <2>2. down' = Append(down, e) /\ peer = "up"
    BY <1>5 DEF AnswerHeartbeat
  <2> HIDE DEF e
  <2>3. /\ Acks' = A \cup {a}
        /\ A \in SUBSET Int
        /\ a \in Int
        /\ \A i \in A : i < a
        /\ \A i \in A : down'[i] = down[i]
        /\ down'[a] = e
    BY <2>1, <2>2, SentOneMore DEF Inv, FrameInv, Acks
  <2>4. /\ Beats' = B \cup {b}
        /\ B \in SUBSET Int
        /\ b \in Int
        /\ \A j \in B : j < b
        /\ \A j \in B : sent'[j] = sent[j]
        /\ sent'[b] = frame
    BY <1>5, BeatsGrow
  <2>5. PICK f \in InStep(A, B) :
          UsesUp(f, B) /\ \A i \in A : down[i].requestId = sent[f[i]].requestId
    BY <2>2 DEF AcksMatch
  <2> HIDE DEF A, B, a, b
  <2>6. PICK g : Longer(g, f, A, B, a, b)
    <3>1. Follows(a, A) /\ Follows(b, B)
      BY <2>3, <2>4 DEF Follows
    <3> QED BY <2>5, <3>1, StepBoth
  <2>7. \A i \in A : f[i] \in B
    BY <2>5 DEF InStep
  <2>8. \A i \in A \cup {a} : down'[i].requestId = sent'[g[i]].requestId
    <3>1. ASSUME NEW i \in A
          PROVE  down'[i].requestId = sent'[g[i]].requestId
      <4>1. g[i] = f[i] /\ f[i] \in B /\ down'[i] = down[i]
        BY <2>3, <2>6, <2>7 DEF Longer
      <4>2. sent'[f[i]] = sent[f[i]]
        BY <2>4, <4>1
      <4> QED BY <2>5, <4>1, <4>2
    <3>2. down'[a].requestId = sent'[g[a]].requestId
      BY <2>1, <2>3, <2>4, <2>6 DEF Longer
    <3> QED BY <3>1, <3>2
  <2> QED BY <2>3, <2>4, <2>6, <2>8 DEF AcksMatch, Longer
<1> QED BY <1>1, <1>3, <1>4, <1>5, WhoSends

\* Every ack has the id of its heartbeat, in the heartbeats' order, and as long as
\* the session is up every heartbeat that was read has been answered, however the
\* hook thread, stop and the phone come in between.
THEOREM HeartbeatsAcked == Spec => []AcksMatch
<1>1. Init => AcksMatch
  <2> SUFFICES ASSUME Init
               PROVE  AcksMatch
    OBVIOUS
  <2>1. Acks = {} /\ Beats = {}
    BY EmptySeq, AppendAny DEF Init, Acks, Beats
  <2> QED BY <2>1, EmptyStep DEF AcksMatch
<1>2. Inv /\ AcksMatch /\ [Next]_vars => AcksMatch'
  BY NextAcks
<1> QED BY <1>1, <1>2, InitInv, NextInv, PTL DEF Spec

------------------------------------------------------------------------------
(* The phone. *)

Upto(n) == {i \in Inputs : i <= n}

\* The events among the first n frames have been performed, and no others.
Performed(n) ==
    \E f \in InStep(DOMAIN gestures, Upto(n)) :
        /\ UsesUp(f, Upto(n))
        /\ \A k \in DOMAIN gestures : gestures[k] = down[f[k]].body

\* The hello comes first, and there is no session before it.
HelloFirst ==
    /\ 1 \in DOMAIN down => ~IsInput(down[1])
    /\ winPc = "greet" => DOMAIN down = {}
    /\ winPc \in {"header", "body", "handle"} => 1 \in DOMAIN down

\* While the loop reads, everything it has read is performed; what is posted is the
\* last frame, and everything before it is performed.
GestureInv ==
    /\ IsSeq(gestures)
    /\ \E n \in 0 .. downTaken : Performed(n)
    /\ phone \in {"hello", "idle"} => downTaken = 0
    /\ phone = "reading" => Performed(downTaken)
    /\ phone = "handling" => Performed(downTaken - 1)
    /\ posted # NoFrame =>
           /\ phone \in {"waiting", "deaf", "gone"}
           /\ downTaken \in Inputs
           /\ posted = down[downTaken].body
           /\ Performed(downTaken - 1)

\* Windows' hello is its first frame, and no event takes its place.
LEMMA NextHelloFirst ==
  ASSUME Inv, HelloFirst, [Next]_vars
  PROVE  HelloFirst'
<1> USE DEF Inv, TypeOK, FrameInv, HelloFirst
<1>1. Len(down) \in Nat /\ DOMAIN down = 1 .. Len(down)
  BY AppendAny
<1>2. CASE Greet
  <2> DEFINE e == Envelope(1, kSessionHello, 1, localHello)
  <2>1. ~IsInput(e)
    BY EnvelopeBody DEF IsInput, kSessionHello, kInputEvent
  <2>2. down' = Append(down, e) /\ Len(down) = 0 /\ winPc' = "header"
    <3>1. DOMAIN down = {}
      BY <1>2 DEF Greet
    <3>2. 1 \notin 1 .. Len(down)
      BY <1>1, <3>1
    <3> QED BY <1>1, <1>2, <3>2 DEF Greet
  <2> HIDE DEF e
  <2>3. DOMAIN down' = 1 .. 1 /\ down'[1] = e
    BY <2>2, AppendAny
  <2> QED BY <2>1, <2>2, <2>3
<1>3. ASSUME NEW e, down' = Append(down, e), 1 \in DOMAIN down,
             winPc' # "greet" \/ winPc' = winPc
      PROVE  HelloFirst'
  <2>1. 1 \in DOMAIN down' /\ down'[1] = down[1]
    BY <1>1, <1>3, AppendAny
  <2> QED BY <1>3, <2>1
<1>4. CASE AnswerHeartbeat
  BY <1>3, <1>4 DEF AnswerHeartbeat, NextFrame
<1>5. ASSUME NEW event \in Events, Capture(event)
      PROVE  HelloFirst'
  <2> DEFINE e == Envelope(1, kInputEvent, FreshId, event)
  <2>1. down' = Append(down, e) \/ down' = down
    BY <1>5 DEF Capture
  <2> HIDE DEF e
  <2>2. winPc \notin {"greet", "done"} /\ winPc' = winPc
    BY <1>5 DEF Capture, winVars, LoopInv
  <2>3. 1 \in DOMAIN down
    BY <2>2
  <2> QED BY <1>3, <2>1, <2>2, <2>3
<1>6. CASE down' = down /\ ~Greet
  <2>1. /\ winPc' = "greet" => winPc = "greet"
        /\ winPc' \in {"header", "body", "handle"} => winPc \in {"header", "body", "handle"}
    BY <1>6, OthersKeepWindows
    DEF Next, Serve, OtherStep, GreetFails, ReadHeader, RejectHeader, ReadBody, RejectBody,
        ReadFails, AcceptHello, RejectHello, AnswerHeartbeat, AnswerFails, CloseRequested,
        HandleFeature, RefuseFrame, EndSession, NextFrame, Stop, winVars
  <2> QED BY <1>6, <2>1
<1> QED BY <1>2, <1>4, <1>5, <1>6, WhoSends

\* What was performed stays performed when Windows sends more.
LEMMA PerformedStays ==
  ASSUME Inv, [Next]_vars, gestures' = gestures, NEW n \in 0 .. Len(down), Performed(n)
  PROVE  Performed(n)'
<1> USE DEF Inv, FrameInv
<1>1. /\ Upto(n)' = Upto(n)
      /\ \A i \in Upto(n) : down'[i] = down[i]
  <2>1. CASE down' = down
    BY <2>1 DEF Upto, Inputs
  <2>2. ASSUME NEW e, down' = Append(down, e)
        PROVE  /\ Upto(n)' = Upto(n)
               /\ \A i \in Upto(n) : down'[i] = down[i]
    <3>1. /\ Len(down) \in Nat
          /\ Inputs' = IF IsInput(e) THEN Inputs \cup {Len(down) + 1} ELSE Inputs
          /\ \A k \in DOMAIN down : down'[k] = down[k]
      BY <2>2, SentOneMore
    <3>2. ~(Len(down) + 1 <= n)
      BY <3>1
    <3>3. ASSUME NEW i
          PROVE  i \in Upto(n)' <=> i \in Upto(n)
      BY <3>1, <3>2 DEF Upto
    <3>4. \A i \in Upto(n) : down'[i] = down[i]
      BY <3>1 DEF Upto, Inputs
    <3> QED BY <3>3, <3>4
  <2>3. CASE Greet \/ AnswerHeartbeat
    BY <2>2, <2>3 DEF Greet, AnswerHeartbeat
  <2>4. CASE \E event \in Events : Capture(event)
    BY <2>1, <2>2, <2>4 DEF Capture
  <2> QED BY <2>1, <2>3, <2>4, WhoSends
<1>2. PICK f \in InStep(DOMAIN gestures, Upto(n)) :
        /\ UsesUp(f, Upto(n))
        /\ \A k \in DOMAIN gestures : gestures[k] = down[f[k]].body
  BY DEF Performed
<1>3. \A k \in DOMAIN gestures : f[k] \in Upto(n)
  BY DEF InStep
<1>4. \A k \in DOMAIN gestures' : gestures'[k] = down'[f[k]].body
  BY <1>1, <1>2, <1>3
<1>5. f \in InStep(DOMAIN gestures, Upto(n))' /\ UsesUp(f, Upto(n)')
  BY <1>1, <1>2
<1> QED BY <1>4, <1>5 DEF Performed

\* A frame without an event asks for no gesture.
LEMMA NothingToPerform ==
  ASSUME NEW n \in Int, Performed(n), n + 1 \notin Inputs, Inputs \in SUBSET Int
  PROVE  Performed(n + 1)
<1>1. Upto(n + 1) = Upto(n)
  <2>1. ASSUME NEW i \in Inputs
        PROVE  i <= n + 1 <=> i <= n
    <3>1. i \in Int /\ i # n + 1
      OBVIOUS
    <3> QED BY <3>1
  <2> QED BY <2>1 DEF Upto
<1> QED BY <1>1 DEF Performed

\* The gesture for the next event.
LEMMA OneMorePerformed ==
  ASSUME Inv, IsSeq(gestures), NEW n \in Inputs, Performed(n - 1),
         gestures' = Append(gestures, down[n].body), down' = down
  PROVE  Performed(n)' /\ IsSeq(gestures')
<1> DEFINE A == DOMAIN gestures
           a == Len(gestures) + 1
           B == Upto(n - 1)
<1>1. /\ Follows(a, A)
      /\ DOMAIN gestures' = A \cup {a}
      /\ \A k \in A : gestures'[k] = gestures[k]
      /\ gestures'[a] = down[n].body
      /\ IsSeq(gestures')
  <2>1. /\ Len(gestures) \in Nat
        /\ A = 1 .. Len(gestures)
        /\ DOMAIN gestures' = 1 .. Len(gestures) + 1
        /\ \A k \in 1 .. Len(gestures) : gestures'[k] = gestures[k]
        /\ gestures'[Len(gestures) + 1] = down[n].body
        /\ IsSeq(gestures')
    BY AppendAny
  <2> QED BY <2>1 DEF Follows
<1>2. Follows(n, B) /\ Upto(n) = B \cup {n}
  <2>1. Inputs \in SUBSET Int /\ n \in Int
    BY AppendAny DEF Inputs, Inv, FrameInv
  <2>2. ASSUME NEW i \in Inputs
        PROVE  /\ i <= n <=> i <= n - 1 \/ i = n
               /\ i <= n - 1 => i < n
    <3>1. i \in Int
      BY <2>1
    <3> QED BY <2>1, <3>1
  <2>3. Follows(n, B)
    BY <2>1, <2>2 DEF Upto, Follows
  <2>4. ASSUME NEW i
        PROVE  i \in Upto(n) <=> i \in B \cup {n}
    <3>1. n <= n
      BY <2>1
    <3> QED BY <2>2, <3>1 DEF Upto
  <2> QED BY <2>3, <2>4
<1>3. PICK f \in InStep(A, B) :
        UsesUp(f, B) /\ \A k \in A : gestures[k] = down[f[k]].body
  BY DEF Performed
<1> HIDE DEF A, B, a
<1>4. PICK g : Longer(g, f, A, B, a, n)
  BY <1>1, <1>2, <1>3, StepBoth
<1>5. \A k \in A : f[k] \in B
  BY <1>3 DEF InStep
<1>6. \A k \in A \cup {a} : gestures'[k] = down[g[k]].body
  BY <1>1, <1>3, <1>4 DEF Longer
<1>7. g \in InStep(DOMAIN gestures', Upto(n)) /\ UsesUp(g, Upto(n))
  BY <1>1, <1>2, <1>4 DEF Longer
<1>8. Upto(n)' = Upto(n)
  BY DEF Upto, Inputs
<1> QED BY <1>1, <1>6, <1>7, <1>8 DEF Performed

\* A frame from Windows stays as it was written.
LEMMA DownStays ==
  ASSUME Inv, [Next]_vars, NEW k \in DOMAIN down
  PROVE  k \in DOMAIN down' /\ down'[k] = down[k]
<1>1. ASSUME NEW e, down' = Append(down, e)
      PROVE  k \in DOMAIN down' /\ down'[k] = down[k]
  BY <1>1, SentOneMore DEF Inv, FrameInv
<1>2. CASE Greet \/ AnswerHeartbeat
  BY <1>1, <1>2 DEF Greet, AnswerHeartbeat
<1>3. CASE down' = down \/ \E event \in Events : Capture(event)
  BY <1>1, <1>3 DEF Capture
<1> QED BY <1>2, <1>3, WhoSends

\* Each step keeps what was performed a beginning of the events that were read.
LEMMA NextGestures ==
  ASSUME Inv, HelloFirst, GestureInv, [Next]_vars
  PROVE  GestureInv'
<1> USE DEF Inv, TypeOK, FrameInv, GestureInv
<1>a. Inputs \in SUBSET Int /\ Len(down) \in Nat /\ DOMAIN down = 1 .. Len(down)
  BY AppendAny DEF Inputs
<1>b. downTaken \in Nat /\ downTaken <= Len(down)
  BY <1>a
<1>c. ASSUME gestures' = gestures
      PROVE  \A n \in 0 .. Len(down) : Performed(n) => Performed(n)'
  BY <1>c, PerformedStays
<1>d. ASSUME posted # NoFrame
      PROVE  /\ downTaken - 1 \in 0 .. Len(down)
             /\ downTaken \in Inputs'
             /\ down'[downTaken] = down[downTaken]
  <2>1. downTaken \in DOMAIN down
    BY <1>d DEF Inputs
  <2>2. downTaken - 1 \in 0 .. Len(down)
    BY <1>a, <2>1
  <2>3. downTaken \in DOMAIN down' /\ down'[downTaken] = down[downTaken]
    BY <2>1, DownStays
  <2> QED BY <1>d, <2>2, <2>3 DEF Inputs
<1>e. phone = "handling" => downTaken - 1 \in 0 .. Len(down)
  BY <1>b DEF PhoneInv
<1>1. CASE UNCHANGED phoneVars
  <2>1. UNCHANGED <<downTaken, phone, posted, gestures>>
    BY <1>1 DEF phoneVars
  <2>2. \A n \in 0 .. Len(down) : Performed(n) => Performed(n)'
    BY <1>c, <2>1
  <2> QED BY <1>b, <1>d, <1>e, <2>1, <2>2
<1>2. CASE PhoneHello \/ LoopFails \/ PhoneGoes \/ PerformFails
  <2>1. /\ UNCHANGED <<downTaken, gestures>>
        /\ posted' = posted \/ posted' = NoFrame
        /\ posted' # NoFrame => posted # NoFrame
        /\ posted' # NoFrame => phone' \in {"waiting", "deaf", "gone"}
        /\ phone' \in {"idle", "deaf", "gone", phone}
        /\ phone' = "idle" => phone \in {"hello", "idle"}
    BY <1>2 DEF PhoneHello, LoopFails, PhoneGoes, PerformFails
  <2>2. \A n \in 0 .. Len(down) : Performed(n) => Performed(n)'
    BY <1>c, <2>1
  <2> QED BY <1>b, <1>d, <1>e, <2>1, <2>2
<1>3. CASE StartLoop
  <2>1. /\ downTaken = 0 /\ downTaken' = 1 /\ phone' = "reading"
        /\ gestures' = gestures /\ posted' = posted /\ down' = down
        /\ posted = NoFrame
    BY <1>3 DEF StartLoop
  <2>2. Performed(0)
    BY <2>1
  <2>3. 1 \notin Inputs
    BY DEF HelloFirst, Inputs
  <2>4. Performed(1)
    BY <1>a, <2>2, <2>3, NothingToPerform
  <2>5. Performed(1)'
    <3>1. 1 \in 0 .. Len(down)
      BY <1>3, NextTypes, <2>1
    <3> QED BY <1>c, <2>1, <2>4, <3>1
  <2> QED BY <2>1, <2>5
<1>4. CASE LeaveRead
  <2>1. /\ downTaken' = downTaken + 1 /\ phone' = "handling" /\ phone = "reading"
        /\ gestures' = gestures /\ posted' = posted /\ posted = NoFrame
    BY <1>4 DEF LeaveRead
  <2>2. downTaken' - 1 = downTaken /\ Performed(downTaken)
    BY <1>b, <2>1
  <2>3. Performed(downTaken - 1)'
    BY <1>b, <1>c, <2>1, <2>2
  <2> QED BY <1>b, <2>1, <2>3
<1>5. CASE PostEvent
  <2>1. /\ downTaken' = downTaken /\ phone = "handling" /\ phone' = "waiting"
        /\ gestures' = gestures /\ down' = down
        /\ posted' = down[downTaken].body
        /\ IsInput(down[downTaken])
    BY <1>5 DEF PostEvent
  <2>2. downTaken \in Inputs'
    BY <1>a, <1>b, <2>1 DEF Inputs, PhoneInv
  <2>3. \A n \in 0 .. Len(down) : Performed(n) => Performed(n)'
    BY <1>c, <2>1
  <2> QED BY <1>b, <1>e, <2>1, <2>2, <2>3
<1>6. CASE Perform
  <2>1. /\ downTaken' = downTaken /\ down' = down /\ posted # NoFrame /\ posted' = NoFrame
        /\ gestures' = Append(gestures, down[downTaken].body)
        /\ phone' \in {"reading", "deaf", "gone"}
    BY <1>6 DEF Perform
  <2>2. Performed(downTaken)' /\ IsSeq(gestures')
    BY <2>1, OneMorePerformed
  <2> QED BY <1>b, <2>1, <2>2
<1>7. \/ UNCHANGED phoneVars \/ StartLoop \/ LeaveRead \/ PostEvent \/ Perform
      \/ PhoneHello \/ LoopFails \/ PhoneGoes \/ PerformFails
  BY DEF Next, Serve, Greet, GreetFails, ReadHeader, RejectHeader, ReadBody, RejectBody,
         ReadFails, AcceptHello, RejectHello, AnswerHeartbeat, AnswerFails, CloseRequested,
         HandleFeature, RefuseFrame, EndSession, NextFrame, Stop, Capture, DropEvent,
         Phone, PhoneSend, PeerWrites, vars, phoneVars
<1> QED BY <1>1, <1>2, <1>3, <1>4, <1>5, <1>6, <1>7

\* The gestures are a beginning of the events that Windows has sent.
LEMMA GesturesInStep ==
  ASSUME Inv, GestureInv
  PROVE  GesturesFollowEvents
<1>1. PICK n \in 0 .. downTaken : Performed(n)
  BY DEF GestureInv
<1>2. PICK f \in InStep(DOMAIN gestures, Upto(n)) :
        \A k \in DOMAIN gestures : gestures[k] = down[f[k]].body
  BY <1>1 DEF Performed
<1>3. DOMAIN gestures \in SUBSET Int /\ Inputs \in SUBSET Int
  <2>1. IsSeq(gestures) /\ IsSeq(down)
    BY DEF GestureInv, Inv, FrameInv
  <2>2. /\ Len(gestures) \in Nat /\ DOMAIN gestures = 1 .. Len(gestures)
        /\ Len(down) \in Nat /\ DOMAIN down = 1 .. Len(down)
    BY <2>1, AppendAny
  <2> QED BY <2>2 DEF Inputs
<1>4. /\ Upto(n) \in SUBSET Int
      /\ Upto(n) \subseteq Inputs
      /\ \A c \in Inputs \ Upto(n), b \in Upto(n) : b < c
  <2>1. ASSUME NEW c \in Inputs \ Upto(n), NEW b \in Upto(n)
        PROVE  b < c
    <3>1. b \in Int /\ c \in Int /\ n \in Int
      BY <1>3 DEF Upto
    <3> QED BY <3>1 DEF Upto
  <2> QED BY <1>3, <2>1 DEF Upto
<1>5. f \in InStep(DOMAIN gestures, Inputs)
  BY <1>3, <1>4, MoreToFollow
<1> QED BY <1>2, <1>5 DEF GesturesFollowEvents

\* The gestures stay in step in every session.
LEMMA GesturesHold == Spec => [](Inv /\ GestureInv)
<1>1. Init => HelloFirst /\ GestureInv
  <2> SUFFICES ASSUME Init
               PROVE  HelloFirst /\ GestureInv
    OBVIOUS
  <2>1. DOMAIN gestures = {} /\ DOMAIN down = {} /\ IsSeq(gestures)
    BY EmptySeq, AppendAny DEF Init
  <2>2. HelloFirst
    BY <2>1 DEF Init, HelloFirst
  <2>3. Upto(0) = {}
    BY <2>1 DEF Upto, Inputs
  <2>4. Performed(0)
    BY <2>1, <2>3, EmptyStep DEF Performed
  <2>5. 0 \in 0 .. downTaken /\ downTaken = 0
    BY DEF Init
  <2>6. GestureInv
    BY <2>1, <2>4, <2>5 DEF Init, GestureInv
  <2> QED BY <2>2, <2>6
<1>2. Inv /\ HelloFirst /\ [Next]_vars => HelloFirst'
  BY NextHelloFirst
<1>3. Inv /\ HelloFirst /\ GestureInv /\ [Next]_vars => GestureInv'
  BY NextGestures
<1> QED BY <1>1, <1>2, <1>3, InitInv, NextInv, PTL DEF Spec

\* The phone performs the captured events in their order and leaves none out in
\* between, although its receive loop may have given up on the last one before the
\* main thread performs it.
THEOREM PhoneFollowsEvents == Spec => []GesturesFollowEvents
<1>1. Inv /\ GestureInv => GesturesFollowEvents
  BY GesturesInStep
<1> QED BY <1>1, GesturesHold, PTL

\* Any numbers from one upwards have a least one.
LEMMA LeastNumber ==
    ASSUME NEW T \in SUBSET Nat, T # {}
    PROVE  \E x \in T : \A y \in T : ~(y < x)
<1> DEFINE R == {p \in Nat \X Nat : p[1] < p[2]}
<1>1. IsWellFoundedOn(R, Nat)
  BY NatLessThanWellFounded DEF OpToRel
<1>2. PICK x \in T : \A y \in T : ~(<<y, x>> \in R)
  BY <1>1, WFMin
<1> QED BY <1>2

\* Two sequences are gone through in step element by element.
LEMMA InStepIsPrefix ==
    ASSUME NEW n \in Nat, NEW m \in Nat, NEW f \in InStep(1 .. n, 1 .. m),
           NEW k \in 1 .. n
    PROVE  f[k] = k
<1> DEFINE T == {x \in 1 .. n : f[x] # x}
<1>1. SUFFICES ASSUME T # {} PROVE FALSE
  OBVIOUS
<1>2. PICK x \in T : \A y \in T : ~(y < x)
  <2>1. T \in SUBSET Nat
    OBVIOUS
  <2> HIDE DEF T
  <2> QED BY <1>1, <2>1, LeastNumber
<1>3. /\ x \in 1 .. n /\ f[x] # x /\ f[x] \in 1 .. m
      /\ \A y \in 1 .. n : y < x => f[y] = y
      /\ \A i, j \in 1 .. n : i < j => f[i] < f[j]
      /\ \A i \in 1 .. n, b \in 1 .. m : b < f[i] => \E j \in 1 .. n : f[j] = b
      /\ \A i \in 1 .. n : f[i] \in 1 .. m
  BY <1>2 DEF InStep
<1>4. CASE f[x] < x
  <2>1. f[x] \in 1 .. n /\ f[f[x]] = f[x]
    BY <1>3, <1>4
  <2> QED BY <1>3, <1>4, <2>1
<1>5. CASE x < f[x]
  <2>1. x \in 1 .. m
    BY <1>3, <1>5
  <2>2. PICK j \in 1 .. n : f[j] = x
    BY <1>3, <1>5, <2>1
  <2>3. j # x /\ ~(j < x)
    BY <1>3, <2>2
  <2>4. f[x] < f[j]
    BY <1>3, <2>3
  <2> QED BY <1>3, <1>5, <2>2, <2>4
<1> QED BY <1>3, <1>4, <1>5

\* Going through A in step with B, and through B in step with C to its end, goes
\* through A in step with C.
LEMMA InStepOfInStep ==
    ASSUME NEW A \in SUBSET Int, NEW B \in SUBSET Int, NEW C \in SUBSET Int,
           NEW g \in InStep(A, B), NEW f \in InStep(B, C)
    PROVE  [a \in A |-> f[g[a]]] \in InStep(A, C)
<1> DEFINE h == [a \in A |-> f[g[a]]]
<1>1. h \in [A -> C]
  BY DEF InStep
<1>2. \A i, j \in A : i < j => h[i] < h[j]
  BY DEF InStep
<1>3. ASSUME NEW i \in A, NEW c \in C, c < h[i]
      PROVE  \E j \in A : h[j] = c
  <2>1. g[i] \in B /\ f[g[i]] = h[i]
    BY DEF InStep
  <2>2. PICK b \in B : f[b] = c
    BY <1>3, <2>1 DEF InStep
  <2>3. b < g[i]
    <3>1. b \in Int /\ g[i] \in Int /\ c \in Int /\ h[i] \in Int
      BY <1>1, <2>1
    <3>2. CASE g[i] < b
      <4>1. f[g[i]] < f[b]
        BY <2>1, <2>2, <3>2 DEF InStep
      <4> QED BY <1>3, <2>1, <2>2, <3>1, <4>1
    <3>3. CASE g[i] = b
      BY <1>3, <2>1, <2>2, <3>1, <3>3
    <3> QED BY <3>1, <3>2, <3>3
  <2>4. PICK j \in A : g[j] = b
    BY <2>2, <2>3 DEF InStep
  <2> QED BY <2>2, <2>4
<1> HIDE DEF h
<1>4. h \in InStep(A, C)
  BY <1>1, <1>2, <1>3 DEF InStep
<1> QED BY <1>4 DEF h

\* The gestures the phone performs are the first events the hooks captured, in
\* their order and with nothing between them, across the codec, the connection,
\* the receive loop and the main thread.
GesturesAreCaptured ==
    \A k \in DOMAIN gestures : k \in DOMAIN captured /\ gestures[k] = captured[k]

\* Phone Control end to end.
THEOREM PhoneControlEndToEnd == Spec => []GesturesAreCaptured
<1>1. Inv /\ EventInv /\ GestureInv => GesturesAreCaptured
  <2> SUFFICES ASSUME Inv, EventInv, GestureInv, NEW k \in DOMAIN gestures
               PROVE  k \in DOMAIN captured /\ gestures[k] = captured[k]
    BY DEF GesturesAreCaptured
  <2>1. PICK f \in InStep(Inputs, DOMAIN captured) :
            \A i \in Inputs : down[i].body = captured[f[i]]
    BY DEF EventInv, EventsAreSent
  <2>2. PICK g \in InStep(DOMAIN gestures, Inputs) :
            \A i \in DOMAIN gestures : gestures[i] = down[g[i]].body
    BY GesturesInStep DEF GesturesFollowEvents
  <2> DEFINE h == [a \in DOMAIN gestures |-> f[g[a]]]
  <2>3. /\ DOMAIN gestures = 1 .. Len(gestures) /\ Len(gestures) \in Nat
        /\ DOMAIN captured = 1 .. Len(captured) /\ Len(captured) \in Nat
        /\ DOMAIN down = 1 .. Len(down) /\ Len(down) \in Nat
    BY AppendAny DEF Inv, FrameInv, EventInv, GestureInv, IsSeq
  <2>4. Inputs \in SUBSET Int
    BY <2>3 DEF Inputs
  <2>5. h \in InStep(DOMAIN gestures, DOMAIN captured)
    BY <2>3, <2>4, InStepOfInStep
  <2>6. h[k] = k
    <3> HIDE DEF h
    <3> QED BY <2>3, <2>5, InStepIsPrefix
  <2>7. f[g[k]] = k /\ g[k] \in Inputs
    BY <2>6 DEF InStep
  <2>8. k \in DOMAIN captured
    BY <2>7 DEF InStep
  <2>9. gestures[k] = down[g[k]].body /\ down[g[k]].body = captured[f[g[k]]]
    BY <2>1, <2>2, <2>7
  <2> QED BY <2>7, <2>8, <2>9
<1> QED BY <1>1, EventsHold, GesturesHold, PTL

------------------------------------------------------------------------------
(* What the app's encoders write. *)

\* What an encoder writes its decoder reads, also a name that was made safe on the
\* way: "." becomes longer and stays within its limit.
LEMMA RoundTrip ==
  ASSUME NEW m, Encodable(m), m.form \notin {"byte"}, m.form = "offer" => m \in Offer
  PROVE  /\ Readable(Sanitized(m), PayloadSize(Sanitized(m)))
         /\ Sanitized(m).form = m.form
         /\ m.form # "offer" => Sanitized(m) = m
<1>1. CASE m.form = "offer"
  <2>1. m \in Offer /\ OfferAllowed(m)
    BY <1>1 DEF Encodable
  <2> DEFINE s == safe_display_name(m.name)
             safe == [m EXCEPT !.name = s]
  <2>2. m.name \in Text /\ m.mime \in Text /\ m.name.length \in 1 .. 255 /\ m.name.chars # "other"
    BY <2>1 DEF Offer, OfferAllowed, TextAllowed
  <2>3. s.length \in 1 .. 255 /\ s.chars # "other"
    BY <2>2 DEF Text, safe_display_name
  <2>4. safe.name = s /\ safe.mime = m.mime /\ safe.bytes = m.bytes /\ safe.form = "offer"
    BY <2>1 DEF Offer
  <2>5. Sanitized(m) = safe
    BY <1>1 DEF Sanitized
  <2> HIDE DEF s, safe
  <2>6. OfferAllowed(safe)
    BY <2>1, <2>3, <2>4 DEF OfferAllowed, TextAllowed
  <2>7. PayloadSize(safe) = OfferSize(safe)
    BY <2>4 DEF PayloadSize
  <2>8. Readable(safe, OfferSize(safe))
    BY <2>4, <2>6 DEF Readable, decode_offer
  <2> QED BY <1>1, <2>4, <2>5, <2>7, <2>8
<1>2. CASE m.form # "offer"
  <2>1. Sanitized(m) = m
    BY <1>2 DEF Sanitized
  <2>2. Readable(m, PayloadSize(m))
    BY <1>2 DEF Encodable, Readable, PayloadSize, decode_event, decode_frame, decode_chunk,
           decode_update, decode_command, decode_session_hello, kSize, CommandSize
  <2> QED BY <1>2, <2>1, <2>2
<1> QED BY <1>1, <1>2

\* Windows takes the hello that the app introduces itself with.
LEMMA OwnHelloPasses ==
  ASSUME sent[1] = AppHello
  PROVE  Passable(1)
<1> DEFINE m == [form |-> "hello", role |-> "android", maxFrame |-> 4096 * KiB,
                 device |-> [length |-> 7, chars |-> "plain"]]
           e == Envelope(1, kSessionHello, 1, m)
<1>1. sent[1] = e
  BY DEF AppHello
<1>2. m.form = "hello" /\ m.role = "android"
  OBVIOUS
<1>3. 4096 * KiB \in 1 .. 4096 * KiB
  <2>1. 4096 * KiB \in Nat /\ 1 <= 4096 * KiB
    BY DEF KiB
  <2>2. \A n \in Nat : 1 <= n => n \in 1 .. n
    OBVIOUS
  <2> QED BY <2>1, <2>2
<1>4. HelloAllowed(m)
  BY <1>3 DEF HelloAllowed, TextAllowed
<1>5. HelloSize(m) = 77
  BY DEF HelloSize
<1> HIDE DEF m
<1>6. PayloadSize(m) = 77 /\ Sanitized(m) = m
  BY <1>2, <1>5 DEF PayloadSize, Sanitized
<1>7. Readable(m, 77)
  BY <1>2, <1>4, <1>5 DEF Readable, decode_session_hello
<1>8. /\ e.channel = 1 /\ e.kind = kSessionHello /\ e.requestId = 1
      /\ e.length = 77 /\ e.body = m /\ e.good
  BY <1>6 DEF Envelope
<1> HIDE DEF e
<1>9. 1 \in DOMAIN ChannelLimit /\ 77 \in 1 .. ChannelLimit[1]
  <2>1. ChannelLimit[1] = 64 * KiB /\ 1 \in DOMAIN ChannelLimit
    BY DEF ChannelLimit
  <2> QED BY <2>1 DEF KiB
<1>10. Decodable(e) /\ IsHello(e)
  BY <1>8, <1>9 DEF Decodable, HeaderAccepted, KnownChannel, IsHello
<1> QED BY <1>1, <1>2, <1>7, <1>8, <1>10 DEF Passable

\* A message that was put into an envelope and sent is passable after the hello.
LEMMA OwnMessagePasses ==
  ASSUME NEW i \in Nat, i > 1, NEW o \in Offers, Wanted(o), Encodable(o.body),
         Sendable(Written(o, i)), sent[i] = Written(o, i)
  PROVE  Passable(i)
<1> DEFINE e == Envelope(o.channel, o.kind, i, o.body)
<1>1. Sendable(e) /\ sent[i] = e
  BY DEF Written
<1>2. o.body.form # "byte" /\ (o.body.form = "offer" => o.body \in Offer)
  <2>1. FormatOf(o) # "byte"
    BY DEF FormatOf
  <2> QED BY <2>1, WireAssumption DEF Wanted
<1>3. /\ Readable(Sanitized(o.body), PayloadSize(Sanitized(o.body)))
      /\ Sanitized(o.body).form = o.body.form
      /\ o.body.form # "offer" => Sanitized(o.body) = o.body
  BY <1>2, RoundTrip
<1>4. /\ e.channel = o.channel /\ e.kind = o.kind /\ e.body = Sanitized(o.body)
      /\ e.length = PayloadSize(Sanitized(o.body)) /\ e.good
  BY DEF Envelope
<1> HIDE DEF e
<1>5. Decodable(e)
  BY <1>1, <1>4 DEF Sendable, Decodable, HeaderAccepted
<1>6. FormatOf(e) = FormatOf(o)
  BY <1>4 DEF FormatOf, IsInput
<1>7. Dispatches(e)
  BY <1>3, <1>4, <1>6 DEF Wanted, Dispatches
<1>8. e.body.form = "audio" => e.body.codec = "pcm16"
  BY <1>3, <1>4 DEF Wanted
<1> QED BY <1>1, <1>5, <1>7, <1>8 DEF Passable

\* What the app's encoders write never ends a session, whoever sits at either end
\* and whatever else is written behind it.
THEOREM AppKeepsSession == Spec => []OwnFramesKeepSession
<1>1. ASSUME NEW i \in Nat \ {0}, Own(i)
      PROVE  Passable(i)
  <2>1. CASE i = 1
    BY <1>1, <2>1, OwnHelloPasses DEF Own
  <2>2. CASE i > 1
    BY <1>1, <2>2, OwnMessagePasses DEF Own
  <2> QED BY <2>1, <2>2
<1>2. Inv /\ ExitInv => OwnFramesKeepSession
  <2> SUFFICES ASSUME Inv, ExitInv, \A i \in 1 .. taken : Own(i)
               PROVE  peer = "ended" =>
                          \/ stopped
                          \/ phone = "gone"
                          \/ ~Encodable(localHello)
                          \/ sent[taken].body.form = "audio"
    BY DEF OwnFramesKeepSession
  <2>1. taken > 0 => Passable(taken)
    BY <1>1 DEF Inv, TypeOK
  <2> QED BY <2>1 DEF ExitInv
<1> QED BY <1>2, ExitsHold, PTL
===============================================================================
