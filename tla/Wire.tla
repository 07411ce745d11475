--------------------------------- MODULE Wire ---------------------------------
(***************************************************************************)
(* What travels in a session: envelopes with a channel, a kind, a request  *)
(* id and a payload, and the payload formats of the features.  Texts, data *)
(* and digests are represented by what the codecs look at: their length    *)
(* and whether their characters are allowed.  The numbers are the code's.  *)
(*                                                                         *)
(* A message is a record with a field "form" that names its format.  On    *)
(* the wire it is a body of some size, and a decoder accepts a body whose  *)
(* fields it allows and whose length fields add up to that size.           *)
(***************************************************************************)
EXTENDS Integers, Sequences

KiB == 1024
HeaderSize == 20
ChannelLimit == <<64 * KiB, 4096 * KiB, 1024 * KiB, 1024 * KiB, 256 * KiB>>

kSessionHello == 1
kHeartbeat == 5
kHeartbeatAck == 6
kSessionClose == 7
kFileOffer == 1
kFileChunk == 2
kClipboardUpdate == 1
kAudioFrame == 1
kDisplayCommand == 257
kInputEvent == 258

------------------------------------------------------------------------------
(* Messages and their formats. *)

\* Event: a coordinate, wheel, button and code limit for every type, and a
\* press or release flag for exactly the types that have one.
EventAllowed(m) ==
    /\ m.type \in {"move", "button", "wheel", "key"}
    /\ m.x \in -32767 .. 32767
    /\ m.y \in -32767 .. 32767
    /\ m.wheel \in -1000000 .. 1000000
    /\ m.type = "button" => m.button \in 1 .. 8
    /\ m.type = "key" => m.code \in 1 .. 1114111
    /\ IF m.type \in {"button", "key"} THEN m.flags \in {1, 2} ELSE m.flags = 0

\* A PCM16 frame holds whole samples of all its channels.
AudioAllowed(m) ==
    /\ m.codec \in {"pcm16", "opus"}
    /\ m.channels \in 1 .. 8
    /\ m.rate \in 8000 .. 192000
    /\ m.timestamp # 0
    /\ m.data \in 1 .. 256 * KiB
    /\ m.codec = "pcm16" => m.data % (2 * m.channels) = 0

\* A text; "plain" is printable ASCII, and so are the two that follow it: "." or
\* "..", and anything with a separator in it.
Text == {t \in [length : Nat, chars : {"plain", "dots", "separators", "other"}] :
            t.chars = "dots" => t.length \in {1, 2}}

TextAllowed(t, max) == t.length \in 1 .. max /\ t.chars # "other"

UpdateAllowed(m) ==
    /\ TextAllowed(m.device, 64)
    /\ m.text \in 1 .. 1024 * KiB
    /\ m.timestamp # 0

\* Mutant: only separators are looked for.
SeparatorsOnly(name) ==
    IF name.chars = "separators" THEN [name EXCEPT !.chars = "plain"] ELSE name

\* A name that is "dots" or has "separators" in it is made another one.
safe_display_name(name) ==
    CASE name.chars = "dots" -> [length |-> name.length + 1, chars |-> "plain"]
      [] name.chars = "separators" -> [name EXCEPT !.chars = "plain"]
      [] OTHER -> name

Offer == [form : {"offer"}, name : Text, mime : Text, bytes : Nat]

OfferAllowed(m) ==
    /\ TextAllowed(m.name, 255)
    /\ TextAllowed(m.mime, 128)
    /\ m.bytes # 0

ChunkAllowed(m) == m.data \in 1 .. 1024 * KiB

DisplayAllowed(m) == m.mode \in {"none", "second", "phone"}

HelloAllowed(m) ==
    /\ m.role \in {"windows", "android"}
    /\ TextAllowed(m.device, 64)
    /\ m.maxFrame \in 1 .. 4096 * KiB

\* What an encoder insists on, by format.  "byte" is the one-byte payload of a
\* heartbeat, which needs no encoder, "garbage" what no encoder produces.  Only the
\* phone's encoder of display commands asks for a sequence number; Windows sends none.
Encodable(m) ==
    CASE m.form = "input" -> EventAllowed(m)
      [] m.form = "audio" -> AudioAllowed(m)
      [] m.form = "clipboard" -> UpdateAllowed(m)
      [] m.form = "offer" -> OfferAllowed(m)
      [] m.form = "chunk" -> ChunkAllowed(m)
      [] m.form = "display" -> DisplayAllowed(m) /\ m.sequence # 0
      [] m.form = "hello" -> HelloAllowed(m)
      [] m.form = "byte" -> TRUE
      [] OTHER -> FALSE

\* The name of an offer is made safe before it is written and after it is read.
Sanitized(m) == IF m.form = "offer" THEN [m EXCEPT !.name = safe_display_name(@)] ELSE m

\* What an encoder writes is as long as its fixed fields and its own length
\* fields say.
kSize == 21
CommandSize == 6
FrameSize(m) == 26 + m.data
ChunkSize(m) == 28 + m.data
UpdateSize(m) == 29 + m.device.length + m.text
OfferSize(m) == 58 + m.name.length + m.mime.length
HelloSize(m) == 70 + m.device.length

PayloadSize(m) ==
    CASE m.form = "input" -> kSize
      [] m.form = "display" -> CommandSize
      [] m.form = "audio" -> FrameSize(m)
      [] m.form = "chunk" -> ChunkSize(m)
      [] m.form = "clipboard" -> UpdateSize(m)
      [] m.form = "offer" -> OfferSize(m)
      [] m.form = "hello" -> HelloSize(m)
      [] OTHER -> 1

\* The decoders: the encoder's conditions and the exact size.
decode_event(m, size) == EventAllowed(m) /\ size = kSize
decode_frame(m, size) == AudioAllowed(m) /\ size = FrameSize(m)
decode_chunk(m, size) == ChunkAllowed(m) /\ size = ChunkSize(m)
decode_update(m, size) == UpdateAllowed(m) /\ size = UpdateSize(m)
decode_offer(m, size) == OfferAllowed(m) /\ size = OfferSize(m)
decode_command(m, size) == DisplayAllowed(m) /\ size = CommandSize /\ m.sequence # 0
decode_session_hello(m, size) == HelloAllowed(m) /\ size = HelloSize(m)

Readable(m, size) ==
    CASE m.form = "input" -> decode_event(m, size)
      [] m.form = "audio" -> decode_frame(m, size)
      [] m.form = "chunk" -> decode_chunk(m, size)
      [] m.form = "clipboard" -> decode_update(m, size)
      [] m.form = "offer" -> decode_offer(m, size)
      [] m.form = "display" -> decode_command(m, size)
      [] m.form = "hello" -> decode_session_hello(m, size)
      [] OTHER -> FALSE

------------------------------------------------------------------------------
(* Envelopes. *)

Envelope(channel, kind, requestId, m) ==
    [channel |-> channel, kind |-> kind, requestId |-> requestId,
     length |-> PayloadSize(Sanitized(m)), body |-> Sanitized(m), good |-> TRUE]

KnownChannel(e) == e.channel \in DOMAIN ChannelLimit

\* encode: everything it throws for.
Sendable(e) ==
    /\ KnownChannel(e)
    /\ e.requestId # 0
    /\ e.length \in 1 .. ChannelLimit[e.channel]

\* Mutant: a payload as long as the limit is too long.
HeaderBelowLimit(f) ==
    /\ f.good
    /\ KnownChannel(f)
    /\ f.length \in 1 .. ChannelLimit[f.channel] - 1

\* Stream::read before it allocates the frame: "good" is magic and version.
HeaderAccepted(f) ==
    /\ f.good
    /\ KnownChannel(f)
    /\ f.length \in 1 .. ChannelLimit[f.channel]

\* decode, of a frame whose header was accepted and whose body is complete.
Decodable(f) == HeaderAccepted(f) /\ f.requestId # 0

IsHello(f) == f.channel = 1 /\ f.kind = kSessionHello
IsHeartbeat(f) == f.channel = 1 /\ f.kind = kHeartbeat
IsAck(f) == f.channel = 1 /\ f.kind = kHeartbeatAck
IsClose(f) == f.channel = 1 /\ f.kind = kSessionClose
IsInput(f) == f.channel = 1 /\ f.kind = kInputEvent

\* Router::dispatch finds a handler on every channel but 2, and
\* Dispatcher::dispatch a decoder for these kinds.
FormatOf(f) ==
    CASE f.channel = 1 /\ f.kind = kDisplayCommand -> "display"
      [] IsInput(f) -> "input"
      [] f.channel = 3 /\ f.kind = kFileOffer -> "offer"
      [] f.channel = 3 /\ f.kind = kFileChunk -> "chunk"
      [] f.channel = 4 /\ f.kind = kClipboardUpdate -> "clipboard"
      [] f.channel = 5 /\ f.kind = kAudioFrame -> "audio"
      [] OTHER -> "none"

\* The decoder of the kind accepts the payload.  What a peer sends under a kind
\* is written in that kind's format or is too short for any.
Dispatches(f) == f.body.form = FormatOf(f) /\ Readable(f.body, f.length)
===============================================================================
