--------------------------- MODULE MCFeatureSession ---------------------------
(* Values for FeatureSession: every format once, at a boundary of its sizes *)
(* or values, and one frame for every way a frame can be wrong.             *)
EXTENDS FeatureSession

Plain(n) == [length |-> n, chars |-> "plain"]

Hello(role, n, chars) ==
    [form |-> "hello", role |-> role, maxFrame |-> 4096 * KiB,
     device |-> [length |-> n, chars |-> chars]]

MCLocalHellos == {Hello("windows", 15, "plain"), Hello("windows", 15, "other")}

Event(type, flags, x, button, code) ==
    [form |-> "input", type |-> type, flags |-> flags, x |-> x, y |-> 9, wheel |-> 0,
     button |-> button, code |-> code]

\* A press, a release off the screen, and an event the codec refuses.
Press == Event("button", 1, 9, 8, 0)
Release == Event("button", 2, 32767, 1, 0)
NoKey == Event("key", 1, 9, 0, 0)
MCEvents == {Press, Release, NoKey}
MCClickable == {Press}

Audio(codec, channels, data) ==
    [form |-> "audio", codec |-> codec, channels |-> channels, rate |-> 48000,
     timestamp |-> 1, data |-> data]
Clip(text) == [form |-> "clipboard", device |-> Plain(64), text |-> text, timestamp |-> 1]
OfferOf(name) == [form |-> "offer", name |-> name, mime |-> Plain(128), bytes |-> 1]
Chunk(data) == [form |-> "chunk", data |-> data]
Display(sequence) == [form |-> "display", mode |-> "phone", sequence |-> sequence]

Ask(channel, kind, m) == [channel |-> channel, kind |-> kind, body |-> m]

\* The largest data an envelope has room for, and what codecs allow beyond it.
MCOffers == {
    Ask(5, kAudioFrame, Audio("pcm16", 8, 16)),
    Ask(5, kAudioFrame, Audio("pcm16", 1, 256 * KiB)),
    Ask(4, kClipboardUpdate, Clip(1024 * KiB - 93)),
    Ask(3, kFileChunk, Chunk(1024 * KiB - 28)),
    Ask(3, kFileOffer, OfferOf([length |-> 255, chars |-> "separators"])),
    Ask(1, kDisplayCommand, Display(1))}

Garbage(channel, kind) == Envelope(channel, kind, 9, [form |-> "garbage"])

MCRawFrames == {
    Envelope(1, kSessionHello, 1, Hello("windows", 64, "plain")),
    [Envelope(1, kHeartbeat, 7, [form |-> "byte"]) EXCEPT !.good = FALSE],
    [Envelope(1, kHeartbeat, 7, [form |-> "byte"]) EXCEPT !.requestId = 0],
    [Envelope(1, kHeartbeat, 7, [form |-> "byte"]) EXCEPT !.length = 64 * KiB + 1],
    Envelope(1, kHeartbeat, 7, [form |-> "byte"]),
    Envelope(1, kSessionClose, 7, [form |-> "byte"]),
    Garbage(6, 1), Garbage(2, 1), Garbage(1, kInputEvent),
    Envelope(1, kDisplayCommand, 8, Display(0)),
    [Envelope(3, kFileOffer, 8, OfferOf(Plain(2))) EXCEPT !.body.name.chars = "dots"],
    [Envelope(3, kFileChunk, 8, Chunk(5)) EXCEPT !.length = @ + 1],
    Envelope(5, kAudioFrame, 8, Audio("opus", 1, 3))}
===============================================================================
