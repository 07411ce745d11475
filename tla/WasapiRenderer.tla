---------------------------- MODULE WasapiRenderer ----------------------------
(***************************************************************************)
(* Windows' audio renderer: a shared-mode stream of 16 bit PCM with a      *)
(* render buffer that the device drains.  COM and the endpoint are the     *)
(* choice of whether start succeeds.  CoordinatorWindow calls it.          *)
(***************************************************************************)
EXTENDS Naturals

CONSTANTS
    Supported,     \* [rate, channels] that start accepts: 8000..192000 Hz, 1 or 2 channels
    Format,        \* [rate, channels] an audio frame may name, supported or not
    BufferFrames,  \* bound: frames in the device's buffer; the frames of a second in the code
    Silent         \* the zeroed sample_rate_ and channels_; not a format

ASSUME RendererAssumption ==
    /\ Supported \subseteq Format
    /\ Silent \notin Format
    /\ BufferFrames \in Nat \ {0}

VARIABLES
    running,  \* running_
    format,   \* sample_rate_ and channels_
    padding   \* frames in the buffer that were not played yet

rendererVars == <<running, format, padding>>

RendererTypeOK ==
    /\ running \in BOOLEAN
    /\ format \in Format \cup {Silent}
    /\ padding \in 0 .. BufferFrames
    /\ running <=> format # Silent
    /\ ~running => padding = 0

RendererInit ==
    /\ running = FALSE
    /\ format = Silent
    /\ padding = 0

\* stop: also what start does first, for a format it supports.
RendererStop ==
    /\ running' = FALSE
    /\ format' = Silent
    /\ padding' = 0

\* What render writes of a frame of size samples when the buffer holds held: it
\* drops what does not fit, and fails on a full buffer or half a sample.
\* Mutant: the whole frame, however full the buffer is.
WrittenAll(size, held) == size

Written(size, held) ==
    IF size < BufferFrames - held THEN size ELSE BufferFrames - held

\* on_audio_frame under audio_mutex_: start when not running, render, and stop
\* on a failure.  ok is what the handler returns; GetBuffer and GetCurrentPadding
\* may fail at any time.
StartAndRender(f, size, ok) ==
    /\ ~running
    /\ \/ /\ f \in Supported
          /\ ok
          /\ Written(size, 0) > 0
          /\ running' = TRUE
          /\ format' = f
          /\ padding' = Written(size, 0)
       \/ /\ ~ok
          /\ RendererStop

RenderMore(f, size, ok) ==
    /\ running
    /\ \/ /\ ok
          /\ f = format
          /\ Written(size, padding) > 0
          /\ padding' = padding + Written(size, padding)
          /\ UNCHANGED <<running, format>>
       \/ /\ ~ok
          /\ RendererStop

\* The device plays.
Play ==
    /\ padding > 0
    /\ padding' = padding - 1
    /\ UNCHANGED <<running, format>>

==============================================================================
