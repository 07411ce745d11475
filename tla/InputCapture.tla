----------------------------- MODULE InputCapture -----------------------------
(***************************************************************************)
(* Windows' low-level input capture: LowLevelCapture objects, the global   *)
(* g_capture, and the hook threads that start() creates.  A capture is     *)
(* started and stopped by the window's thread; its fields and g_capture    *)
(* are read and written by the hook threads with no lock.  The module has  *)
(* no specification of its own: CoordinatorWindow calls it.                *)
(***************************************************************************)
EXTENDS Naturals, FiniteSets

CONSTANTS
    Capture,   \* LowLevelCapture objects, in the order of nothing: one is fresh until made
    Thread,    \* hook threads; bound: each start takes a fresh one
    Null       \* nullptr

ASSUME CaptureAssumption ==
    /\ Null \notin Capture
    /\ Null \notin Thread

VARIABLES
    life,      \* "fresh", "alive" or "destroyed"
    active,    \* active_
    thread,    \* thread_
    ready,     \* ready_event_: "none", "unset" or "set"
    gCapture,  \* g_capture
    hookPc,    \* where each hook thread is
    hookFor,   \* its parameter
    hooks,     \* the hooks it holds, of {"mouse", "keyboard"}
    quit,      \* WM_QUIT is in its queue
    gaveUp,    \* history: threads that a stop() did not see end
    unhooked   \* history: threads that could not set both hooks

objectVars == <<life, active, thread, ready>>
threadVars == <<gCapture, hookPc, hookFor, hooks, quit>>
captureVars == <<objectVars, threadVars, gaveUp, unhooked>>

BothHooks == {"mouse", "keyboard"}

CaptureTypeOK ==
    /\ life \in [Capture -> {"fresh", "alive", "destroyed"}]
    /\ active \in [Capture -> BOOLEAN]
    /\ thread \in [Capture -> Thread \cup {Null}]
    /\ ready \in [Capture -> {"none", "unset", "set"}]
    /\ gCapture \in Capture \cup {Null}
    /\ hookPc \in [Thread -> {"unused", "new", "hook", "signal", "check", "abort", "loop",
                              "event", "sending", "unhook", "clear", "exited"}]
    /\ hookFor \in [Thread -> Capture \cup {Null}]
    /\ hooks \in [Thread -> SUBSET BothHooks]
    /\ quit \in [Thread -> BOOLEAN]
    /\ gaveUp \subseteq Thread
    /\ unhooked \subseteq Thread

CaptureInit ==
    /\ life = [c \in Capture |-> "fresh"]
    /\ active = [c \in Capture |-> FALSE]
    /\ thread = [c \in Capture |-> Null]
    /\ ready = [c \in Capture |-> "none"]
    /\ gCapture = Null
    /\ hookPc = [t \in Thread |-> "unused"]
    /\ hookFor = [t \in Thread |-> Null]
    /\ hooks = [t \in Thread |-> {}]
    /\ quit = [t \in Thread |-> FALSE]
    /\ gaveUp = {}
    /\ unhooked = {}

Running(t) == hookPc[t] \notin {"unused", "exited"}

------------------------------------------------------------------------------
(* What the window's thread calls. *)

Construct(c) ==
    /\ life[c] = "fresh"
    /\ life' = [life EXCEPT ![c] = "alive"]
    /\ UNCHANGED <<active, thread, ready, threadVars, gaveUp, unhooked>>

\* start() up to its wait.  An event or thread that cannot be created leaves
\* everything as it was.  A start after hooks were refused overwrites the
\* handles of the thread that told of it.
StartThread(c, t) ==
    /\ ~active[c]
    /\ hookPc[t] = "unused"
    /\ active' = [active EXCEPT ![c] = TRUE]
    /\ thread' = [thread EXCEPT ![c] = t]
    /\ ready' = [ready EXCEPT ![c] = "unset"]
    /\ hookPc' = [hookPc EXCEPT ![t] = "new"]
    /\ hookFor' = [hookFor EXCEPT ![t] = c]
    /\ UNCHANGED <<life, gCapture, hooks, quit, gaveUp, unhooked>>

\* The two ways out of the wait of two seconds.
StartSucceeds(c) == ready[c] = "set" /\ active[c]
StartGivesUp(c) == ready[c] = "unset" \/ ~active[c]

\* stop() up to its wait.  A thread that has called nothing of USER yet has no
\* message queue, and the WM_QUIT posted to it is lost.
PostQuit(c) ==
    /\ active' = [active EXCEPT ![c] = FALSE]
    /\ quit' = [t \in Thread |-> quit[t] \/ (t = thread[c] /\ hookPc[t] \notin {"new", "exited"})]
    /\ UNCHANGED <<life, thread, ready, gCapture, hookPc, hookFor, hooks, gaveUp, unhooked>>

\* Mutant: the thread is told to end and not waited for.
ForgetThread(c) ==
    /\ thread' = [thread EXCEPT ![c] = Null]
    /\ ready' = [ready EXCEPT ![c] = "none"]
    /\ UNCHANGED <<life, active, threadVars, gaveUp, unhooked>>

\* The rest of stop(): the wait ends with the thread, or after two seconds.
CloseThread(c) ==
    /\ thread' = [thread EXCEPT ![c] = Null]
    /\ ready' = [ready EXCEPT ![c] = "none"]
    /\ gaveUp' = gaveUp \cup {t \in {thread[c]} \ {Null} : hookPc[t] # "exited"}
    /\ UNCHANGED <<life, active, threadVars, unhooked>>

Destroy(c) ==
    /\ life' = [life EXCEPT ![c] = "destroyed"]
    /\ UNCHANGED <<active, thread, ready, threadVars, gaveUp, unhooked>>

------------------------------------------------------------------------------
(* hook_thread. *)

Goto(t, pc) == hookPc' = [hookPc EXCEPT ![t] = pc]

Publish(t) ==
    /\ hookPc[t] = "new"
    /\ gCapture' = hookFor[t]
    /\ Goto(t, "hook")
    /\ UNCHANGED <<objectVars, hookFor, hooks, quit, gaveUp, unhooked>>

\* Either hook may be refused, on its own.
SetHooks(t) ==
    /\ hookPc[t] = "hook"
    /\ \E granted \in SUBSET BothHooks :
          /\ hooks' = [hooks EXCEPT ![t] = granted]
          /\ unhooked' = IF granted = BothHooks THEN unhooked ELSE unhooked \cup {t}
    /\ Goto(t, "signal")
    /\ UNCHANGED <<objectVars, gCapture, hookFor, quit, gaveUp>>

\* Mutant: the thread says it is ready before it asks for its hooks.
SignalFirst(t) ==
    /\ hookPc[t] \in {"hook", "signal"}
    /\ ready' = [ready EXCEPT ![hookFor[t]] = IF @ = "unset" THEN "set" ELSE @]
    /\ IF hookPc[t] = "hook" THEN UNCHANGED hookPc ELSE Goto(t, "check")
    /\ UNCHANGED <<life, active, thread, gCapture, hookFor, hooks, quit, gaveUp, unhooked>>

SignalReady(t) ==
    /\ hookPc[t] = "signal"
    /\ ready' = [ready EXCEPT ![hookFor[t]] = IF @ = "unset" THEN "set" ELSE @]
    /\ Goto(t, "check")
    /\ UNCHANGED <<life, active, thread, gCapture, hookFor, hooks, quit, gaveUp, unhooked>>

CheckHooks(t) ==
    /\ hookPc[t] = "check"
    /\ Goto(t, IF hooks[t] = BothHooks THEN "loop" ELSE "abort")
    /\ UNCHANGED <<objectVars, gCapture, hookFor, hooks, quit, gaveUp, unhooked>>

\* The other hook is returned, and the capture marked inactive: also one that
\* has been started again since.
Abort(t) ==
    /\ hookPc[t] = "abort"
    /\ hooks' = [hooks EXCEPT ![t] = {}]
    /\ active' = [active EXCEPT ![hookFor[t]] = FALSE]
    /\ Goto(t, "clear")
    /\ UNCHANGED <<life, thread, ready, gCapture, hookFor, quit, gaveUp, unhooked>>

\* The system calls mouse_proc or keyboard_proc while the thread waits in
\* GetMessage; both look at g_capture and then use it.
TakeEvent(t) ==
    /\ hookPc[t] = "loop"
    /\ gCapture # Null
    /\ Goto(t, "event")
    /\ UNCHANGED <<objectVars, gCapture, hookFor, hooks, quit, gaveUp, unhooked>>

\* emit(), up to the callback's call of the coordinator.  An event type the
\* procedures do not know, or one that was injected, is not emitted.
Emit(t) ==
    /\ hookPc[t] = "event"
    /\ gCapture # Null
    /\ \/ active[gCapture] /\ Goto(t, "sending")
       \/ Goto(t, "loop")
    /\ UNCHANGED <<objectVars, gCapture, hookFor, hooks, quit, gaveUp, unhooked>>

\* The callback returns: the event was sent, or there was no session.  The
\* write may take as long as the phone does not read.
EmitReturns(t) ==
    /\ hookPc[t] = "sending"
    /\ Goto(t, "loop")
    /\ UNCHANGED <<objectVars, gCapture, hookFor, hooks, quit, gaveUp, unhooked>>

\* GetMessage returns 0.  No other message is ever posted to the thread, so the
\* loop's look at active() is never reached.
LeaveLoop(t) ==
    /\ hookPc[t] = "loop"
    /\ quit[t]
    /\ Goto(t, "unhook")
    /\ UNCHANGED <<objectVars, gCapture, hookFor, hooks, quit, gaveUp, unhooked>>

Unhook(t) ==
    /\ hookPc[t] = "unhook"
    /\ hooks' = [hooks EXCEPT ![t] = {}]
    /\ Goto(t, "clear")
    /\ UNCHANGED <<objectVars, gCapture, hookFor, quit, gaveUp, unhooked>>

\* g_capture is cleared, whoever it points at, and the thread ends with its
\* queue.
Clear(t) ==
    /\ hookPc[t] = "clear"
    /\ gCapture' = Null
    /\ quit' = [quit EXCEPT ![t] = FALSE]
    /\ hookFor' = [hookFor EXCEPT ![t] = Null]
    /\ Goto(t, "exited")
    /\ UNCHANGED <<objectVars, hooks, gaveUp, unhooked>>

HookStep(t) ==
    \/ Publish(t)
    \/ SetHooks(t)
    \/ SignalReady(t)
    \/ CheckHooks(t)
    \/ Abort(t)
    \/ TakeEvent(t)
    \/ Emit(t)
    \/ EmitReturns(t)
    \/ LeaveLoop(t)
    \/ Unhook(t)
    \/ Clear(t)

==============================================================================
