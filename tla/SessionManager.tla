---------------------------- MODULE SessionManager ----------------------------
(***************************************************************************)
(* SessionManager.kt: the state machine behind a lock, shared by the       *)
(* threads of the Android service (main, NSD callbacks, I/O).  A thread    *)
(* decides on its call before it has the lock, so the machine may have     *)
(* moved on when it enters.  apply() looks at `stopped` inside the lock,   *)
(* but stop() wins its compare-and-set outside of it and waits for the     *)
(* lock after that, so it can win between the look and the change.         *)
(***************************************************************************)
EXTENDS SessionMachine

CONSTANT Threads   \* threads that call the manager

VARIABLES machine,    \* the SessionStateMachine
          stopped,    \* SessionManager.stopped
          call,       \* the call each thread waits for the lock with, or is in
          admitted,   \* the thread in the lock that apply() has let past its look
          reported    \* the state the last onStateChanged call carried

vars == <<machine, stopped, call, admitted, reported>>

\* "stop" is a stop() that won the compare-and-set.
Calls == Events \cup {"none", "stop"}

Init ==
    /\ machine = NewMachine
    /\ stopped = FALSE
    /\ call = [t \in Threads |-> "none"]
    /\ admitted = {}
    /\ reported = "IDLE"

\* A thread calls apply(event) and waits for the lock.
CallApply(t, event) ==
    /\ call[t] = "none"
    /\ call' = [call EXCEPT ![t] = event]
    /\ UNCHANGED <<machine, stopped, admitted, reported>>

\* Mutant: a plain store for the compare-and-set, so that every caller wins.
CallStopPlain(t) ==
    /\ call[t] = "none"
    /\ stopped' = TRUE
    /\ call' = [call EXCEPT ![t] = "stop"]
    /\ UNCHANGED <<machine, admitted, reported>>

\* A thread calls stop(): the first one wins, the others return at once.
CallStop(t) ==
    /\ call[t] = "none"
    /\ ~stopped
    /\ stopped' = TRUE
    /\ call' = [call EXCEPT ![t] = "stop"]
    /\ UNCHANGED <<machine, admitted, reported>>

\* Mutant: the flag is not looked at again inside the lock.
AdmitsAnything(event) == event \in Events

\* A stopped manager lets nothing through but a new discovery.
Admits(event) == stopped => event = "BEGIN_DISCOVERY"

\* apply(event) takes the lock and looks at the flag; a refused event returns.
EnterApply(t) ==
    /\ admitted = {}
    /\ call[t] \in Events
    /\ IF Admits(call[t])
       THEN admitted' = {t} /\ UNCHANGED call
       ELSE call' = [call EXCEPT ![t] = "none"] /\ UNCHANGED admitted
    /\ UNCHANGED <<machine, stopped, reported>>

\* The rest of apply(event) in the lock: an event the machine rejects changes
\* nothing and is not reported.
ApplyAdmitted(t) ==
    /\ t \in admitted
    /\ machine' = Apply(machine, call[t])
    /\ reported' = IF Accepts(machine, call[t]) THEN machine'.state ELSE reported
    /\ admitted' = {}
    /\ call' = [call EXCEPT ![t] = "none"]
    /\ UNCHANGED stopped

\* Mutant: stop() does not report the state it leaves.
EnterStopSilently(t) ==
    /\ admitted = {}
    /\ call[t] = "stop"
    /\ machine' = Stop(machine)
    /\ call' = [call EXCEPT ![t] = "none"]
    /\ UNCHANGED <<stopped, admitted, reported>>

\* stop() in the lock.
EnterStop(t) ==
    /\ admitted = {}
    /\ call[t] = "stop"
    /\ machine' = Stop(machine)
    /\ reported' = machine'.state
    /\ call' = [call EXCEPT ![t] = "none"]
    /\ UNCHANGED <<stopped, admitted>>

Next ==
    \E t \in Threads :
        \/ \E event \in Events : CallApply(t, event)
        \/ CallStop(t)
        \/ EnterApply(t)
        \/ ApplyAdmitted(t)
        \/ EnterStop(t)

Spec == Init /\ [][Next]_vars

------------------------------------------------------------------------------
(* Properties. *)

\* The variables stay in their sets, and only one caller of stop() wins.
TypeOK ==
    /\ machine \in Machines
    /\ stopped \in BOOLEAN
    /\ call \in [Threads -> Calls]
    /\ admitted \subseteq Threads
    /\ reported \in States
    /\ \A t, u \in Threads : call[t] = "stop" /\ call[u] = "stop" => t = u
    /\ \A t \in Threads : call[t] = "stop" => stopped
    /\ \A t \in admitted : call[t] \in Events
    /\ \A t, u \in admitted : t = u

\* Whoever listens to onStateChanged sees the machine's state, whatever the
\* threads do: a change and its report are one critical section.
ObserverInSync == reported = machine.state

\* Once the stop() that won has come out of the lock the session is over and
\* stays so, whatever event was let past the flag before the stop won or waits
\* for the lock with a decision made before: of all states only a discovery
\* begun from IDLE is left.
StopHolds ==
    stopped /\ (\A t \in Threads : call[t] # "stop") =>
        machine.state \in {"IDLE", "DISCOVERING", "CLOSING"}
==============================================================================
