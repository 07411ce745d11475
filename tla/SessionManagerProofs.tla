------------------------- MODULE SessionManagerProofs -------------------------
(* Proofs about SessionManager, for every set of threads. *)
EXTENDS SessionManager, SessionMachineProofs, TLAPS

\* No stop() is waiting for the lock any more.
StopIsOut == stopped /\ \A t \in Threads : call[t] # "stop"

\* After the stop only a discovery is let past the flag: whoever was in the lock
\* when the stop won has left it before the stop entered.
AdmittedIsOld == StopIsOut => \A t \in admitted : call[t] = "BEGIN_DISCOVERY"

\* What every step preserves.
IInv == TypeOK /\ ObserverInSync /\ AtRest(machine) /\ AdmittedIsOld /\ StopHolds

\* A new manager satisfies the invariant.
LEMMA InitInv == Init => IInv
<1> SUFFICES ASSUME Init PROVE IInv
  OBVIOUS
<1>1. machine \in Machines /\ machine.state = "IDLE" /\ ~machine.stopped
  BY DEF Init, NewMachine, Machines, States
<1>2. "none" \in Calls /\ "none" # "stop"
  BY DEF Calls
<1>3. "IDLE" \in States
  BY DEF States
<1> QED
  BY <1>1, <1>2, <1>3
  DEF Init, IInv, TypeOK, ObserverInSync, AtRest, AdmittedIsOld, StopIsOut, StopHolds

\* Every step of every thread keeps it.
LEMMA StepInv == IInv /\ [Next]_vars => IInv'
<1> SUFFICES ASSUME IInv, [Next]_vars PROVE IInv'
  OBVIOUS
<1> USE DEF IInv, TypeOK, ObserverInSync, Calls, AdmittedIsOld, StopIsOut, StopHolds
<1>0. "stop" \notin Events /\ "none" \notin Events
  BY DEF Events
<1>1. ASSUME NEW t \in Threads, NEW event \in Events, CallApply(t, event) PROVE IInv'
  <2>1. call' = [call EXCEPT ![t] = event] /\ event # "stop" /\ t \notin admitted
    BY <1>0, <1>1 DEF CallApply
  <2>2. \A u \in Threads : call'[u] = "stop" <=> call[u] = "stop"
    BY <1>1, <2>1 DEF CallApply
  <2>3. \A u \in admitted : call'[u] = call[u]
    BY <2>1
  <2> QED
    BY <1>1, <2>1, <2>2, <2>3 DEF CallApply
<1>2. ASSUME NEW t \in Threads, CallStop(t) PROVE IInv'
  <2>1. call' = [call EXCEPT ![t] = "stop"] /\ t \notin admitted /\ ~StopIsOut'
    BY <1>0, <1>2 DEF CallStop
  <2>2. \A u \in admitted : call'[u] = call[u]
    BY <2>1
  <2> QED
    BY <1>2, <2>1, <2>2 DEF CallStop
<1>3. ASSUME NEW t \in Threads, EnterApply(t) PROVE IInv'
  <2>1. CASE Admits(call[t])
    BY <1>3, <2>1 DEF EnterApply, Admits
  <2>2. CASE ~Admits(call[t])
    <3>1. \A u \in Threads : call'[u] = "stop" <=> call[u] = "stop"
      BY <1>0, <1>3, <2>2 DEF EnterApply
    <3> QED
      BY <1>3, <2>2, <3>1 DEF EnterApply
  <2> QED
    BY <2>1, <2>2
<1>4. ASSUME NEW t \in Threads, ApplyAdmitted(t) PROVE IInv'
  <2>1. machine' = Apply(machine, call[t]) /\ machine' \in Machines /\ AtRest(machine)'
    BY <1>4, ApplyFacts, RestFacts DEF ApplyAdmitted, AtRest
  <2>2. reported' = machine'.state
    BY <1>4, <2>1, ApplyFacts DEF ApplyAdmitted
  <2>3. machine'.state \in States
    BY <2>1 DEF Machines
  <2>4. \A u \in Threads : call'[u] = "stop" <=> call[u] = "stop"
    BY <1>0, <1>4 DEF ApplyAdmitted
  <2>5. StopIsOut => \/ machine'.state = machine.state
                     \/ machine'.state = "DISCOVERING"
    BY <1>4, <2>1, ApplyFacts DEF ApplyAdmitted
  <2> QED
    BY <1>4, <2>1, <2>2, <2>3, <2>4, <2>5 DEF ApplyAdmitted
<1>5. ASSUME NEW t \in Threads, EnterStop(t) PROVE IInv'
  <2>1. machine' = Stop(machine) /\ machine' \in Machines
    BY <1>5, StopFacts DEF EnterStop
  <2>2. AtRest(machine)' /\ machine'.state \in {"IDLE", "CLOSING"}
    BY <2>1, RestFacts DEF AtRest
  <2>3. machine'.state \in States
    BY <2>1 DEF Machines
  <2> QED
    BY <1>0, <1>5, <2>1, <2>2, <2>3 DEF EnterStop
<1>6. CASE UNCHANGED vars
  BY <1>6 DEF vars, AtRest
<1> QED
  BY <1>1, <1>2, <1>3, <1>4, <1>5, <1>6 DEF Next

\* The invariant holds of the specification.
THEOREM Invariance == Spec => []IInv
BY InitInv, StepInv, PTL DEF Spec

\* Only one caller of stop() ever wins, on any number of threads.
THEOREM OneStopper == Spec => []TypeOK
<1>1. IInv => TypeOK
  BY DEF IInv
<1> QED
  BY <1>1, Invariance, PTL

\* The listener of onStateChanged is never behind the machine.
THEOREM ObserverStaysInSync == Spec => []ObserverInSync
<1>1. IInv => ObserverInSync
  BY DEF IInv
<1> QED
  BY <1>1, Invariance, PTL

\* Once the winning stop() has left the lock the session never moves on, though
\* an event may be let past the flag before the stop wins and applied after.
THEOREM StopIsKept == Spec => []StopHolds
<1>1. IInv => StopHolds
  BY DEF IInv
<1> QED
  BY <1>1, Invariance, PTL
===============================================================================
