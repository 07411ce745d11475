------------------------- MODULE SessionMachineProofs -------------------------
(* Facts about the operators of SessionMachine. *)
EXTENDS SessionMachine, TLAPS

\* Where an accepted event leads is a state, and a discovery only begins from
\* IDLE (the table in SessionStateMachine.apply).
LEMMA TargetFacts ==
    ASSUME NEW state \in States
    PROVE  /\ \A event \in Events \cap DOMAIN Target(state) : Target(state)[event] \in States
           /\ "BEGIN_DISCOVERY" \in DOMAIN Target(state) =>
                 state = "IDLE" /\ Target(state)["BEGIN_DISCOVERY"] = "DISCOVERING"
<1>1. CASE state = "IDLE"
  BY <1>1 DEF Target, States, Events
<1>2. CASE state = "DISCOVERING"
  BY <1>2 DEF Target, States, Events
<1>3. CASE state = "CONNECTING"
  BY <1>3 DEF Target, States, Events
<1>4. CASE state = "TLS_HANDSHAKING"
  BY <1>4 DEF Target, States, Events
<1>5. CASE state = "IDENTITY_CHECKING"
  BY <1>5 DEF Target, States, Events
<1>6. CASE state = "PAIRING_REQUIRED"
  BY <1>6 DEF Target, States, Events
<1>7. CASE state = "ESTABLISHED"
  BY <1>7 DEF Target, States, Events
<1>8. CASE state \in {"CLOSING", "FAILED"}
  BY <1>8 DEF Target, States, Events
<1> QED
  BY <1>1, <1>2, <1>3, <1>4, <1>5, <1>6, <1>7, <1>8 DEF States

\* stop() leaves a machine, stopped, that is CLOSING unless it was IDLE or had
\* been stopped before.
LEMMA StopFacts ==
    ASSUME NEW m \in Machines
    PROVE  /\ Stop(m) \in Machines
           /\ Stop(m).state \in {m.state, "CLOSING"}
BY DEF Stop, Machines, States

\* apply() leaves a machine, and a rejected event leaves the one it found.
LEMMA ApplyFacts ==
    ASSUME NEW m \in Machines, NEW event \in Events
    PROVE  /\ Apply(m, event) \in Machines
           /\ ~Accepts(m, event) => Apply(m, event) = m
           /\ event = "BEGIN_DISCOVERY" /\ Apply(m, event).state # m.state =>
                 m.state = "IDLE" /\ Apply(m, event).state = "DISCOVERING"
<1>1. CASE event = "STOP"
  BY <1>1, StopFacts DEF Apply, Accepts
<1>2. CASE event = "CLOSED"
  BY <1>2 DEF Apply, Accepts, Machines, States
<1>3. CASE event \notin {"STOP", "CLOSED"}
  <2>1. m.state \in States /\ m.stopped \in BOOLEAN
    BY DEF Machines
  <2>2. CASE Accepts(m, event)
    <3>1. event \in Events \cap DOMAIN Target(m.state)
      BY <1>3, <2>2 DEF Accepts
    <3>2. Apply(m, event) = [state |-> Target(m.state)[event],
                             stopped |-> IF m.state = "IDLE" THEN FALSE ELSE m.stopped]
      BY <1>3, <2>2 DEF Apply
    <3>3. Target(m.state)[event] \in States
      BY <2>1, <3>1, TargetFacts
    <3>4. Apply(m, event) \in Machines /\ Apply(m, event).state = Target(m.state)[event]
      <4> DEFINE a == Target(m.state)[event]
                 b == IF m.state = "IDLE" THEN FALSE ELSE m.stopped
      <4>1. a \in States /\ b \in BOOLEAN
        BY <2>1, <3>3
      <4>2. Apply(m, event) = [state |-> a, stopped |-> b]
        BY <3>2
      <4> HIDE DEF a, b
      <4>3. Apply(m, event) \in Machines /\ Apply(m, event).state = a
        BY <4>1, <4>2 DEF Machines
      <4> QED
        BY <4>3 DEF a
    <3>5. event = "BEGIN_DISCOVERY" =>
             m.state = "IDLE" /\ Target(m.state)[event] = "DISCOVERING"
      BY <2>1, <3>1, TargetFacts
    <3> QED
      BY <2>2, <3>4, <3>5
  <2>3. CASE ~Accepts(m, event)
    BY <1>3, <2>3 DEF Apply
  <2> QED
    BY <2>2, <2>3
<1> QED
  BY <1>1, <1>2, <1>3

\* The two entries of the table that lead to ESTABLISHED.
LEMMA EstablishingEvents ==
    ASSUME NEW state \in States, NEW event \in Events \cap DOMAIN Target(state),
           Target(state)[event] = "ESTABLISHED"
    PROVE  event \in {"IDENTITY_MATCHES", "PAIRING_APPROVED"}
<1>1. CASE state = "IDLE"
  BY <1>1 DEF Target, Events
<1>2. CASE state = "DISCOVERING"
  BY <1>2 DEF Target, Events
<1>3. CASE state = "CONNECTING"
  BY <1>3 DEF Target, Events
<1>4. CASE state = "TLS_HANDSHAKING"
  BY <1>4 DEF Target, Events
<1>5. CASE state = "IDENTITY_CHECKING"
  BY <1>5 DEF Target, Events
<1>6. CASE state = "PAIRING_REQUIRED"
  BY <1>6 DEF Target, Events
<1>7. CASE state = "ESTABLISHED"
  BY <1>7 DEF Target, Events
<1>8. CASE state \in {"CLOSING", "FAILED"}
  BY <1>8 DEF Target, Events
<1> QED
  BY <1>1, <1>2, <1>3, <1>4, <1>5, <1>6, <1>7, <1>8 DEF States

\* An event other than STOP and CLOSED does not stop a machine, and only an
\* identity match or an approval establishes a session.
LEMMA EventFacts ==
    ASSUME NEW m \in Machines, NEW event \in Events \ {"STOP", "CLOSED"}
    PROVE  /\ ~m.stopped => ~Apply(m, event).stopped
           /\ Apply(m, event).state = "ESTABLISHED" =>
                 m.state = "ESTABLISHED" \/ event \in {"IDENTITY_MATCHES", "PAIRING_APPROVED"}
<1>1. CASE ~Accepts(m, event)
  BY <1>1, ApplyFacts
<1>2. CASE Accepts(m, event)
  <2>1. event \in Events \cap DOMAIN Target(m.state)
    BY <1>2 DEF Accepts
  <2>2. Apply(m, event) = [state |-> Target(m.state)[event],
                           stopped |-> IF m.state = "IDLE" THEN FALSE ELSE m.stopped]
    BY <1>2 DEF Apply
  <2>3. m.state \in States
    BY DEF Machines
  <2>4. Target(m.state)[event] = "ESTABLISHED" => event \in {"IDENTITY_MATCHES", "PAIRING_APPROVED"}
    BY <2>1, <2>3, EstablishingEvents
  <2> QED
    BY <2>2, <2>4
<1> QED
  BY <1>1, <1>2

\* A machine that has been stopped is at rest, IDLE or CLOSING, and stays so
\* until a new discovery begins.
AtRest(m) == m.stopped => m.state \in {"IDLE", "CLOSING"}

\* apply() and stop() keep a stopped machine at rest.
LEMMA RestFacts ==
    ASSUME NEW m \in Machines, AtRest(m)
    PROVE  /\ AtRest(Stop(m)) /\ Stop(m).state \in {"IDLE", "CLOSING"}
           /\ \A event \in Events : AtRest(Apply(m, event))
<1>1. AtRest(Stop(m)) /\ Stop(m).state \in {"IDLE", "CLOSING"}
  BY DEF AtRest, Stop, Machines
<1>2. ASSUME NEW event \in Events PROVE AtRest(Apply(m, event))
  <2>1. CASE ~Accepts(m, event)
    BY <2>1, ApplyFacts
  <2>2. CASE Accepts(m, event) /\ event \in {"STOP", "CLOSED"}
    BY <1>1, <2>2 DEF Apply, Accepts, AtRest
  <2>3. CASE Accepts(m, event) /\ event \notin {"STOP", "CLOSED"}
    <3>1. Apply(m, event) = [state |-> Target(m.state)[event],
                             stopped |-> IF m.state = "IDLE" THEN FALSE ELSE m.stopped]
      BY <2>3 DEF Apply
    <3>2. CASE m.stopped
      <4>1. event = "BEGIN_DISCOVERY" /\ event \in Events \cap DOMAIN Target(m.state)
        BY <2>3, <3>2 DEF Accepts
      <4>2. m.state = "IDLE"
        BY <4>1, TargetFacts DEF Machines
      <4> QED
        BY <3>1, <4>2 DEF AtRest
    <3>3. CASE ~m.stopped
      BY <3>1, <3>3 DEF AtRest
    <3> QED
      BY <3>2, <3>3
  <2> QED
    BY <2>1, <2>2, <2>3
<1> QED
  BY <1>1, <1>2
==============================================================================
