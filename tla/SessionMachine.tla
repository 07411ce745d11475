---------------------------- MODULE SessionMachine ----------------------------
(***************************************************************************)
(* The session state machine that both platforms carry                     *)
(* (wabridge_session.cpp and SessionState.kt, which agree line by line), as *)
(* operators on a record [state, stopped].                                 *)
(***************************************************************************)

States == {"IDLE", "DISCOVERING", "CONNECTING", "TLS_HANDSHAKING", "IDENTITY_CHECKING",
           "PAIRING_REQUIRED", "ESTABLISHED", "CLOSING", "FAILED"}

Events == {"BEGIN_DISCOVERY", "CANDIDATE_FOUND", "TLS_STARTED", "TLS_SUCCEEDED",
           "IDENTITY_MATCHES", "PAIRING_NEEDED", "PAIRING_APPROVED", "FAILURE",
           "STOP", "CLOSED"}

Machines == [state : States, stopped : BOOLEAN]

NewMachine == [state |-> "IDLE", stopped |-> FALSE]

\* Where an event leads from a state; no entry means the event is rejected.
\* STOP and CLOSED are handled before this table is looked at.
Target(state) ==
    CASE state = "IDLE"              -> [BEGIN_DISCOVERY |-> "DISCOVERING"]
      [] state = "DISCOVERING"       -> [CANDIDATE_FOUND |-> "CONNECTING"]
      [] state = "CONNECTING"        -> [TLS_STARTED |-> "TLS_HANDSHAKING"]
      [] state = "TLS_HANDSHAKING"   -> [TLS_SUCCEEDED |-> "IDENTITY_CHECKING",
                                         FAILURE |-> "FAILED"]
      [] state = "IDENTITY_CHECKING" -> [IDENTITY_MATCHES |-> "ESTABLISHED",
                                         PAIRING_NEEDED |-> "PAIRING_REQUIRED",
                                         FAILURE |-> "FAILED"]
      [] state = "PAIRING_REQUIRED"  -> [PAIRING_APPROVED |-> "ESTABLISHED",
                                         FAILURE |-> "FAILED"]
      [] state = "ESTABLISHED"       -> [FAILURE |-> "FAILED"]
      [] OTHER                       -> [none |-> state]

\* stop(): once, and from every state but IDLE it leaves the machine CLOSING.
Stop(m) ==
    IF m.stopped THEN m
    ELSE [state |-> IF m.state = "IDLE" THEN "IDLE" ELSE "CLOSING", stopped |-> TRUE]

\* What apply(event) returns.
Accepts(m, event) ==
    \/ event = "STOP"
    \/ event = "CLOSED" /\ m.state = "CLOSING"
    \/ /\ m.stopped => event = "BEGIN_DISCOVERY"
       /\ event \in DOMAIN Target(m.state)

\* What apply(event) leaves behind.
Apply(m, event) ==
    CASE event = "STOP" -> Stop(m)
      [] event = "CLOSED" /\ m.state = "CLOSING" -> [state |-> "IDLE", stopped |-> TRUE]
      [] event \notin {"STOP", "CLOSED"} /\ Accepts(m, event) ->
            [state |-> Target(m.state)[event],
             stopped |-> IF m.state = "IDLE" THEN FALSE ELSE m.stopped]
      [] OTHER -> m
==============================================================================
