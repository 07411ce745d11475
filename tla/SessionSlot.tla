----------------------------- MODULE SessionSlot -----------------------------
(***************************************************************************)
(* What the Windows side promises its users, without threads, sockets or   *)
(* locks: a host that is switched on and off and owns one session slot.    *)
(* A connection gets the slot at most once, never while another holds it,  *)
(* and never while the host is off.  The host can only be switched off     *)
(* with the slot empty.  SecureCoordinator implements this module.         *)
(***************************************************************************)
CONSTANTS Conn,   \* connections remotes may open
          None    \* the empty slot; not a connection

VARIABLES host,   \* "off" or "on"
          slot,   \* the connection that has the session, or None
          past    \* connections the host is done with

slotVars == <<host, slot, past>>

SlotInit ==
    /\ host = "off"
    /\ slot = None
    /\ past = {}

SwitchOn ==
    /\ host = "off"
    /\ host' = "on"
    /\ UNCHANGED <<slot, past>>

SwitchOff ==
    /\ host = "on"
    /\ slot = None
    /\ host' = "off"
    /\ UNCHANGED <<slot, past>>

Open(c) ==
    /\ host = "on"
    /\ slot = None
    /\ c \notin past
    /\ slot' = c
    /\ UNCHANGED <<host, past>>

Close ==
    /\ slot # None
    /\ past' = past \cup {slot}
    /\ slot' = None
    /\ UNCHANGED host

\* A connection that fails the TLS handshake or the hello exchange.
TurnAway(c) ==
    /\ host = "on"
    /\ c # slot
    /\ c \notin past
    /\ past' = past \cup {c}
    /\ UNCHANGED <<host, slot>>

SlotNext ==
    \/ SwitchOn
    \/ SwitchOff
    \/ Close
    \/ \E c \in Conn : Open(c) \/ TurnAway(c)

SlotSpec == SlotInit /\ [][SlotNext]_slotVars
==============================================================================
