---------------------------- MODULE DiscoveryCache ----------------------------
(***************************************************************************)
(* The cache of mDNS records: service instances with the host and port of  *)
(* their last service record, the addresses of that host, and one expiry   *)
(* for each of the three.  Records come in any order, late, twice or never *)
(* and say how long they hold; nothing leaves the cache before somebody    *)
(* calls expire.  The variables after entries and now are history: what    *)
(* the network has said.                                                   *)
(***************************************************************************)
EXTENDS Integers, FiniteSets

CONSTANTS
    Instance,     \* instance names that apply_ptr accepts
    Host,         \* host names
    Port,         \* ports other than zero
    Address,      \* addresses
    NoHost,       \* the empty host name
    NoPort,       \* port zero
    Ttl,          \* the lifetimes that records may carry
    MaxTtl,       \* kMaxTtl, one hour in the code
    MaxEntries,   \* kMaxEntries, 64 in the code
    MaxAddresses, \* kMaxAddressesPerEntry, 8 in the code
    MaxNow        \* bound: how long the clock runs

ASSUME CacheAssumption ==
    /\ Ttl \subseteq Int
    /\ MaxTtl \in Nat
    /\ MaxEntries \in Nat
    /\ MaxAddresses \in Nat
    /\ MaxNow \in Nat
    /\ NoHost \notin Host
    /\ NoPort \notin Port

VARIABLES
    entries,   \* entries_: a record for each instance in it
    now,       \* the time the caller passes
    ptrUntil,  \* until when the last pointer record for an instance holds
    srvLast,   \* [host, port, until] of the last service record for an instance
    named,     \* <<instance, host>>: service records ever heard
    announced, \* <<host, address>>: address records ever heard
    addrUntil  \* the longest any address record for a host holds

heard == <<ptrUntil, srvLast, named, announced, addrUntil>>
vars == <<entries, now, heard>>

Later(a, b) == IF a > b THEN a ELSE b

\* Mutant: a record holds as long as it says.
unbounded_ttl(ttl) == IF ttl <= 0 THEN 0 ELSE ttl

bounded_ttl(ttl) == IF ttl <= 0 THEN 0 ELSE IF ttl < MaxTtl THEN ttl ELSE MaxTtl

NewEntry ==
    [host |-> NoHost, port |-> NoPort, addresses |-> {}, ptr |-> 0, srv |-> 0, addr |-> 0]

Init ==
    /\ entries = [i \in {} |-> NewEntry]
    /\ now = 0
    /\ ptrUntil = [i \in Instance |-> 0]
    /\ srvLast = [i \in Instance |-> [host |-> NoHost, port |-> NoPort, until |-> 0]]
    /\ named = {}
    /\ announced = {}
    /\ addrUntil = [h \in Host |-> 0]

Known == DOMAIN entries

\* A new instance is refused when the cache is full.
ApplyPtr(i, ttl) ==
    LET until == now + bounded_ttl(ttl)
        known == IF i \in Known THEN entries[i] ELSE NewEntry IN
    /\ entries' = IF i \notin Known /\ Cardinality(Known) >= MaxEntries
                  THEN entries
                  ELSE [j \in Known \cup {i} |->
                           IF j = i THEN [known EXCEPT !.ptr = until] ELSE entries[j]]
    /\ ptrUntil' = [ptrUntil EXCEPT ![i] = until]
    /\ UNCHANGED <<now, srvLast, named, announced, addrUntil>>

\* A service record names host and port; addresses and their expiry stay.
ApplySrv(i, host, port, ttl) ==
    LET until == now + bounded_ttl(ttl) IN
    /\ entries' = [j \in Known |->
                      IF j = i
                      THEN [entries[j] EXCEPT !.host = host, !.port = port, !.srv = until]
                      ELSE entries[j]]
    /\ srvLast' = [srvLast EXCEPT ![i] = [host |-> host, port |-> port, until |-> until]]
    /\ named' = named \cup {<<i, host>>}
    /\ UNCHANGED <<now, ptrUntil, announced, addrUntil>>

\* Mutant: the limit on addresses is not looked at.
AddUnlimited(entry, address, until) ==
    [entry EXCEPT !.addresses = @ \cup {address}, !.addr = Later(@, until)]

\* A new address is left out when there are enough; one expiry is kept for all.
AddAddress(entry, address, until) ==
    IF address \notin entry.addresses /\ Cardinality(entry.addresses) >= MaxAddresses
    THEN entry
    ELSE [entry EXCEPT !.addresses = @ \cup {address}, !.addr = Later(@, until)]

\* Mutant: an address is added to every instance.
ApplyAddressToAll(host, address, ttl) ==
    LET until == now + bounded_ttl(ttl) IN
    /\ entries' = [j \in Known |-> AddAddress(entries[j], address, until)]
    /\ announced' = announced \cup {<<host, address>>}
    /\ addrUntil' = [addrUntil EXCEPT ![host] = Later(@, until)]
    /\ UNCHANGED <<now, ptrUntil, srvLast, named>>

ApplyAddress(host, address, ttl) ==
    LET until == now + bounded_ttl(ttl) IN
    /\ entries' = [j \in Known |->
                      IF entries[j].host = host THEN AddAddress(entries[j], address, until)
                      ELSE entries[j]]
    /\ announced' = announced \cup {<<host, address>>}
    /\ addrUntil' = [addrUntil EXCEPT ![host] = Later(@, until)]
    /\ UNCHANGED <<now, ptrUntil, srvLast, named>>

\* Mutant: what expires next is dropped with what has expired.
ForgottenEarly(entry, time) ==
    [entry EXCEPT !.addresses = IF entry.addr <= time + 1 THEN {} ELSE @,
                  !.host = IF entry.srv <= time THEN NoHost ELSE @,
                  !.port = IF entry.srv <= time THEN NoPort ELSE @]

\* expire: the expired parts of an entry are dropped, and entries without a
\* pointer record.
Forgotten(entry, time) ==
    [entry EXCEPT !.addresses = IF entry.addr <= time THEN {} ELSE @,
                  !.host = IF entry.srv <= time THEN NoHost ELSE @,
                  !.port = IF entry.srv <= time THEN NoPort ELSE @]

Expire ==
    /\ entries' = [i \in {j \in Known : entries[j].ptr > now} |-> Forgotten(entries[i], now)]
    /\ UNCHANGED <<now, heard>>

Clear ==
    /\ entries' = [i \in {} |-> NewEntry]
    /\ UNCHANGED <<now, heard>>

Tick ==
    /\ now < MaxNow
    /\ now' = now + 1
    /\ UNCHANGED <<entries, heard>>

Next ==
    \/ \E i \in Instance, ttl \in Ttl : ApplyPtr(i, ttl)
    \/ \E i \in Instance, h \in Host, p \in Port, ttl \in Ttl : ApplySrv(i, h, p, ttl)
    \/ \E h \in Host, a \in Address, ttl \in Ttl : ApplyAddress(h, a, ttl)
    \/ Expire
    \/ Clear
    \/ Tick

Spec == Init /\ [][Next]_vars

------------------------------------------------------------------------------
(* Properties. *)

\* ready: the instances that are complete and unexpired, and what it returns.
IsReady(entry, time) ==
    /\ entry.ptr > time
    /\ entry.srv > time
    /\ entry.addr > time
    /\ entry.host # NoHost
    /\ entry.port # NoPort
    /\ entry.addresses # {}

Ready ==
    {[instance |-> i, host |-> entries[i].host, port |-> entries[i].port,
      addresses |-> entries[i].addresses] : i \in {j \in Known : IsReady(entries[j], now)}}

Entry == [host : Host \cup {NoHost}, port : Port \cup {NoPort}, addresses : SUBSET Address,
          ptr : Nat, srv : Nat, addr : Nat]

\* Every variable keeps its type, the cache its limits, and nothing in it lasts
\* longer than the longest lifetime the code allows.
TypeOK ==
    /\ Known \subseteq Instance
    /\ entries \in [Known -> Entry]
    /\ now \in 0 .. MaxNow
    /\ \A i \in Known :
           /\ Cardinality(entries[i].addresses) <= MaxAddresses
           /\ entries[i].ptr <= now + MaxTtl
           /\ entries[i].srv <= now + MaxTtl
           /\ entries[i].addr <= now + MaxTtl
    /\ Cardinality(Known) <= MaxEntries

\* Calling expire, at whatever time, takes nothing from what ready returns then
\* and adds nothing to it: it only frees what ready leaves out already.
ExpireIsInvisible == [][Expire => Ready' = Ready]_vars

\* What ready returns, the network has said and not taken back: the last pointer
\* record for the instance holds, so does its last service record, which names
\* this host and port, every address was announced for a host that a service
\* record of the instance has named, and one of them still holds.
ReadyWasAnnounced ==
    \A e \in Ready :
        /\ ptrUntil[e.instance] > now
        /\ srvLast[e.instance].until > now
        /\ srvLast[e.instance].host = e.host
        /\ srvLast[e.instance].port = e.port
        /\ \A a \in e.addresses :
               \E h \in Host : <<e.instance, h>> \in named /\ <<h, a>> \in announced
        /\ \E h \in Host : <<e.instance, h>> \in named /\ addrUntil[h] > now
===============================================================================
