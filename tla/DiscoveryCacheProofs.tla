------------------------- MODULE DiscoveryCacheProofs -------------------------
(***************************************************************************)
(* Proofs about DiscoveryCache, for any names, limits and lifetimes, and   *)
(* for record sets that need not be finite: the cache itself always is.    *)
(***************************************************************************)
EXTENDS DiscoveryCache, FiniteSetTheorems, TLAPS

\* The part of the type invariant that is about single entries and the history.
EntryOK(entry) ==
    /\ entry \in Entry
    /\ IsFiniteSet(entry.addresses)
    /\ Cardinality(entry.addresses) <= MaxAddresses
    /\ entry.ptr <= now + MaxTtl
    /\ entry.srv <= now + MaxTtl
    /\ entry.addr <= now + MaxTtl

Service == [host : Host \cup {NoHost}, port : Port \cup {NoPort}, until : Nat]

CacheInv ==
    /\ now \in 0 .. MaxNow
    /\ Known \subseteq Instance
    /\ entries = [i \in Known |-> entries[i]]
    /\ IsFiniteSet(Known)
    /\ Cardinality(Known) <= MaxEntries
    /\ \A i \in Known : EntryOK(entries[i])
    /\ ptrUntil \in [Instance -> Nat]
    /\ srvLast \in [Instance -> Service]
    /\ addrUntil \in [Host -> Nat]

\* A lifetime is never negative and never longer than the longest allowed.
LEMMA BoundedTtl ==
  ASSUME NEW ttl \in Ttl
  PROVE  bounded_ttl(ttl) \in 0 .. MaxTtl
  BY CacheAssumption DEF bounded_ttl

\* A record heard now lasts until a time that is not in the past.
LEMMA UntilLimits ==
  ASSUME now \in Nat, NEW ttl \in Ttl
  PROVE  now + bounded_ttl(ttl) \in Nat /\ now + bounded_ttl(ttl) <= now + MaxTtl
  BY BoundedTtl, CacheAssumption

\* AddAddress keeps an entry within its limits.
LEMMA AddKeepsEntry ==
  ASSUME now \in Nat, NEW entry, EntryOK(entry), NEW a \in Address,
         NEW until \in Nat, until <= now + MaxTtl
  PROVE  EntryOK(AddAddress(entry, a, until))
<1>1. CASE a \notin entry.addresses /\ Cardinality(entry.addresses) >= MaxAddresses
  BY <1>1 DEF AddAddress
<1>2. CASE ~(a \notin entry.addresses /\ Cardinality(entry.addresses) >= MaxAddresses)
  <2> DEFINE more == entry.addresses \cup {a}
             added == [entry EXCEPT !.addresses = @ \cup {a}, !.addr = Later(@, until)]
  <2>1. IsFiniteSet(more) /\ Cardinality(more) <= MaxAddresses
    <3>1. CASE a \in entry.addresses
      <4>1. more = entry.addresses
        BY <3>1
      <4> QED BY <4>1 DEF EntryOK
    <3>2. CASE a \notin entry.addresses
      <4>1. IsFiniteSet(more) /\ Cardinality(more) = Cardinality(entry.addresses) + 1
        BY <3>2, FS_AddElement DEF EntryOK
      <4>2. Cardinality(entry.addresses) \in Nat
        BY FS_CardinalityType DEF EntryOK
      <4> QED BY <1>2, <3>2, <4>1, <4>2, CacheAssumption
    <3> QED BY <3>1, <3>2
  <2>2. /\ added \in Entry
        /\ added.addresses = more
        /\ added.ptr = entry.ptr
        /\ added.srv = entry.srv
        /\ added.addr = Later(entry.addr, until)
    BY DEF EntryOK, Entry, Later
  <2>3. Later(entry.addr, until) <= now + MaxTtl
    BY DEF EntryOK, Later
  <2>4. EntryOK(added)
    BY <2>1, <2>2, <2>3 DEF EntryOK
  <2> QED BY <1>2, <2>4 DEF AddAddress
<1> QED BY <1>1, <1>2

\* Forgotten only takes away.
LEMMA ForgetKeepsEntry ==
  ASSUME NEW entry, EntryOK(entry)
  PROVE  EntryOK(Forgotten(entry, now))
<1> DEFINE less == Forgotten(entry, now)
<1>1. /\ less \in Entry
      /\ less.addresses \in {{}, entry.addresses}
      /\ less.ptr = entry.ptr
      /\ less.srv = entry.srv
      /\ less.addr = entry.addr
  BY DEF Forgotten, EntryOK, Entry
<1>2. IsFiniteSet(less.addresses) /\ Cardinality(less.addresses) <= MaxAddresses
  BY <1>1, FS_EmptySet, CacheAssumption DEF EntryOK
<1> QED BY <1>1, <1>2 DEF EntryOK

\* An empty entry is within its limits.
LEMMA NewIsOK ==
  ASSUME now \in Nat
  PROVE  EntryOK(NewEntry)
  BY FS_EmptySet, CacheAssumption DEF NewEntry, EntryOK, Entry

\* The empty cache satisfies the invariant.
LEMMA InitInv == Init => CacheInv
<1> SUFFICES ASSUME Init
             PROVE  CacheInv
  OBVIOUS
<1>1. Known = {} /\ now = 0
  BY DEF Init, Known
<1>2. IsFiniteSet(Known) /\ Cardinality(Known) <= MaxEntries
  BY <1>1, FS_EmptySet, CacheAssumption
<1>3. ptrUntil \in [Instance -> Nat] /\ addrUntil \in [Host -> Nat]
  BY DEF Init
<1>4. srvLast \in [Instance -> Service]
  BY DEF Init, Service
<1>5. now \in 0 .. MaxNow
  BY <1>1, CacheAssumption
<1>6. entries = [i \in Known |-> entries[i]]
  BY DEF Init, Known
<1> QED BY <1>1, <1>2, <1>3, <1>4, <1>5, <1>6 DEF CacheInv

\* Each record, each expiry and each tick keeps the invariant.
LEMMA PtrInv ==
  ASSUME CacheInv, NEW i \in Instance, NEW ttl \in Ttl, ApplyPtr(i, ttl)
  PROVE  CacheInv'
<1> DEFINE until == now + bounded_ttl(ttl)
           known == IF i \in Known THEN entries[i] ELSE NewEntry
           updated == [known EXCEPT !.ptr = until]
<1>1. now \in Nat /\ now' = now
  BY CacheAssumption DEF ApplyPtr, CacheInv
<1>2. until \in Nat /\ until <= now + MaxTtl
  BY <1>1, UntilLimits
<1>3. EntryOK(known)
  BY <1>1, NewIsOK DEF CacheInv
<1>4. EntryOK(updated)
  BY <1>2, <1>3 DEF EntryOK, Entry
<1>5. ptrUntil' \in [Instance -> Nat] /\ srvLast' = srvLast /\ addrUntil' = addrUntil
  BY <1>2 DEF ApplyPtr, CacheInv
<1>6. CASE i \notin Known /\ Cardinality(Known) >= MaxEntries
  <2>1. entries' = entries
    BY <1>6 DEF ApplyPtr
  <2> QED BY <1>1, <1>5, <2>1 DEF CacheInv, Known, EntryOK
<1>7. CASE ~(i \notin Known /\ Cardinality(Known) >= MaxEntries)
  <2>1. entries' = [j \in Known \cup {i} |-> IF j = i THEN updated ELSE entries[j]]
    BY <1>7 DEF ApplyPtr
  <2>2. Known' = Known \cup {i}
    BY <2>1 DEF Known
  <2>3. IsFiniteSet(Known \cup {i}) /\ Cardinality(Known \cup {i}) <= MaxEntries
    <3>1. CASE i \in Known
      <4>1. Known \cup {i} = Known
        BY <3>1
      <4> QED BY <4>1 DEF CacheInv
    <3>2. CASE i \notin Known
      <4>1. /\ IsFiniteSet(Known \cup {i})
            /\ Cardinality(Known \cup {i}) = Cardinality(Known) + 1
        BY <3>2, FS_AddElement DEF CacheInv
      <4>2. Cardinality(Known) \in Nat
        BY FS_CardinalityType DEF CacheInv
      <4> QED BY <1>7, <3>2, <4>1, <4>2, CacheAssumption
    <3> QED BY <3>1, <3>2
  <2>4. \A j \in Known' : EntryOK(entries'[j])
    BY <1>4, <2>1, <2>2 DEF CacheInv
  <2>5. \A j \in Known' : EntryOK(entries[j])'
    BY <1>1, <2>4 DEF EntryOK
  <2> QED BY <1>1, <1>5, <2>1, <2>2, <2>3, <2>5 DEF CacheInv
<1> QED BY <1>6, <1>7

\* A step that maps every entry to one within the limits keeps the invariant.
LEMMA MapInv ==
  ASSUME CacheInv, NEW F, entries' = [j \in Known |-> F[j]],
         \A j \in Known : EntryOK(F[j]), now' = now, ptrUntil' = ptrUntil,
         srvLast' \in [Instance -> Service], addrUntil' \in [Host -> Nat]
  PROVE  CacheInv'
<1>1. Known' = Known
  BY DEF Known
<1>2. \A j \in Known : EntryOK(entries[j])'
  BY DEF EntryOK
<1> QED BY <1>1, <1>2 DEF CacheInv

LEMMA SrvInv ==
  ASSUME CacheInv, NEW i \in Instance, NEW h \in Host, NEW p \in Port, NEW ttl \in Ttl,
         ApplySrv(i, h, p, ttl)
  PROVE  CacheInv'
<1> DEFINE until == now + bounded_ttl(ttl)
           F == [j \in Known |->
                    IF j = i THEN [entries[j] EXCEPT !.host = h, !.port = p, !.srv = until]
                    ELSE entries[j]]
<1>1. now \in Nat
  BY CacheAssumption DEF CacheInv
<1>2. until \in Nat /\ until <= now + MaxTtl
  BY <1>1, UntilLimits
<1>3. \A j \in Known : EntryOK(F[j])
  BY <1>2 DEF CacheInv, EntryOK, Entry
<1>4. srvLast' \in [Instance -> Service]
  BY <1>2 DEF ApplySrv, CacheInv, Service
<1>5. entries' = [j \in Known |-> F[j]]
  BY DEF ApplySrv
<1> HIDE DEF F
<1> QED BY <1>3, <1>4, <1>5, MapInv DEF ApplySrv, CacheInv

LEMMA AddressInv ==
  ASSUME CacheInv, NEW h \in Host, NEW a \in Address, NEW ttl \in Ttl,
         ApplyAddress(h, a, ttl)
  PROVE  CacheInv'
<1> DEFINE until == now + bounded_ttl(ttl)
           F == [j \in Known |->
                    IF entries[j].host = h THEN AddAddress(entries[j], a, until)
                    ELSE entries[j]]
<1>1. now \in Nat
  BY CacheAssumption DEF CacheInv
<1>2. until \in Nat /\ until <= now + MaxTtl
  BY <1>1, UntilLimits
<1>3. \A j \in Known : EntryOK(F[j])
  BY <1>1, <1>2, AddKeepsEntry DEF CacheInv
<1>4. addrUntil' \in [Host -> Nat]
  BY <1>2 DEF ApplyAddress, CacheInv, Later
<1>5. entries' = [j \in Known |-> F[j]]
  BY DEF ApplyAddress
<1> HIDE DEF F
<1> QED BY <1>3, <1>4, <1>5, MapInv DEF ApplyAddress, CacheInv

LEMMA ExpireInv ==
  ASSUME CacheInv, Expire
  PROVE  CacheInv'
<1> DEFINE kept == {j \in Known : entries[j].ptr > now}
<1>1. Known' = kept /\ now' = now
  BY DEF Expire, Known
<1>2. IsFiniteSet(kept) /\ Cardinality(kept) <= Cardinality(Known)
  BY FS_Subset DEF CacheInv
<1>3. Cardinality(kept) <= MaxEntries
  BY <1>2, FS_CardinalityType, CacheAssumption DEF CacheInv
<1>4. \A j \in kept : EntryOK(entries'[j])
  BY ForgetKeepsEntry DEF Expire, CacheInv
<1>5. \A j \in kept : EntryOK(entries[j])'
  BY <1>1, <1>4 DEF EntryOK
<1> QED BY <1>1, <1>2, <1>3, <1>5 DEF CacheInv, Expire, heard

LEMMA NextInv == CacheInv /\ [Next]_vars => CacheInv'
<1> SUFFICES ASSUME CacheInv, [Next]_vars
             PROVE  CacheInv'
  OBVIOUS
<1>1. CASE UNCHANGED vars
  BY <1>1 DEF vars, heard, CacheInv, Known, EntryOK
<1>2. CASE Clear
  <2>1. Known' = {}
    BY <1>2 DEF Clear, Known
  <2>2. IsFiniteSet({}) /\ Cardinality({}) <= MaxEntries
    BY FS_EmptySet, CacheAssumption
  <2>3. entries' = [i \in Known' |-> entries'[i]]
    BY <1>2, <2>1 DEF Clear
  <2> QED BY <1>2, <2>1, <2>2, <2>3 DEF Clear, heard, CacheInv
<1>3. CASE Tick
  <2>1. Known' = Known /\ now' \in 0 .. MaxNow /\ now' = now + 1
    BY <1>3, CacheAssumption DEF Tick, Known, CacheInv
  <2>2. \A j \in Known : EntryOK(entries[j])'
    BY <1>3, <2>1, CacheAssumption DEF Tick, CacheInv, EntryOK, Entry
  <2> QED BY <1>3, <2>1, <2>2 DEF Tick, heard, CacheInv
<1> QED BY <1>1, <1>2, <1>3, PtrInv, SrvInv, AddressInv, ExpireInv DEF Next

------------------------------------------------------------------------------

\* The cache keeps to kMaxEntries, kMaxAddressesPerEntry and kMaxTtl, whatever
\* records come.
THEOREM CacheTypes == Spec => []TypeOK
<1>1. CacheInv => TypeOK
  BY DEF CacheInv, TypeOK, EntryOK
<1> QED BY <1>1, InitInv, NextInv, PTL DEF Spec

\* expire may run before or after ready, or not at all: ready answers the same.
THEOREM ExpiryIsInvisible == Spec => ExpireIsInvisible
<1>1. CacheInv /\ Expire => Ready' = Ready
  <2> SUFFICES ASSUME CacheInv, Expire
               PROVE  Ready' = Ready
    OBVIOUS
  <2> DEFINE kept == {j \in Known : entries[j].ptr > now}
  <2>1. Known' = kept /\ now' = now
    BY DEF Expire, Known
  <2>2. \A j \in kept : entries'[j] = Forgotten(entries[j], now)
    BY DEF Expire
  <2>3. \A j \in Known : entries[j] \in Entry /\ now \in Nat
    BY CacheAssumption DEF CacheInv, EntryOK
  <2>4. \A j \in kept :
            /\ IsReady(entries'[j], now) <=> IsReady(entries[j], now)
            /\ IsReady(entries[j], now) =>
                   /\ entries'[j].host = entries[j].host
                   /\ entries'[j].port = entries[j].port
                   /\ entries'[j].addresses = entries[j].addresses
    <3> SUFFICES ASSUME NEW j \in kept
                 PROVE  /\ IsReady(Forgotten(entries[j], now), now) <=> IsReady(entries[j], now)
                        /\ IsReady(entries[j], now) =>
                               /\ Forgotten(entries[j], now).host = entries[j].host
                               /\ Forgotten(entries[j], now).port = entries[j].port
                               /\ Forgotten(entries[j], now).addresses = entries[j].addresses
      BY <2>2
    <3> DEFINE e == entries[j]
    <3>1. e \in Entry /\ now \in Nat
      BY <2>3
    <3>2. CASE e.srv > now /\ e.addr > now
      <4>1. /\ Forgotten(e, now).host = e.host
            /\ Forgotten(e, now).port = e.port
            /\ Forgotten(e, now).addresses = e.addresses
            /\ Forgotten(e, now).ptr = e.ptr
            /\ Forgotten(e, now).srv = e.srv
            /\ Forgotten(e, now).addr = e.addr
        BY <3>1, <3>2 DEF Forgotten, Entry
      <4> QED BY <4>1 DEF IsReady
    <3>3. CASE ~(e.srv > now /\ e.addr > now)
      <4>1. Forgotten(e, now).srv = e.srv /\ Forgotten(e, now).addr = e.addr
        BY <3>1 DEF Forgotten, Entry
      <4> QED BY <3>3, <4>1 DEF IsReady
    <3> QED BY <3>2, <3>3
  <2>5. \A j \in Known : IsReady(entries[j], now) => j \in kept
    BY DEF IsReady
  <2>6. {j \in Known' : IsReady(entries'[j], now')} = {j \in Known : IsReady(entries[j], now)}
    BY <2>1, <2>4, <2>5
  <2>7. \A j \in {j \in Known : IsReady(entries[j], now)} :
            [instance |-> j, host |-> entries'[j].host, port |-> entries'[j].port,
             addresses |-> entries'[j].addresses]
            = [instance |-> j, host |-> entries[j].host, port |-> entries[j].port,
               addresses |-> entries[j].addresses]
    BY <2>4, <2>5
  <2> QED BY <2>6, <2>7 DEF Ready
<1>2. CacheInv /\ [Next]_vars => (Expire => Ready' = Ready)
  BY <1>1
<1> QED BY <1>2, InitInv, NextInv, PTL DEF Spec, ExpireIsInvisible

------------------------------------------------------------------------------
(* What ready says was said by the network: what the cache remembers of an entry,
   ready or not, related to what was heard. *)

HeardOf(i, entry, ptr, srv, names, pairs, until) ==
    /\ entry.ptr = ptr
    /\ entry.host # NoHost =>
           /\ <<i, entry.host>> \in names
           /\ srv = [host |-> entry.host, port |-> entry.port, until |-> entry.srv]
    /\ \A a \in entry.addresses : \E h \in Host : <<i, h>> \in names /\ <<h, a>> \in pairs
    /\ entry.addr # 0 => \E h \in Host : <<i, h>> \in names /\ until[h] >= entry.addr

HeardInv ==
    \A i \in Known :
        HeardOf(i, entries[i], ptrUntil[i], srvLast[i], named, announced, addrUntil)

\* A pointer record changes one expiry, or makes an entry of which nothing else is
\* known.
LEMMA PtrHeard ==
  ASSUME CacheInv, HeardInv, NEW i \in Instance, NEW ttl \in Ttl, ApplyPtr(i, ttl)
  PROVE  HeardInv'
<1> DEFINE until == now + bounded_ttl(ttl)
           known == IF i \in Known THEN entries[i] ELSE NewEntry
           updated == [known EXCEPT !.ptr = until]
<1>1. /\ ptrUntil' = [ptrUntil EXCEPT ![i] = until]
      /\ srvLast' = srvLast
      /\ named' = named
      /\ announced' = announced
      /\ addrUntil' = addrUntil
  BY DEF ApplyPtr
<1>2. ptrUntil'[i] = until /\ \A j \in Known \ {i} : ptrUntil'[j] = ptrUntil[j]
  BY <1>1 DEF CacheInv
<1>3. CASE i \notin Known /\ Cardinality(Known) >= MaxEntries
  <2>1. entries' = entries /\ Known' = Known
    BY <1>3 DEF ApplyPtr, Known
  <2> QED BY <1>1, <1>2, <1>3, <2>1 DEF HeardInv
<1>4. CASE ~(i \notin Known /\ Cardinality(Known) >= MaxEntries)
  <2>1. entries' = [j \in Known \cup {i} |-> IF j = i THEN updated ELSE entries[j]]
    BY <1>4 DEF ApplyPtr
  <2>2. Known' = Known \cup {i} /\ entries'[i] = updated
    BY <2>1 DEF Known
  <2>3. known \in Entry
    BY NewIsOK, CacheAssumption DEF CacheInv, EntryOK
  <2>4. /\ updated.ptr = until
        /\ updated.host = known.host
        /\ updated.port = known.port
        /\ updated.srv = known.srv
        /\ updated.addr = known.addr
        /\ updated.addresses = known.addresses
    BY <2>3 DEF Entry
  <2>5. HeardOf(i, updated, until, srvLast[i], named, announced, addrUntil)
    <3>1. CASE i \in Known
      BY <2>4, <3>1 DEF HeardInv, HeardOf
    <3>2. CASE i \notin Known
      <4>1. known.host = NoHost /\ known.addr = 0 /\ known.addresses = {}
        BY <3>2 DEF NewEntry
      <4> QED BY <2>4, <4>1 DEF HeardOf
    <3> QED BY <3>1, <3>2
  <2>6. \A j \in Known \ {i} :
            HeardOf(j, entries'[j], ptrUntil'[j], srvLast[j], named, announced, addrUntil)
    BY <1>2, <2>1 DEF HeardInv
  <2> QED BY <1>1, <1>2, <2>2, <2>5, <2>6 DEF HeardInv
<1> QED BY <1>3, <1>4

\* A service record replaces host, port and their expiry together.
LEMMA SrvHeard ==
  ASSUME CacheInv, HeardInv, NEW i \in Instance, NEW h \in Host, NEW p \in Port,
         NEW ttl \in Ttl, ApplySrv(i, h, p, ttl)
  PROVE  HeardInv'
<1> DEFINE until == now + bounded_ttl(ttl)
           updated == [entries[i] EXCEPT !.host = h, !.port = p, !.srv = until]
           last == [host |-> h, port |-> p, until |-> until]
<1>1. /\ srvLast' = [srvLast EXCEPT ![i] = last]
      /\ named' = named \cup {<<i, h>>}
      /\ ptrUntil' = ptrUntil
      /\ announced' = announced
      /\ addrUntil' = addrUntil
      /\ entries' = [j \in Known |-> IF j = i THEN updated ELSE entries[j]]
  BY DEF ApplySrv
<1>2. Known' = Known
  BY <1>1 DEF Known
<1>3. \A j \in Known : HeardOf(j, entries[j], ptrUntil[j], srvLast[j], named', announced, addrUntil)
  <2> SUFFICES ASSUME NEW j \in Known
               PROVE  HeardOf(j, entries[j], ptrUntil[j], srvLast[j], named', announced, addrUntil)
    OBVIOUS
  <2>1. HeardOf(j, entries[j], ptrUntil[j], srvLast[j], named, announced, addrUntil)
    BY DEF HeardInv
  <2>2. named \subseteq named'
    BY <1>1
  <2> QED BY <2>1, <2>2 DEF HeardOf
<1>4. \A j \in Known \ {i} :
          HeardOf(j, entries'[j], ptrUntil[j], srvLast'[j], named', announced, addrUntil)
  BY <1>1, <1>3 DEF CacheInv
<1>5. ASSUME i \in Known
      PROVE  HeardOf(i, entries'[i], ptrUntil[i], srvLast'[i], named', announced, addrUntil)
  <2>1. entries[i] \in Entry
    BY <1>5 DEF CacheInv, EntryOK
  <2>2. entries'[i] = updated /\ srvLast'[i] = last /\ <<i, h>> \in named'
    BY <1>1, <1>5 DEF CacheInv
  <2>3. /\ updated.host = h
        /\ updated.port = p
        /\ updated.srv = until
        /\ updated.ptr = entries[i].ptr
        /\ updated.addr = entries[i].addr
        /\ updated.addresses = entries[i].addresses
    BY <2>1 DEF Entry
  <2> HIDE DEF updated, until
  <2> QED BY <1>3, <1>5, <2>2, <2>3 DEF HeardOf
<1> QED BY <1>1, <1>2, <1>4, <1>5 DEF HeardInv

\* An address record reaches the instances whose host it is about: a service record
\* of each has named that host.
LEMMA AddressHeard ==
  ASSUME CacheInv, HeardInv, NEW h \in Host, NEW a \in Address, NEW ttl \in Ttl,
         ApplyAddress(h, a, ttl)
  PROVE  HeardInv'
<1> DEFINE until == now + bounded_ttl(ttl)
           added(j) == [entries[j] EXCEPT !.addresses = @ \cup {a}, !.addr = Later(@, until)]
<1>1. /\ ptrUntil' = ptrUntil
      /\ srvLast' = srvLast
      /\ named' = named
      /\ announced' = announced \cup {<<h, a>>}
      /\ addrUntil' = [addrUntil EXCEPT ![h] = Later(@, until)]
      /\ entries' = [j \in Known |-> IF entries[j].host = h
                                      THEN AddAddress(entries[j], a, until)
                                      ELSE entries[j]]
  BY DEF ApplyAddress
<1>2. Known' = Known
  BY <1>1 DEF Known
<1>3. until \in Nat
  BY UntilLimits, CacheAssumption DEF CacheInv
<1>4. /\ addrUntil' \in [Host -> Nat]
      /\ addrUntil'[h] >= until
      /\ \A g \in Host : addrUntil'[g] >= addrUntil[g]
  BY <1>1, <1>3 DEF CacheInv, Later
<1>5. \A j \in Known :
          HeardOf(j, entries[j], ptrUntil[j], srvLast[j], named, announced', addrUntil')
  <2> SUFFICES ASSUME NEW j \in Known
               PROVE  HeardOf(j, entries[j], ptrUntil[j], srvLast[j], named, announced', addrUntil')
    OBVIOUS
  <2>1. HeardOf(j, entries[j], ptrUntil[j], srvLast[j], named, announced, addrUntil)
    BY DEF HeardInv
  <2>2. announced \subseteq announced' /\ entries[j].addr \in Nat /\ addrUntil \in [Host -> Nat]
    BY <1>1 DEF CacheInv, EntryOK, Entry
  <2>3. ASSUME NEW g \in Host, addrUntil[g] >= entries[j].addr
        PROVE  addrUntil'[g] >= entries[j].addr
    <3>1. addrUntil[g] \in Nat /\ addrUntil'[g] \in Nat /\ addrUntil'[g] >= addrUntil[g]
      BY <1>4, <2>2
    <3> QED BY <2>2, <2>3, <3>1
  <2> QED BY <2>1, <2>2, <2>3 DEF HeardOf
<1>6. ASSUME NEW j \in Known
      PROVE  HeardOf(j, entries'[j], ptrUntil[j], srvLast[j], named, announced', addrUntil')
  <2>1. entries[j] \in Entry
    BY DEF CacheInv, EntryOK
  <2>2. entries'[j] = entries[j] \/ (entries[j].host = h /\ entries'[j] = added(j))
    BY <1>1 DEF AddAddress
  <2>3. CASE entries'[j] = entries[j]
    BY <1>5, <2>3
  <2>4. CASE entries[j].host = h /\ entries'[j] = added(j)
    <3>1. /\ added(j).host = entries[j].host
          /\ added(j).port = entries[j].port
          /\ added(j).srv = entries[j].srv
          /\ added(j).ptr = entries[j].ptr
          /\ added(j).addresses = entries[j].addresses \cup {a}
          /\ added(j).addr \in {entries[j].addr, until}
      BY <2>1 DEF Entry, Later
    <3>2. <<j, h>> \in named
      BY <2>4, CacheAssumption DEF HeardInv, HeardOf
    <3>3. <<h, a>> \in announced'
      BY <1>1
    <3>4. HeardOf(j, entries[j], ptrUntil[j], srvLast[j], named, announced', addrUntil')
      BY <1>5
    <3> DEFINE e == added(j)
    <3> HIDE DEF added, until, e
    <3>5. /\ e.ptr = ptrUntil[j]
          /\ e.host # NoHost =>
                 /\ <<j, e.host>> \in named
                 /\ srvLast[j] = [host |-> e.host, port |-> e.port, until |-> e.srv]
      BY <3>1, <3>4 DEF HeardOf, e
    <3>6. \A b \in e.addresses : \E g \in Host : <<j, g>> \in named /\ <<g, b>> \in announced'
      BY <3>1, <3>2, <3>3, <3>4 DEF HeardOf, e
    <3>7. e.addr # 0 => \E g \in Host : <<j, g>> \in named /\ addrUntil'[g] >= e.addr
      BY <1>4, <3>1, <3>2, <3>4 DEF HeardOf, e
    <3>8. HeardOf(j, e, ptrUntil[j], srvLast[j], named, announced', addrUntil')
      BY <3>5, <3>6, <3>7 DEF HeardOf
    <3> QED BY <2>4, <3>8 DEF e
  <2> QED BY <2>2, <2>3, <2>4
<1> QED BY <1>1, <1>2, <1>6 DEF HeardInv

\* Forgetting and the clock add nothing.
LEMMA QuietHeard ==
  ASSUME CacheInv, HeardInv, Expire \/ Clear \/ Tick \/ UNCHANGED vars
  PROVE  HeardInv'
<1>1. heard' = heard
  BY DEF Expire, Clear, Tick, vars
<1>2. CASE Expire
  <2>1. \A j \in Known' : j \in Known /\ entries'[j] = Forgotten(entries[j], now)
    BY <1>2 DEF Expire, Known
  <2>2. ASSUME NEW j \in Known'
        PROVE  HeardOf(j, entries'[j], ptrUntil[j], srvLast[j], named, announced, addrUntil)
    <3> DEFINE f == Forgotten(entries[j], now)
    <3>1. entries[j] \in Entry /\ entries'[j] = f
      BY <2>1 DEF CacheInv, EntryOK
    <3>2. /\ f.host = NoHost \/ (f.host = entries[j].host /\ f.port = entries[j].port)
          /\ f.srv = entries[j].srv
          /\ f.ptr = entries[j].ptr
          /\ f.addr = entries[j].addr
          /\ f.addresses \subseteq entries[j].addresses
      BY <3>1 DEF Forgotten, Entry
    <3> HIDE DEF f
    <3> QED BY <2>1, <3>1, <3>2 DEF HeardInv, HeardOf
  <2> QED BY <1>1, <2>2 DEF heard, HeardInv
<1>3. CASE Clear
  BY <1>3 DEF Clear, HeardInv, Known
<1>4. CASE Tick \/ UNCHANGED vars
  BY <1>1, <1>4 DEF Tick, vars, heard, HeardInv, Known
<1> QED BY <1>2, <1>3, <1>4

LEMMA NextHeard == CacheInv /\ HeardInv /\ [Next]_vars => HeardInv'
  BY PtrHeard, SrvHeard, AddressHeard, QuietHeard DEF Next

LEMMA InitHeard == Init => HeardInv
  BY DEF Init, HeardInv, Known

\* ready returns only what pointer, service and address records that still hold
\* have said of the instance, in whatever order they came, and however many of
\* them found no place.
THEOREM ReadyFromRecords == Spec => []ReadyWasAnnounced
<1>1. CacheInv /\ HeardInv => ReadyWasAnnounced
  <2> SUFFICES ASSUME CacheInv, HeardInv, NEW i \in Known, IsReady(entries[i], now)
               PROVE  /\ ptrUntil[i] > now
                      /\ srvLast[i].until > now
                      /\ srvLast[i].host = entries[i].host
                      /\ srvLast[i].port = entries[i].port
                      /\ \A a \in entries[i].addresses :
                             \E h \in Host : <<i, h>> \in named /\ <<h, a>> \in announced
                      /\ \E h \in Host : <<i, h>> \in named /\ addrUntil[h] > now
    BY DEF ReadyWasAnnounced, Ready
  <2>1. HeardOf(i, entries[i], ptrUntil[i], srvLast[i], named, announced, addrUntil)
    BY DEF HeardInv
  <2>2. now \in Nat /\ entries[i].addr \in Nat /\ addrUntil \in [Host -> Nat]
    BY CacheAssumption DEF CacheInv, EntryOK, Entry
  <2>3. \E h \in Host : <<i, h>> \in named /\ addrUntil[h] > now
    <3>1. entries[i].addr > now /\ entries[i].addr # 0
      BY <2>2 DEF IsReady
    <3>2. PICK h \in Host : <<i, h>> \in named /\ addrUntil[h] >= entries[i].addr
      BY <2>1, <3>1 DEF HeardOf
    <3> QED BY <2>2, <3>1, <3>2
  <2> QED BY <2>1, <2>3 DEF HeardOf, IsReady
<1> QED BY <1>1, InitInv, InitHeard, NextInv, NextHeard, PTL DEF Spec
===============================================================================
