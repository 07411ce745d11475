-------------------------- MODULE IdentityStoreProofs --------------------------
(***************************************************************************)
(* Proofs about IdentityStore, for any number of processes and identities. *)
(***************************************************************************)
EXTENDS IdentityStore, TLAPS

\* The processes that have an identity in memory and are putting it into files.
MakerPcs == {"openCert", "openKey", "protect", "write"}

\* Where a certificate and a key in memory are known to be identities, and where
\* they are known to be of the same one.
MemoryInv ==
    \A p \in Process :
        /\ pc[p] \in MakerPcs => cert[p] \in Identities /\ cert[p] = key[p]
        /\ pc[p] = "context" => cert[p] \in Identities /\ key[p] \in Identities
        /\ pc[p] = "serving" => cert[p] \in Identities /\ cert[p] = key[p]

\* TypeOK holds at first.
LEMMA InitTypeOK == Init => TypeOK
<1> SUFFICES ASSUME Init
             PROVE  TypeOK
  OBVIOUS
<1>1. certFile \in Contents /\ keyFile \in Contents
  BY DEF Init, Contents
<1>2. cert \in [Process -> Contents] /\ key \in [Process -> Contents]
  BY DEF Init, Contents
<1>3. pc \in [Process -> Pcs]
  BY DEF Init, Pcs
<1>4. /\ unwritten \in [Process -> SUBSET {"cert", "key"}]
      /\ \A p \in Process : unwritten[p] = {}
  BY DEF Init
<1>5. made \in 0 .. MaxMade
  BY IdentityAssumption DEF Init
<1>6. disturbed \in BOOLEAN
  BY DEF Init
<1> QED BY <1>1, <1>2, <1>3, <1>4, <1>5, <1>6 DEF TypeOK

LEMMA InitMemory == Init => MemoryInv
  BY DEF Init, MemoryInv, MakerPcs

\* The steps of load_or_create that only look keep every variable's type.
LEMMA LoadType ==
  ASSUME TypeOK, NEW p \in Process,
         Start(p) \/ LookCert(p) \/ LookKey(p) \/ ReadCert(p) \/ ReadKey(p)
  PROVE  TypeOK'
<1> USE DEF TypeOK, Contents, Pcs, CreatingPcs, files, memory, Goto
<1>1. CASE Start(p)
  BY <1>1 DEF Start
<1>2. CASE LookCert(p)
  BY <1>2 DEF LookCert, Create
<1>3. CASE LookKey(p)
  BY <1>3 DEF LookKey, Create
<1>4. CASE ReadCert(p)
  BY <1>4 DEF ReadCert
<1>5. CASE ReadKey(p)
  BY <1>5 DEF ReadKey, Throw
<1> QED BY <1>1, <1>2, <1>3, <1>4, <1>5

\* So do the steps that create an identity and put it into the files.
LEMMA CreateType ==
  ASSUME TypeOK, NEW p \in Process,
         \/ Generate(p) \/ OpenCert(p) \/ OpenKey(p) \/ OpenFails(p)
         \/ Protect(p) \/ ProtectFails(p) \/ FlushCert(p) \/ FlushKey(p) \/ Return(p)
  PROVE  TypeOK'
<1> USE IdentityAssumption DEF TypeOK, Contents, Pcs, CreatingPcs, files, memory, Goto
<1>1. CASE Generate(p)
  BY <1>1 DEF Generate, Identities
<1>2. CASE OpenCert(p)
  BY <1>2 DEF OpenCert
<1>3. CASE OpenKey(p)
  BY <1>3 DEF OpenKey
<1>4. CASE OpenFails(p)
  BY <1>4 DEF OpenFails, Throw
<1>5. CASE Protect(p)
  BY <1>5 DEF Protect
<1>6. CASE ProtectFails(p)
  BY <1>6 DEF ProtectFails, Throw
<1>7. CASE FlushCert(p)
  BY <1>7 DEF FlushCert
<1>8. CASE FlushKey(p)
  BY <1>8 DEF FlushKey
<1>9. CASE Return(p)
  BY <1>9 DEF Return
<1> QED BY <1>1, <1>2, <1>3, <1>4, <1>5, <1>6, <1>7, <1>8, <1>9

\* And the steps after it.
LEMMA UseType ==
  ASSUME TypeOK, NEW p \in Process, MakeContext(p) \/ Stop(p) \/ Kill(p)
  PROVE  TypeOK'
<1> USE DEF TypeOK, Contents, Pcs, CreatingPcs, files, memory, Goto
<1>1. CASE MakeContext(p)
  BY <1>1 DEF MakeContext
<1>2. CASE Stop(p)
  BY <1>2 DEF Stop
<1>3. CASE Kill(p)
  BY <1>3 DEF Kill, Throw, Creating
<1> QED BY <1>1, <1>2, <1>3

LEMMA NextType == TypeOK /\ [Next]_vars => TypeOK'
<1> SUFFICES ASSUME TypeOK, [Next]_vars
             PROVE  TypeOK'
  OBVIOUS
<1>1. CASE UNCHANGED vars
  BY <1>1 DEF vars, files, memory, TypeOK
<1>2. CASE Next
  BY <1>2, LoadType, CreateType, UseType DEF Next
<1> QED BY <1>1, <1>2

\* No process that is on its way to a context, or has one, finds another's
\* certificate in its memory: only its own steps write there.
LEMMA NextMemory == TypeOK /\ MemoryInv /\ [Next]_vars => MemoryInv'
<1> SUFFICES ASSUME TypeOK, MemoryInv, [Next]_vars
             PROVE  MemoryInv'
  OBVIOUS
<1> USE DEF TypeOK, MemoryInv, MakerPcs, files, memory, Goto
<1>1. CASE UNCHANGED vars
  BY <1>1 DEF vars
<1>2. ASSUME NEW p \in Process,
             Start(p) \/ LookCert(p) \/ LookKey(p) \/ ReadCert(p) \/ Stop(p)
      PROVE  MemoryInv'
  BY <1>2 DEF Start, LookCert, LookKey, ReadCert, Create, Stop
<1>3. ASSUME NEW p \in Process, ReadKey(p)
      PROVE  MemoryInv'
  BY <1>3 DEF ReadKey, Throw
<1>4. ASSUME NEW p \in Process, Generate(p)
      PROVE  MemoryInv'
  BY <1>4, IdentityAssumption DEF Generate, Identities
<1>5. ASSUME NEW p \in Process,
             OpenCert(p) \/ OpenKey(p) \/ OpenFails(p) \/ Protect(p) \/ ProtectFails(p)
      PROVE  MemoryInv'
  BY <1>5 DEF OpenCert, OpenKey, OpenFails, Protect, ProtectFails, Throw
<1>6. ASSUME NEW p \in Process, FlushCert(p) \/ FlushKey(p) \/ Return(p)
      PROVE  MemoryInv'
  BY <1>6 DEF FlushCert, FlushKey, Return
<1>7. ASSUME NEW p \in Process, MakeContext(p)
      PROVE  MemoryInv'
  BY <1>7 DEF MakeContext
<1>8. ASSUME NEW p \in Process, Kill(p)
      PROVE  MemoryInv'
  BY <1>8 DEF Kill, Throw
<1> QED BY <1>1, <1>2, <1>3, <1>4, <1>5, <1>6, <1>7, <1>8 DEF Next

\* What holds as long as no creation has been killed, has failed or has overlapped
\* with another: at most one process creates; the files say how far it is; and who
\* has read a certificate from them has read the only one there is.
Orderly ==
    /\ made <= 1
    /\ made = 0 => certFile = Absent /\ keyFile = Absent
    /\ made = 1 /\ (\A p \in Process : ~Creating(p)) => certFile = 1 /\ keyFile = 1
    /\ \A p, q \in Process : Creating(p) /\ Creating(q) => p = q
    /\ \A p \in Process :
           /\ pc[p] = "generate" => made = 0
           /\ pc[p] \in MakerPcs => made = 1 /\ cert[p] = 1 /\ key[p] = 1
           /\ pc[p] = "openCert" => certFile = Absent /\ keyFile = Absent
           /\ pc[p] = "openKey" => certFile = Broken /\ keyFile = Absent
           /\ pc[p] = "protect" => certFile = Broken /\ keyFile = Broken
           /\ pc[p] = "write" => /\ certFile = IF "cert" \in unwritten[p] THEN Broken ELSE 1
                                 /\ keyFile = IF "key" \in unwritten[p] THEN Broken ELSE 1
           /\ pc[p] \in {"lookKey", "readCert", "readKey"} => certFile # Absent
           /\ pc[p] \in {"readCert", "readKey"} => keyFile # Absent
           /\ pc[p] = "readKey" /\ cert[p] \in Identities => cert[p] = 1 /\ certFile = 1
           /\ pc[p] \in {"context", "serving"} =>
                  cert[p] = 1 /\ key[p] = 1 /\ certFile = 1 /\ keyFile = 1

OrderlyInv == ~disturbed => Orderly

LEMMA InitOrderly == Init => OrderlyInv
  BY DEF Init, OrderlyInv, Orderly, Creating, CreatingPcs, MakerPcs

\* A step that is no accident itself keeps that order.
LEMMA NextOrderly == TypeOK /\ OrderlyInv /\ [Next]_vars => OrderlyInv'
<1> SUFFICES ASSUME TypeOK, OrderlyInv, [Next]_vars, ~disturbed'
             PROVE  Orderly'
  BY DEF OrderlyInv
<1>a. ~disturbed
  BY DEF Next, vars, files, memory, Start, LookCert, LookKey, Create, ReadCert, ReadKey,
         Generate, OpenCert, OpenKey, OpenFails, Protect, ProtectFails, FlushCert,
         FlushKey, Return, MakeContext, Stop, Kill, TypeOK
<1>b. Orderly
  BY <1>a DEF OrderlyInv
<1> USE <1>a, <1>b, IdentityAssumption
    DEF TypeOK, Orderly, Creating, CreatingPcs, MakerPcs, files, memory, Goto
<1>1. CASE UNCHANGED vars
  BY <1>1 DEF vars
<1>2. ASSUME NEW p \in Process, Start(p) \/ ReadCert(p)
      PROVE  Orderly'
  <2>1. Start(p) => Orderly'
    BY DEF Start
  <2>2. ReadCert(p) => certFile \notin Identities \/ certFile = 1
    BY DEF ReadCert, Identities
  <2>3. ReadCert(p) => Orderly'
    BY <2>2 DEF ReadCert
  <2> QED BY <1>2, <2>1, <2>3
<1>3. ASSUME NEW p \in Process, LookCert(p) \/ LookKey(p)
      PROVE  Orderly'
  <2>1. CASE ~Create(p)
    BY <1>3, <2>1 DEF LookCert, LookKey
  <2>2. CASE Create(p)
    <3>1. \A q \in Process \ {p} : ~Creating(q)
      BY <2>2 DEF Create
    <3>2. pc[p] \in {"lookCert", "lookKey"} /\ (certFile = Absent \/ keyFile = Absent)
      BY <1>3, <2>2 DEF LookCert, LookKey, Create
    <3>3. made = 0
      BY <3>1, <3>2
    <3>4. certFile = Absent /\ keyFile = Absent /\ pc[p] = "lookCert"
      BY <3>2, <3>3
    <3> QED BY <2>2, <3>1, <3>3, <3>4 DEF Create
  <2> QED BY <2>1, <2>2
<1>4. ASSUME NEW p \in Process, ReadKey(p)
      PROVE  Orderly'
  BY <1>4 DEF ReadKey, Throw, Identities
<1>5. ASSUME NEW p \in Process, Generate(p)
      PROVE  Orderly'
  BY <1>5 DEF Generate
<1>6. ASSUME NEW p \in Process, OpenCert(p)
      PROVE  Orderly'
  BY <1>6 DEF OpenCert
<1>7. ASSUME NEW p \in Process, OpenKey(p)
      PROVE  Orderly'
  BY <1>7 DEF OpenKey
<1>8. ASSUME NEW p \in Process, Protect(p)
      PROVE  Orderly'
  BY <1>8 DEF Protect
<1>9. ASSUME NEW p \in Process, FlushCert(p)
       PROVE  Orderly'
  BY <1>9 DEF FlushCert
<1>10. ASSUME NEW p \in Process, FlushKey(p)
       PROVE  Orderly'
  BY <1>10 DEF FlushKey
<1>11. ASSUME NEW p \in Process, Return(p)
       PROVE  Orderly'
  BY <1>11 DEF Return
<1>12. ASSUME NEW p \in Process, MakeContext(p) \/ Stop(p)
       PROVE  Orderly'
  BY <1>12 DEF MakeContext, Stop
<1>13. ASSUME NEW p \in Process, Kill(p)
       PROVE  Orderly'
  BY <1>13 DEF Kill, Throw
<1>14. ASSUME NEW p \in Process, OpenFails(p) \/ ProtectFails(p)
       PROVE  FALSE
  BY <1>14 DEF OpenFails, ProtectFails
<1> QED BY <1>1, <1>2, <1>3, <1>4, <1>5, <1>6, <1>7, <1>8, <1>9, <1>10, <1>11,
           <1>12, <1>13, <1>14 DEF Next

------------------------------------------------------------------------------

\* Every variable of the identity store keeps its type, for any number of
\* processes, kills and failures of load_or_create.
THEOREM StoreTypes == Spec => []TypeOK
<1> QED BY InitTypeOK, NextType, PTL DEF Spec

\* Context::server never makes a context of two identities, however many processes
\* create, replace and read the files at the same time.
THEOREM MatchedPairs == Spec => []ServesMatchedPair
<1>1. MemoryInv => ServesMatchedPair
  BY DEF MemoryInv, ServesMatchedPair
<1> QED BY <1>1, InitTypeOK, InitMemory, NextType, NextMemory, PTL DEF Spec

\* Once the two files cannot be loaded and nobody is creating, no start, whatever
\* it meets, replaces them.
THEOREM StuckForGood == Spec => StuckStays
<1>1. TypeOK /\ [Next]_vars => (Stuck => Stuck')
  <2> SUFFICES ASSUME TypeOK, Stuck, [Next]_vars
               PROVE  Stuck'
    OBVIOUS
  <2> USE DEF TypeOK, Stuck, Creating, CreatingPcs, files, memory, Goto
  <2>1. CASE UNCHANGED vars
    BY <2>1 DEF vars
  <2>2. ASSUME NEW p \in Process,
               Start(p) \/ LookCert(p) \/ LookKey(p) \/ ReadCert(p) \/ ReadKey(p)
        PROVE  Stuck'
    BY <2>2 DEF Start, LookCert, LookKey, ReadCert, ReadKey, Throw
  <2>3. ASSUME NEW p \in Process,
               \/ Generate(p) \/ OpenCert(p) \/ OpenKey(p) \/ OpenFails(p)
               \/ Protect(p) \/ ProtectFails(p) \/ FlushCert(p) \/ FlushKey(p) \/ Return(p)
        PROVE  FALSE
    BY <2>3 DEF Generate, OpenCert, OpenKey, OpenFails, Protect, ProtectFails,
                FlushCert, FlushKey, Return
  <2>4. ASSUME NEW p \in Process, MakeContext(p) \/ Stop(p) \/ Kill(p)
        PROVE  Stuck'
    BY <2>4 DEF MakeContext, Stop, Kill, Throw
  <2> QED BY <2>1, <2>2, <2>3, <2>4 DEF Next
<1> QED BY <1>1, InitTypeOK, NextType, PTL DEF Spec, StuckStays

\* As long as creations neither fail nor overlap, what load_or_create returned to a
\* coordinator that serves is what the files hold.
THEOREM WhatIsServedIsStored == Spec => []ServedIsStored
<1>1. OrderlyInv => ServedIsStored
  BY DEF OrderlyInv, Orderly, ServedIsStored
<1> QED BY <1>1, InitTypeOK, InitOrderly, NextType, NextOrderly, PTL DEF Spec

\* And then an installation generates one identity in its life and can always load
\* it, however often and by however many processes it is started.
THEOREM OneIdentity == Spec => []GeneratedOnce
<1>1. TypeOK /\ OrderlyInv => GeneratedOnce
  <2> SUFFICES ASSUME TypeOK, OrderlyInv, ~disturbed
               PROVE  made <= 1 /\ ~Stuck
    BY DEF GeneratedOnce
  <2>1. Orderly
    BY DEF OrderlyInv
  <2>2. made \in {0, 1}
    BY <2>1, IdentityAssumption DEF TypeOK, Orderly
  <2>3. 1 \in Identities \/ made = 0
    BY <2>2, IdentityAssumption DEF TypeOK, Identities
  <2> QED BY <2>1, <2>2, <2>3 DEF Orderly, Stuck
<1> QED BY <1>1, InitTypeOK, InitOrderly, NextType, NextOrderly, PTL DEF Spec
===============================================================================
