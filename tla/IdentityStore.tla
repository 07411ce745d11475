----------------------------- MODULE IdentityStore -----------------------------
(***************************************************************************)
(* The device identity of the Windows side: a certificate and a protected  *)
(* private key in two files, which every start of the coordinator loads or *)
(* creates, and the TLS context made of them.  Several instances of the    *)
(* program may run; each can be killed at any point, and opening, writing  *)
(* or protecting can fail.                                                 *)
(***************************************************************************)
EXTENDS Integers

CONSTANTS
    Process,  \* instances of the program; one that was killed may be run again
    MaxMade,  \* bound: identities generated
    Absent,   \* a file that does not exist
    Broken    \* the content of a file that is empty or cut short

Identities == 1 .. MaxMade

ASSUME IdentityAssumption ==
    /\ MaxMade \in Nat
    /\ Absent \notin Nat
    /\ Broken \notin Nat
    /\ Absent # Broken

VARIABLES
    certFile,  \* device-cert.pem: Absent, Broken or an identity
    keyFile,   \* device-key.dpapi
    pc,        \* where each process is in its start
    cert,      \* certificate_pem in the memory of each process
    key,       \* private_key_pem in the memory of each process
    unwritten, \* the files each process has still to flush
    made,      \* identities generated so far
    disturbed  \* a creation failed, was killed, or overlapped with another

files == <<certFile, keyFile>>
memory == <<cert, key>>
vars == <<files, memory, pc, unwritten, made, disturbed>>

\* Between the decision that a file is missing and the last flush.
CreatingPcs == {"generate", "openCert", "openKey", "protect", "write"}
Creating(p) == pc[p] \in CreatingPcs

Init ==
    /\ certFile = Absent
    /\ keyFile = Absent
    /\ pc = [p \in Process |-> "off"]
    /\ cert = [p \in Process |-> Broken]
    /\ key = [p \in Process |-> Broken]
    /\ unwritten = [p \in Process |-> {}]
    /\ made = 0
    /\ disturbed = FALSE

Goto(p, label) == pc' = [pc EXCEPT ![p] = label]

\* load_or_create throws, start_coordinator shows the error, and the user may
\* press Start again.
Throw(p) ==
    /\ Goto(p, "off")
    /\ unwritten' = [unwritten EXCEPT ![p] = {}]

------------------------------------------------------------------------------
(* Loading. *)

Start(p) ==
    /\ pc[p] = "off"
    /\ Goto(p, "lookCert")
    /\ UNCHANGED <<files, memory, unwritten, made, disturbed>>

\* A creation that begins while another process is at its own is an accident.
Create(p) ==
    /\ Goto(p, "generate")
    /\ disturbed' = (disturbed \/ \E q \in Process \ {p} : Creating(q))
    /\ UNCHANGED <<files, memory, unwritten, made>>

\* exists(certificate_path) && exists(key_path), from left to right.
LookCert(p) ==
    /\ pc[p] = "lookCert"
    /\ IF certFile = Absent
       THEN Create(p)
       ELSE Goto(p, "lookKey") /\ UNCHANGED <<files, memory, unwritten, made, disturbed>>

\* Mutant: a key file that cannot be used is replaced with the rest.
LookKeyRepairs(p) ==
    /\ pc[p] = "lookKey"
    /\ IF keyFile \notin Identities
       THEN Create(p)
       ELSE Goto(p, "readCert") /\ UNCHANGED <<files, memory, unwritten, made, disturbed>>

\* Mutant: the sense of the second test is lost.
LookKeyInverted(p) ==
    /\ pc[p] = "lookKey"
    /\ IF keyFile # Absent
       THEN Create(p)
       ELSE Goto(p, "readCert") /\ UNCHANGED <<files, memory, unwritten, made, disturbed>>

LookKey(p) ==
    /\ pc[p] = "lookKey"
    /\ IF keyFile = Absent
       THEN Create(p)
       ELSE Goto(p, "readCert") /\ UNCHANGED <<files, memory, unwritten, made, disturbed>>

ReadCert(p) ==
    /\ pc[p] = "readCert"
    /\ cert' = [cert EXCEPT ![p] = certFile]
    /\ Goto(p, "readKey")
    /\ UNCHANGED <<files, key, unwritten, made, disturbed>>

\* unprotect_key refuses a broken key, fingerprint_from_pem a broken certificate.
ReadKey(p) ==
    /\ pc[p] = "readKey"
    /\ key' = [key EXCEPT ![p] = keyFile]
    /\ IF cert[p] \in Identities /\ keyFile \in Identities
       THEN Goto(p, "context") /\ UNCHANGED unwritten
       ELSE Throw(p)
    /\ UNCHANGED <<files, cert, made, disturbed>>

------------------------------------------------------------------------------
(* Creating. *)

Generate(p) ==
    /\ pc[p] = "generate"
    /\ made < MaxMade
    /\ made' = made + 1
    /\ cert' = [cert EXCEPT ![p] = made + 1]
    /\ key' = [key EXCEPT ![p] = made + 1]
    /\ Goto(p, "openCert")
    /\ UNCHANGED <<files, unwritten, disturbed>>

\* Opening truncates.
OpenCert(p) ==
    /\ pc[p] = "openCert"
    /\ certFile' = Broken
    /\ Goto(p, "openKey")
    /\ UNCHANGED <<keyFile, memory, unwritten, made, disturbed>>

OpenKey(p) ==
    /\ pc[p] = "openKey"
    /\ keyFile' = Broken
    /\ Goto(p, "protect")
    /\ UNCHANGED <<certFile, memory, unwritten, made, disturbed>>

\* The code looks at both streams after it has opened both, so a certificate file
\* that cannot be opened still costs the key file its content.
OpenFails(p) ==
    /\ \/ pc[p] = "openCert" /\ keyFile' \in {keyFile, Broken}
       \/ pc[p] = "openKey" /\ UNCHANGED keyFile
    /\ Throw(p)
    /\ disturbed' = TRUE
    /\ UNCHANGED <<certFile, memory, made>>

Protect(p) ==
    /\ pc[p] = "protect"
    /\ unwritten' = [unwritten EXCEPT ![p] = {"cert", "key"}]
    /\ Goto(p, "write")
    /\ UNCHANGED <<files, memory, made, disturbed>>

\* DPAPI refuses: the certificate stream is flushed as it goes out of scope.
ProtectFails(p) ==
    /\ pc[p] = "protect"
    /\ certFile' = cert[p]
    /\ Throw(p)
    /\ disturbed' = TRUE
    /\ UNCHANGED <<keyFile, memory, made>>

\* A stream writes its buffer when it likes, at the latest when it is closed, and
\* nobody asks whether that went well.
FlushCert(p) ==
    /\ pc[p] = "write"
    /\ "cert" \in unwritten[p]
    /\ unwritten' = [unwritten EXCEPT ![p] = @ \ {"cert"}]
    /\ \/ certFile' = cert[p] /\ UNCHANGED disturbed
       \/ certFile' = Broken /\ disturbed' = TRUE
    /\ UNCHANGED <<keyFile, memory, pc, made>>

FlushKey(p) ==
    /\ pc[p] = "write"
    /\ "key" \in unwritten[p]
    /\ unwritten' = [unwritten EXCEPT ![p] = @ \ {"key"}]
    /\ \/ keyFile' = key[p] /\ UNCHANGED disturbed
       \/ keyFile' = Broken /\ disturbed' = TRUE
    /\ UNCHANGED <<certFile, memory, pc, made>>

\* Mutant: the streams are closed some time after the return.
ReturnEarly(p) ==
    /\ pc[p] = "write"
    /\ Goto(p, "context")
    /\ UNCHANGED <<files, memory, unwritten, made, disturbed>>

\* load_or_create returns what it has in memory.
Return(p) ==
    /\ pc[p] = "write"
    /\ unwritten[p] = {}
    /\ Goto(p, "context")
    /\ UNCHANGED <<files, memory, unwritten, made, disturbed>>

------------------------------------------------------------------------------
(* Using. *)

\* Mutant: certificate and key are loaded and not compared.
MakeContextUnchecked(p) ==
    /\ pc[p] = "context"
    /\ Goto(p, "serving")
    /\ UNCHANGED <<files, memory, unwritten, made, disturbed>>

\* Context::server compares certificate and key.
MakeContext(p) ==
    /\ pc[p] = "context"
    /\ Goto(p, IF cert[p] = key[p] THEN "serving" ELSE "off")
    /\ UNCHANGED <<files, memory, unwritten, made, disturbed>>

\* The user presses Stop, or a start fails later, at the port.
Stop(p) ==
    /\ pc[p] = "serving"
    /\ Goto(p, "off")
    /\ UNCHANGED <<files, memory, unwritten, made, disturbed>>

\* The process is killed and run again; its memory is lost.
Kill(p) ==
    /\ pc[p] # "off"
    /\ Throw(p)
    /\ cert' = [cert EXCEPT ![p] = Broken]
    /\ key' = [key EXCEPT ![p] = Broken]
    /\ disturbed' = (disturbed \/ Creating(p))
    /\ UNCHANGED <<files, made>>

Next ==
    \E p \in Process :
        \/ Start(p) \/ LookCert(p) \/ LookKey(p) \/ ReadCert(p) \/ ReadKey(p)
        \/ Generate(p) \/ OpenCert(p) \/ OpenKey(p) \/ OpenFails(p)
        \/ Protect(p) \/ ProtectFails(p) \/ FlushCert(p) \/ FlushKey(p) \/ Return(p)
        \/ MakeContext(p) \/ Stop(p) \/ Kill(p)

Spec == Init /\ [][Next]_vars

------------------------------------------------------------------------------
(* Properties. *)

Pcs == CreatingPcs \cup {"off", "lookCert", "lookKey", "readCert", "readKey",
                         "context", "serving"}
Contents == Identities \cup {Absent, Broken}

\* Every variable keeps its type, and only a process that is writing has files
\* left to flush.
TypeOK ==
    /\ certFile \in Contents
    /\ keyFile \in Contents
    /\ pc \in [Process -> Pcs]
    /\ cert \in [Process -> Contents]
    /\ key \in [Process -> Contents]
    /\ unwritten \in [Process -> SUBSET {"cert", "key"}]
    /\ \A p \in Process : unwritten[p] # {} => pc[p] = "write"
    /\ made \in 0 .. MaxMade
    /\ disturbed \in BOOLEAN

\* A coordinator never listens with a certificate and a key of two identities,
\* however the starts of several processes and their accidents interleave.
ServesMatchedPair ==
    \A p \in Process : pc[p] = "serving" => cert[p] \in Identities /\ cert[p] = key[p]

\* Without an accident, what a process serves is what the files hold, so that the
\* next start serves it again.
ServedIsStored ==
    ~disturbed => \A p \in Process :
        pc[p] = "serving" => certFile = cert[p] /\ keyFile = cert[p]

\* Two files from which no process will ever make a context again.
Stuck ==
    /\ certFile # Absent
    /\ keyFile # Absent
    /\ ~(certFile = keyFile /\ certFile \in Identities)
    /\ \A p \in Process : ~Creating(p)

\* Without an accident, the installation generates one identity only, and is
\* never left with files that cannot be loaded.
GeneratedOnce == ~disturbed => made <= 1 /\ ~Stuck

\* Files that cannot be loaded stay: no start replaces an identity by itself,
\* not even one that nobody can use.
StuckStays == [][Stuck => Stuck']_vars
===============================================================================
