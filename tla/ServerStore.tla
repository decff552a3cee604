---------------------------- MODULE ServerStore -----------------------------
(***************************************************************************)
(* What the server keeps on disk: server.toml with the paired devices      *)
(* (server/src/config.rs) and server.crt with server.key                   *)
(* (server/src/tls.rs), between a server that runs, stops, crashes and is  *)
(* started again, and an administrator who runs the same program with      *)
(* --revoke or --list-paired (server/src/main.rs).                         *)
(*                                                                         *)
(* Each process loads server.toml once, works on its copy and writes the   *)
(* whole copy back.  fs::write is two steps, as it truncates the file      *)
(* first.  The server saves under its config lock, so one save at a time;  *)
(* nothing orders the two processes.  A save of server.toml that fails is  *)
(* logged and the process goes on; any other step that returns an error    *)
(* ends its process, as a crash at the same place does.                    *)
(***************************************************************************)
EXTENDS FiniteSets

CONSTANTS Device,  \* fingerprints of clients
          Cert,    \* key pairs that may be generated
          Missing, \* a file that is not there
          Empty,   \* a file that has been truncated
          Garbled, \* a file with half a text, or two
          None     \* no device, no certificate

ASSUME ValueAssumption ==
    /\ Cardinality({Missing, Empty, Garbled, None}) = 4
    /\ \A v \in {Missing, Empty, Garbled, None} :
         v \notin Device \cup Cert /\ \A S \in SUBSET Device : S # v

Proc == {"server", "admin"}

VARIABLES toml,      \* server.toml: a set of devices once written
          crt, key,  \* server.crt and server.key
          pc,        \* where each process stands
          existed,   \* config_existed of each process
          mem,       \* its copy of paired_devices
          target,    \* the device it pairs or revokes
          fresh,     \* the key pair the server has generated
          issued,    \* key pairs generated so far
          served,    \* history: the certificate clients have seen
          confirmed, \* history: devices told PairAccept after a save
          revoked,   \* history: devices revoked while no server ran, and not
                     \*   paired since
          alone,     \* history: no server ran since the admin process loaded
          torn,      \* history: some fs::write was cut off or met another
          mixed      \* history: the two processes have run at once

files  == <<toml, crt, key>>
hist   == <<served, confirmed, revoked, torn>>
vars   == <<files, pc, existed, mem, target, fresh, issued, hist, alone, mixed>>

Down     == {"off", "failed"}
Loaded   == {"main", "save", "write", "crt", "crtWrite", "key", "keyWrite", "tls",
             "serving", "accept"}

TypeOK ==
    /\ toml \in {Missing, Empty, Garbled} \/ toml \subseteq Device
    /\ crt \in {Missing, Empty, Garbled} \cup Cert
    /\ key \in {Missing, Empty, Garbled} \cup Cert
    /\ pc \in [Proc -> Down \cup {"load"} \cup Loaded]
    /\ existed \in [Proc -> BOOLEAN]
    /\ mem \in [Proc -> SUBSET Device]
    /\ target \in [Proc -> Device \cup {None}]
    /\ fresh \in Cert \cup {None}
    /\ issued \subseteq Cert
    /\ served \in Cert \cup {None}
    /\ confirmed \subseteq Device
    /\ revoked \subseteq Device
    /\ alone \in BOOLEAN /\ torn \in BOOLEAN /\ mixed \in BOOLEAN

Init ==
    /\ toml = Missing /\ crt = Missing /\ key = Missing
    /\ pc = [p \in Proc |-> "off"]
    /\ existed = [p \in Proc |-> FALSE]
    /\ mem = [p \in Proc |-> {}]
    /\ target = [p \in Proc |-> None]
    /\ fresh = None /\ issued = {} /\ served = None
    /\ confirmed = {} /\ revoked = {}
    /\ alone = FALSE /\ torn = FALSE /\ mixed = FALSE

Goto(p, place) == pc' = [pc EXCEPT ![p] = place]

-----------------------------------------------------------------------------
(* main, for both processes.                                               *)

\* The program is started: the server, or --revoke d, or --list-paired.
Start(p, d) ==
    /\ pc[p] \in Down
    /\ p = "server" => d = None
    /\ existed' = [existed EXCEPT ![p] = toml # Missing]
    /\ target' = [target EXCEPT ![p] = d]
    /\ Goto(p, "load")
    /\ alone' = (p = "admin" /\ pc["server"] \in Down)
    /\ mixed' = (mixed \/ \E q \in Proc \ {p} : pc[q] \notin Down)
    /\ UNCHANGED <<files, mem, fresh, issued, hist>>

\* load_or_default: a missing or empty file is the default config, which
\* knows no device; one that does not parse ends the program.  If the file
\* was not there when the program looked, the defaults are written.
Load(p) ==
    /\ pc[p] = "load" /\ toml # Garbled
    /\ mem' = [mem EXCEPT ![p] = IF toml \in {Missing, Empty} THEN {} ELSE toml]
    /\ Goto(p, IF existed[p] THEN "main" ELSE "save")
    /\ UNCHANGED <<files, existed, target, fresh, issued, hist, alone, mixed>>

LoadFails(p) ==
    /\ pc[p] = "load" /\ toml = Garbled
    /\ Goto(p, "failed")
    /\ UNCHANGED <<files, existed, mem, target, fresh, issued, hist, alone, mixed>>

\* Where the process goes on after a save that it survived: the defaults were
\* written, a device was paired, or one was revoked.
AfterSave(p) == IF ~existed[p] THEN "main"
                ELSE IF p = "server" THEN "accept" ELSE "off"

SaveTruncate(p) ==
    /\ pc[p] = "save"
    /\ toml' = Empty
    /\ Goto(p, "write")
    /\ UNCHANGED <<crt, key, existed, mem, target, fresh, issued, hist, alone, mixed>>

\* The text is written from the start of the file; over another's text, it
\* may leave the end of that behind.
SaveWrite(p) ==
    /\ pc[p] = "write"
    /\ toml' \in {mem[p]} \cup (IF toml = Empty THEN {} ELSE {Garbled})
    /\ torn' = (torn \/ toml' = Garbled)
    /\ revoked' = IF p = "admin" /\ existed[p] /\ alone
                    THEN revoked \cup {target[p]} ELSE revoked
    /\ Goto(p, AfterSave(p))
    /\ existed' = [existed EXCEPT ![p] = TRUE]
    /\ UNCHANGED <<crt, key, mem, target, fresh, issued, served, confirmed, alone, mixed>>

\* ... and after one that failed.
AfterFailure(p) == IF p = "server" /\ existed[p] THEN "serving" ELSE AfterSave(p)

\* The file cannot be opened: logged, and the process goes on; what a client
\* is then told was not saved.
SaveFails(p) ==
    /\ pc[p] = "save"
    /\ Goto(p, AfterFailure(p))
    /\ existed' = [existed EXCEPT ![p] = TRUE]
    /\ UNCHANGED <<files, mem, target, fresh, issued, hist, alone, mixed>>

\* What is left of server.toml by a write that is cut short: nothing of the
\* text, a part that does not parse, or one that ends between two devices.
Remains(p) == {toml, Garbled} \cup SUBSET mem[p]

\* The write fails midway, to the same effect but for the file.
WriteFails(p) ==
    /\ pc[p] = "write"
    /\ toml' \in Remains(p)
    /\ torn' = TRUE
    /\ Goto(p, AfterFailure(p))
    /\ existed' = [existed EXCEPT ![p] = TRUE]
    /\ UNCHANGED <<crt, key, mem, target, fresh, issued, served, confirmed, revoked, alone,
                   mixed>>

-----------------------------------------------------------------------------
(* --revoke and --list-paired.                                             *)

\* Mutant: the config is saved before the device is removed from it.
RevokeLate ==
    /\ pc["admin"] = "main" /\ target["admin"] \in mem["admin"]
    /\ confirmed' = confirmed \ {target["admin"]}
    /\ Goto("admin", "save")
    /\ UNCHANGED <<files, existed, mem, target, fresh, issued, served, revoked, torn,
                   alone, mixed>>

Revoke ==
    /\ pc["admin"] = "main" /\ target["admin"] \in mem["admin"]
    /\ mem' = [mem EXCEPT !["admin"] = @ \ {target["admin"]}]
    /\ confirmed' = confirmed \ {target["admin"]}
    /\ Goto("admin", "save")
    /\ UNCHANGED <<files, existed, target, fresh, issued, served, revoked, torn,
                   alone, mixed>>

\* The list is printed, or the device is not on it.
NothingToRevoke ==
    /\ pc["admin"] = "main" /\ target["admin"] \notin mem["admin"]
    /\ Goto("admin", "off")
    /\ UNCHANGED <<files, existed, mem, target, fresh, issued, hist, alone, mixed>>

-----------------------------------------------------------------------------
(* setup_tls_server: both files are generated unless both are there.       *)

\* Mutant: a key pair is generated only if neither file is there.
CertCheckNeither ==
    /\ pc["server"] = "main"
    /\ Goto("server", IF crt = Missing /\ key = Missing THEN "crt" ELSE "tls")
    /\ UNCHANGED <<files, existed, mem, target, fresh, issued, hist, alone, mixed>>

\* Mutant: a key pair is generated at every start.
CertCheckNever ==
    /\ pc["server"] = "main"
    /\ Goto("server", "crt")
    /\ UNCHANGED <<files, existed, mem, target, fresh, issued, hist, alone, mixed>>

CertCheck ==
    /\ pc["server"] = "main"
    /\ Goto("server", IF crt = Missing \/ key = Missing THEN "crt" ELSE "tls")
    /\ UNCHANGED <<files, existed, mem, target, fresh, issued, hist, alone, mixed>>

\* generate_certificates: each file is truncated and then written.
CrtTruncate ==
    /\ pc["server"] = "crt"
    /\ \E c \in Cert \ issued : fresh' = c /\ issued' = issued \cup {c}
    /\ crt' = Empty
    /\ Goto("server", "crtWrite")
    /\ UNCHANGED <<toml, key, existed, mem, target, hist, alone, mixed>>

CrtWrite ==
    /\ pc["server"] = "crtWrite"
    /\ crt' = fresh
    /\ Goto("server", "key")
    /\ UNCHANGED <<toml, key, existed, mem, target, fresh, issued, hist, alone, mixed>>

KeyTruncate ==
    /\ pc["server"] = "key"
    /\ key' = Empty
    /\ Goto("server", "keyWrite")
    /\ UNCHANGED <<toml, crt, existed, mem, target, fresh, issued, hist, alone, mixed>>

KeyWrite ==
    /\ pc["server"] = "keyWrite"
    /\ key' = fresh
    /\ Goto("server", "tls")
    /\ UNCHANGED <<toml, crt, existed, mem, target, fresh, issued, hist, alone, mixed>>

\* load_certs and load_private_key: clients now see the certificate.
LoadTls ==
    /\ pc["server"] = "tls" /\ {crt, key} \subseteq Cert
    /\ served' = crt
    /\ Goto("server", "serving")
    /\ UNCHANGED <<files, existed, mem, target, fresh, issued, confirmed, revoked, torn,
                   alone, mixed>>

LoadTlsFails ==
    /\ pc["server"] = "tls" /\ ~({crt, key} \subseteq Cert)
    /\ Goto("server", "failed")
    /\ UNCHANGED <<files, existed, mem, target, fresh, issued, hist, alone, mixed>>

-----------------------------------------------------------------------------
(* The running server.  A device it knows is accepted without a proof.     *)

\* Mutant: the config is saved before the device is added to it.
PairLate(d) ==
    /\ pc["server"] = "serving" /\ d \notin mem["server"]
    /\ target' = [target EXCEPT !["server"] = d]
    /\ revoked' = revoked \ {d}
    /\ Goto("server", "save")
    /\ UNCHANGED <<files, existed, mem, fresh, issued, served, confirmed, torn, alone, mixed>>

\* A proof of the PIN: the device is added, the config saved ...
Pair(d) ==
    /\ pc["server"] = "serving" /\ d \notin mem["server"]
    /\ mem' = [mem EXCEPT !["server"] = @ \cup {d}]
    /\ target' = [target EXCEPT !["server"] = d]
    /\ revoked' = revoked \ {d}
    /\ Goto("server", "save")
    /\ UNCHANGED <<files, existed, fresh, issued, served, confirmed, torn, alone, mixed>>

\* ... and the client told.
Accept ==
    /\ pc["server"] = "accept"
    /\ confirmed' = confirmed \cup {target["server"]}
    /\ Goto("server", "serving")
    /\ UNCHANGED <<files, existed, mem, target, fresh, issued, served, revoked, torn,
                   alone, mixed>>

-----------------------------------------------------------------------------
(* Processes that end.                                                     *)

\* ctrl_c, an error, or a crash outside fs::write.
Stop(p) ==
    /\ pc[p] \notin Down \cup {"write", "crtWrite", "keyWrite"}
    /\ Goto(p, "off")
    /\ UNCHANGED <<files, existed, mem, target, fresh, issued, hist, alone, mixed>>

\* A crash inside fs::write leaves nothing of the text, or a part of it; so does
\* a write of the certificate or the key that fails, which ends the program.
CrashWriting(p) ==
    /\ \/ pc[p] = "write"    /\ toml' \in Remains(p) /\ UNCHANGED <<crt, key>>
       \/ pc[p] = "crtWrite" /\ crt' \in {crt, Garbled} /\ UNCHANGED <<toml, key>>
       \/ pc[p] = "keyWrite" /\ key' \in {key, Garbled} /\ UNCHANGED <<toml, crt>>
    /\ torn' = TRUE
    /\ Goto(p, "off")
    /\ UNCHANGED <<existed, mem, target, fresh, issued, served, confirmed, revoked,
                   alone, mixed>>

-----------------------------------------------------------------------------
Next ==
    \/ \E p \in Proc :
         \/ \E d \in Device \cup {None} : Start(p, d)
         \/ Load(p) \/ LoadFails(p)
         \/ SaveTruncate(p) \/ SaveWrite(p) \/ SaveFails(p)
         \/ WriteFails(p) \/ Stop(p) \/ CrashWriting(p)
    \/ Revoke \/ NothingToRevoke
    \/ CertCheck \/ CrtTruncate \/ CrtWrite \/ KeyTruncate \/ KeyWrite
    \/ LoadTls \/ LoadTlsFails
    \/ \E d \in Device : Pair(d)
    \/ Accept

Spec == Init /\ [][Next]_vars

-----------------------------------------------------------------------------
(* Properties.                                                             *)

\* "Revoke a device by fingerprint and exit" (--revoke): a device that was
\* revoked while no server ran is unknown to every later server, and must
\* prove the PIN again, through crashes, failed and torn saves.  A revocation
\* beside a running server promises nothing: the server goes on with its copy,
\* and writes it back when it next pairs a device.
RevokedNeedsPin ==
    pc["server"] \in Loaded => mem["server"] \cap revoked = {}

\* A device that was told PairAccept after a save is known to every later
\* server unless it is revoked.  What can take it away is a write that was cut
\* off, and an administrator's process at the same time, which may write an
\* older copy or be in the middle of a write when the server loads.
PairingsSurvive ==
    ~torn /\ ~mixed /\ pc["server"] \in Loaded => confirmed \subseteq mem["server"]

\* Clients pin the certificate, so a server that has shown one shows the same
\* ever after: a crash between the two files may cost a key pair that nobody
\* has seen, never one in use.
CertKept == [][served # None => served' = served]_vars

\* The program starts again after a crash at any place outside fs::write,
\* the one between server.crt and server.key included: it refuses to start only
\* if a write was cut off, or met the other process's.
StartFailsOnlyTorn == \A p \in Proc : pc[p] = "failed" => torn
=============================================================================
