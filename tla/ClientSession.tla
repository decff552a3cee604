--------------------------- MODULE ClientSession ----------------------------
(***************************************************************************)
(* A client's identity and its pin of the server's certificate across      *)
(* connections, crashes and restarts: run_with_reconnect, Session::connect *)
(* and perform_handshake (client/src/session.rs) over client.toml          *)
(* (client/src/config.rs).                                                 *)
(*                                                                         *)
(* A connector is a command-line client (client/src/main.rs) or a connect  *)
(* of the UI; all of one user share the file.  Each loads it, works on its *)
(* own copy while it connects, and writes the copy back when the server    *)
(* has accepted it.  The UI's forget_server edits the file beside them.    *)
(* The session itself, once it runs, is the business of Forwarding.        *)
(***************************************************************************)
EXTENDS Integers, FiniteSets

CONSTANTS Connector,  \* programs that connect with one client.toml
          Secret,     \* client_secret values that may be generated
          Cert,       \* fingerprints of the certificates the server may have
          Demands,    \* what users may ask of the certificate: see Required
          Stored,     \* ... that it match the pin on file, the normal case
          Any,        \* ... nothing (--trust-new-cert)
          Ui,         \* the UI's command, as a holder of a copy
          MaxBackoff, \* MAX_BACKOFF
          Unset       \* an unset field

ASSUME SetAssumption == /\ Unset \notin Secret \cup Cert
                        /\ "garbled" \notin Secret \cup {Unset}
                        /\ Ui \notin Connector
                        /\ Stored \in Demands /\ Demands \subseteq Cert \cup {Stored, Any}
ASSUME BackoffAssumption == MaxBackoff \in Nat \ {0}

VARIABLES pc,       \* where each connector stands
          mem,      \* its copy of the config
          demand,   \* what its user asked of the certificate
          seen,     \* the certificate its connection presented
          backoff,  \* its next delay
          once,     \* connectors that do not retry (--no-reconnect, --send-file)
          ui,       \* where forget_server stands
          uiMem,    \* its copy of the config
          stale,    \* programs whose copy was read while another wrote the file,
                    \*   or before a torn write undid it
          file,     \* client.toml
          known,    \* the config saved last, until a torn write destroys it
          cert,     \* the server's certificate
          paired,   \* secrets behind the server's paired_devices
          dropped,  \* secrets that were, and that the server has lost since
          lockedOut, \* the server's rate limiter blocks the client's address
          issued,   \* secrets generated so far
          serverUp  \* the server can be reached

server  == <<cert, paired, dropped, lockedOut, serverUp>>
forget  == <<ui, uiMem>>
clientVars == <<pc, mem, demand, seen, backoff, once, forget, stale, file, known, issued, server>>

Config  == [secret : Secret \cup {Unset}, pin : Cert \cup {Unset}]
Default == [secret |-> Unset, pin |-> Unset]
Broken  == [secret |-> "garbled", pin |-> "garbled"]

Places == {"off", "load", "moving", "dial", "hello", "request", "accepted", "save",
           "write", "astray", "run", "wait", "cut", "stalled", "mismatch", "version", "rejected"}

ClientTypeOK ==
    /\ pc \in [Connector -> Places]
    /\ mem \in [Connector -> Config]
    /\ demand \in [Connector -> Demands]
    /\ seen \in [Connector -> Cert \cup {Unset}]
    /\ backoff \in [Connector -> 1..MaxBackoff]
    /\ once \subseteq Connector
    /\ ui \in {"idle", "moving", "save", "write", "astray"} /\ uiMem \in Config
    /\ stale \subseteq Connector \cup {Ui}
    /\ file \in Config \cup {Broken}
    /\ known \in Config
    /\ cert \in Cert
    /\ paired \subseteq issued
    /\ dropped \subseteq issued
    /\ lockedOut \in BOOLEAN
    /\ issued \subseteq Secret
    /\ serverUp \in BOOLEAN

ClientInit ==
    /\ pc = [p \in Connector |-> "off"]
    /\ mem = [p \in Connector |-> Default]
    /\ demand = [p \in Connector |-> Stored]
    /\ seen = [p \in Connector |-> Unset]
    /\ backoff = [p \in Connector |-> 1]
    /\ once = {}
    /\ ui = "idle" /\ uiMem = Default
    /\ stale = {}
    /\ file = Default
    /\ known = Default
    /\ cert \in Cert
    /\ paired = {}
    /\ dropped = {}
    /\ lockedOut = FALSE
    /\ issued = {}
    /\ serverUp = TRUE

rest == <<once, forget, stale>>

Goto(p, place) == pc' = [pc EXCEPT ![p] = place]

-----------------------------------------------------------------------------
(* Connecting.                                                             *)

\* The program is started, again after a crash or an error that ended it.
Start(p) ==
    /\ pc[p] \in {"off", "mismatch", "version", "rejected"}
    /\ Goto(p, "load")
    /\ backoff' = [backoff EXCEPT ![p] = 1]
    /\ \E d \in Demands : demand' = [demand EXCEPT ![p] = d]
    /\ once' \in {once \cup {p}, once \ {p}}
    /\ UNCHANGED <<mem, seen, forget, stale, file, known, issued, server>>

\* Somebody else has truncated the file and not written it yet.
BeingWritten(p) == ui = "write" \/ \E q \in Connector \ {p} : pc[q] = "write"

Parsed == IF file = Broken THEN Default ELSE file

\* load_or_default: a missing or empty file is the default config, and so is
\* one that does not parse, which is moved away next.
Load(p) ==
    /\ pc[p] = "load"
    /\ mem' = [mem EXCEPT ![p] = Parsed]
    /\ stale' = IF BeingWritten(p) THEN stale \cup {p} ELSE stale \ {p}
    /\ Goto(p, IF file = Broken THEN "moving" ELSE "dial")
    /\ UNCHANGED <<demand, seen, backoff, once, forget, file, known, issued, server>>

\* Programs that hold a copy of what they loaded.
Holders == (IF ui = "idle" THEN {} ELSE {Ui})
           \cup {q \in Connector : pc[q] \in {"moving", "dial", "hello", "request", "accepted",
                                              "save", "write"}}

\* The rename: whatever the file holds by now is gone, and who has it open
\* writes to the backup.
FileMoved ==
    /\ file' = Default
    /\ known' = Default
    /\ stale' = IF known = Default THEN stale ELSE stale \cup Holders

MoveAway(p) ==
    /\ pc[p] = "moving"
    /\ FileMoved
    /\ pc' = [q \in Connector |-> IF q = p THEN "dial"
                                 ELSE IF pc[q] = "write" THEN "astray" ELSE pc[q]]
    /\ ui' = IF ui = "write" THEN "astray" ELSE ui
    /\ UNCHANGED <<mem, demand, seen, backoff, once, uiMem, issued, server>>

\* It fails, which is logged: the broken file stays where it is.
MoveFails(p) ==
    /\ pc[p] = "moving"
    /\ Goto(p, "dial")
    /\ UNCHANGED <<mem, demand, seen, backoff, file, known, issued, server, rest>>

\* The fingerprint the certificate must have, if any: --fingerprint before
\* --trust-new-cert before the pin.
Required(p) == IF demand[p] = Stored THEN mem[p].pin
               ELSE IF demand[p] = Any THEN Unset ELSE demand[p]

\* Mutant: the certificate is not compared with the pin.
DialUnpinned(p) ==
    /\ pc[p] = "dial" /\ serverUp
    /\ seen' = [seen EXCEPT ![p] = cert]
    /\ Goto(p, "hello")
    /\ UNCHANGED <<mem, demand, backoff, file, known, issued, server, rest>>

Dial(p) ==
    /\ pc[p] = "dial" /\ serverUp
    /\ Required(p) \in {Unset, cert}
    /\ seen' = [seen EXCEPT ![p] = cert]
    /\ Goto(p, "hello")
    /\ UNCHANGED <<mem, demand, backoff, file, known, issued, server, rest>>

DialMismatch(p) ==
    /\ pc[p] = "dial" /\ serverUp
    /\ Required(p) \notin {Unset, cert}
    /\ Goto(p, "mismatch")
    /\ UNCHANGED <<mem, demand, seen, backoff, file, known, issued, server, rest>>

\* The server has another protocol version.  (Its other errors are retried: to
\* the client they are a connection that ends.)
HelloRefused(p) ==
    /\ pc[p] = "hello" /\ serverUp
    /\ Goto(p, "version")
    /\ UNCHANGED <<mem, demand, seen, backoff, file, known, issued, server, rest>>

\* Mutant: a new secret for every connection.
HelloAckedAnew(p) ==
    /\ pc[p] = "hello" /\ serverUp
    /\ \E s \in Secret \ issued :
         /\ mem' = [mem EXCEPT ![p].secret = s]
         /\ issued' = issued \cup {s}
    /\ Goto(p, "request")
    /\ UNCHANGED <<demand, seen, backoff, file, known, server, rest>>

\* HelloAck: a secret is generated if there is none, and PairRequest sent.
HelloAcked(p) ==
    /\ pc[p] = "hello" /\ serverUp
    /\ \/ /\ mem[p].secret # Unset
          /\ UNCHANGED <<mem, issued>>
       \/ /\ mem[p].secret = Unset
          /\ \E s \in Secret \ issued :
               /\ mem' = [mem EXCEPT ![p].secret = s]
               /\ issued' = issued \cup {s}
    /\ Goto(p, "request")
    /\ UNCHANGED <<demand, seen, backoff, file, known, server, rest>>

\* Mutant: the device is accepted, but not remembered.
ServerForgets(p) ==
    /\ pc[p] = "request" /\ serverUp /\ ~lockedOut
    /\ Goto(p, "accepted")
    /\ UNCHANGED <<mem, demand, seen, backoff, file, known, issued, server, rest>>

\* The server knows the device, or the proof matches and it now does.
ServerAccepts(p) ==
    /\ pc[p] = "request" /\ serverUp /\ ~lockedOut
    /\ paired' = paired \cup {mem[p].secret}
    /\ dropped' = dropped \ {mem[p].secret}
    /\ Goto(p, "accepted")
    /\ UNCHANGED <<mem, demand, seen, backoff, file, known, cert, lockedOut, issued, serverUp,
                   rest>>

\* The address is locked out, which is tested before the device is looked up;
\* or the device is not known and the PIN is missing or wrong.
ServerRejects(p) ==
    /\ pc[p] = "request" /\ serverUp
    /\ lockedOut \/ mem[p].secret \notin paired
    /\ Goto(p, "rejected")
    /\ UNCHANGED <<mem, demand, seen, backoff, file, known, issued, server, rest>>

\* PairAccept arrives, maybe as the last word of a server that is gone:
\* connect records the pin and returns.
RecvPairAccept(p) ==
    /\ pc[p] = "accepted"
    /\ mem' = [mem EXCEPT ![p].pin = seen[p]]
    /\ backoff' = [backoff EXCEPT ![p] = 1]
    /\ Goto(p, "save")
    /\ UNCHANGED <<demand, seen, file, known, issued, server, rest>>

\* Where a program goes whose connection failed or whose session ended.
Again(p) == Goto(p, IF p \in once THEN "off" ELSE "wait")

\* Any error that is not fatal; the copy of the config is dropped.
ConnectFails(p) ==
    /\ \/ pc[p] = "cut"
       \/ pc[p] \in {"dial", "accepted"} /\ ~serverUp
    /\ Again(p)
    /\ UNCHANGED <<mem, demand, seen, backoff, file, known, issued, server, rest>>

\* The other end says nothing more and does not close the connection.  No
\* read of connect has a deadline, and it does not look at the cancel token.
HandshakeStalls(p) ==
    /\ pc[p] \in {"dial", "hello", "request", "accepted", "cut"}
    /\ Goto(p, "stalled")
    /\ UNCHANGED <<mem, demand, seen, backoff, file, known, issued, server, rest>>

\* It is reset after all.
StallEnds(p) ==
    /\ pc[p] = "stalled"
    /\ Again(p)
    /\ UNCHANGED <<mem, demand, seen, backoff, file, known, issued, server, rest>>

-----------------------------------------------------------------------------
(* Saving: fs::write truncates the file and then writes it.                *)

\* conf is written over what is there: on an empty file, as a rule, but a
\* longer text of another program that wrote in between leaves its end.
\* What replaces the identity makes the other copies stale.
WriteOver(who, conf) ==
    /\ file' \in IF file = Default THEN {conf} ELSE {conf, Broken}
    /\ known' = IF file' = Broken THEN Default ELSE conf
    /\ stale' = IF who \in stale \/ file' = Broken THEN stale \cup Holders ELSE stale

\* A crash inside fs::write, or a write that fails midway, leaves an empty file
\* or a part of the content: what was saved before is lost.
TornWrite ==
    /\ file' \in {Default, Broken}
    /\ known' = Default
    /\ stale' = stale \cup Holders

SaveTruncate(p) ==
    /\ pc[p] = "save"
    /\ file' = Default
    /\ Goto(p, "write")
    /\ UNCHANGED <<mem, demand, seen, backoff, known, issued, server, rest>>

SaveWrite(p) ==
    /\ pc[p] = "write"
    /\ WriteOver(p, mem[p])
    /\ Goto(p, "run")
    /\ UNCHANGED <<mem, demand, seen, backoff, once, forget, issued, server>>

\* What the rename has moved away is written beside the file.
SaveAstray(p) ==
    /\ pc[p] = "astray"
    /\ Goto(p, "run")
    /\ UNCHANGED <<mem, demand, seen, backoff, file, known, issued, server, rest>>

\* The disk is full; the failure is logged and the session runs.
WriteFails(p) ==
    /\ pc[p] = "write"
    /\ TornWrite
    /\ Goto(p, "run")
    /\ UNCHANGED <<mem, demand, seen, backoff, once, forget, issued, server>>

\* The file cannot be opened; the failure is logged and the session runs.
SaveFails(p) ==
    /\ pc[p] = "save"
    /\ Goto(p, "run")
    /\ UNCHANGED <<mem, demand, seen, backoff, file, known, issued, server, rest>>

-----------------------------------------------------------------------------
(* Running, retrying and ending.                                           *)

RunEnds(p) ==
    /\ pc[p] = "run"
    /\ Again(p)
    /\ UNCHANGED <<mem, demand, seen, backoff, file, known, issued, server, rest>>

\* Mutant: the loop gives up at the largest delay.
WaitGivesUp(p) ==
    /\ pc[p] = "wait" /\ backoff[p] < MaxBackoff
    /\ backoff' = [backoff EXCEPT ![p] = IF 2 * @ < MaxBackoff THEN 2 * @ ELSE MaxBackoff]
    /\ Goto(p, "load")
    /\ UNCHANGED <<mem, demand, seen, file, known, issued, server, rest>>

WaitOver(p) ==
    /\ pc[p] = "wait"
    /\ backoff' = [backoff EXCEPT ![p] = IF 2 * @ < MaxBackoff THEN 2 * @ ELSE MaxBackoff]
    /\ Goto(p, "load")
    /\ UNCHANGED <<mem, demand, seen, file, known, issued, server, rest>>

Cancel(p) ==
    /\ pc[p] \in {"run", "wait"}
    /\ Goto(p, "off")
    /\ UNCHANGED <<mem, demand, seen, backoff, file, known, issued, server, rest>>

Crash(p) ==
    /\ pc[p] \notin {"off", "mismatch", "version", "rejected", "write"}
    /\ Goto(p, "off")
    /\ UNCHANGED <<mem, demand, seen, backoff, file, known, issued, server, rest>>

CrashWriting(p) ==
    /\ pc[p] = "write"
    /\ TornWrite
    /\ Goto(p, "off")
    /\ UNCHANGED <<mem, demand, seen, backoff, once, forget, issued, server>>

-----------------------------------------------------------------------------
(* forget_server of the UI: load, remove the pin, and save if there was    *)
(* one.                                                                    *)

ForgetServer ==
    /\ ui = "idle"
    /\ \/ file = Broken /\ ui' = "moving" /\ UNCHANGED <<uiMem, stale>>
       \/ /\ Parsed.pin # Unset
          /\ ui' = "save"
          /\ uiMem' = [Parsed EXCEPT !.pin = Unset]
          /\ stale' = stale \ {Ui}
    /\ UNCHANGED <<pc, mem, demand, seen, backoff, once, file, known, issued, server>>

\* The broken file is moved away, and there is no pin to remove.
ForgetMoves ==
    /\ ui = "moving"
    /\ FileMoved
    /\ pc' = [q \in Connector |-> IF pc[q] = "write" THEN "astray" ELSE pc[q]]
    /\ ui' = "idle"
    /\ UNCHANGED <<mem, demand, seen, backoff, once, uiMem, issued, server>>

ForgetTruncate ==
    /\ ui = "save"
    /\ file' = Default
    /\ ui' = "write"
    /\ UNCHANGED <<pc, mem, demand, seen, backoff, once, uiMem, stale, known, issued, server>>

ForgetWrite ==
    /\ ui = "write"
    /\ WriteOver(Ui, uiMem)
    /\ ui' = "idle" /\ uiMem' = Default
    /\ UNCHANGED <<pc, mem, demand, seen, backoff, once, issued, server>>

\* The UI crashes in between, its rename or its save fails, or what it writes
\* has been moved away.
ForgetFails ==
    /\ ui # "idle"
    /\ IF ui = "write" THEN TornWrite ELSE UNCHANGED <<file, known, stale>>
    /\ ui' = "idle" /\ uiMem' = Default
    /\ UNCHANGED <<pc, mem, demand, seen, backoff, once, issued, server>>

-----------------------------------------------------------------------------
(* The server goes away, comes back, comes back with a new key or without  *)
(* some of its devices, or has had enough of the client's address.         *)

\* Its connections are gone with it, and the failures it counted; an answer
\* already sent may arrive.
ServerDown ==
    /\ serverUp
    /\ serverUp' = FALSE
    /\ lockedOut' = FALSE
    /\ pc' = [p \in Connector |-> IF pc[p] \in {"hello", "request"} THEN "cut" ELSE pc[p]]
    /\ UNCHANGED <<mem, demand, seen, backoff, file, known, cert, paired, dropped, issued, rest>>

\* A device is lost that was revoked, or whose save failed (see ServerStore).
ServerReturns ==
    /\ ~serverUp
    /\ serverUp' = TRUE
    /\ cert' \in Cert
    /\ \E lost \in SUBSET paired : paired' = paired \ lost /\ dropped' = dropped \cup lost
    /\ UNCHANGED <<pc, mem, demand, seen, backoff, file, known, lockedOut, issued, rest>>

\* Failed proofs from the address, of this device or of another behind it.
AddressLocked ==
    /\ serverUp /\ ~lockedOut
    /\ lockedOut' = TRUE
    /\ UNCHANGED <<pc, mem, demand, seen, backoff, file, known, cert, paired, dropped, issued,
                   serverUp, rest>>

LockoutEnds ==
    /\ lockedOut
    /\ lockedOut' = FALSE
    /\ UNCHANGED <<pc, mem, demand, seen, backoff, file, known, cert, paired, dropped, issued,
                   serverUp, rest>>

Steps(p) ==
    \/ Load(p) \/ MoveAway(p) \/ MoveFails(p) \/ Dial(p) \/ DialMismatch(p)
    \/ HelloRefused(p) \/ HelloAcked(p) \/ ServerAccepts(p) \/ ServerRejects(p)
    \/ RecvPairAccept(p) \/ ConnectFails(p) \/ WaitOver(p)
    \/ SaveTruncate(p) \/ SaveWrite(p) \/ SaveFails(p) \/ SaveAstray(p)

ClientNext ==
    \/ \E p \in Connector :
         \/ Start(p) \/ Steps(p) \/ RunEnds(p) \/ Cancel(p) \/ Crash(p) \/ CrashWriting(p)
         \/ WriteFails(p) \/ HandshakeStalls(p) \/ StallEnds(p)
    \/ ForgetServer \/ ForgetMoves \/ ForgetTruncate \/ ForgetWrite \/ ForgetFails
    \/ ServerDown \/ ServerReturns \/ AddressLocked \/ LockoutEnds

\* Timers fire, and a reachable server answers.
ClientFairness == \A p \in Connector : WF_clientVars(Steps(p))

ClientSpec == ClientInit /\ [][ClientNext]_clientVars /\ ClientFairness

-----------------------------------------------------------------------------
(* Properties.                                                             *)

\* The secret is "Generated once on first run via ensure_client_secret and
\* persisted from then on" (Config::client_secret): once a config with a
\* secret has been saved, every later one has the same secret, across failed
\* attempts, crashes between the steps, restarts and edits by the UI.  Only an
\* fs::write that is cut short loses it, a program that loaded the file in the
\* middle of one, and a program that found the file broken and moves away what
\* has been saved since.
IdentityKept ==
    [][known.secret # Unset /\ known'.secret # known.secret
         => \/ ui \in {"write", "moving"} /\ Ui \in stale'
            \/ \E p \in Connector \cap stale' : pc[p] \in {"write", "moving"}]_clientVars

\* A pinned certificate is only ever replaced by another through a connector
\* that was told to trust a new one, or given its fingerprint, or found no
\* pin on file because it was just being written.
PinKept ==
    [][known.pin # Unset /\ known'.pin \notin {Unset, known.pin}
         => \E p \in Connector : pc[p] = "write" /\ (demand[p] # Stored \/ p \in stale)]_clientVars

\* A client that has paired and saved its secret is not asked for the PIN
\* again: it is rejected only if
\*   - its address is locked out, which the server tests before it looks the
\*     device up,
\*   - the server has lost the device it had accepted,
\*   - no save of the client ever succeeded or its file was lost, or
\*   - its copy is stale: the file was read while it was being written.
NeverAskedAgain ==
    [][\A p \in Connector \ stale :
          pc[p] = "request" /\ pc'[p] = "rejected"
            => lockedOut \/ known.secret \in dropped \cup {Unset}]_clientVars

\* Reconnecting is tried again "uncapped": if the server stays reachable, a
\* connector that keeps going is in a session again and again, unless a fatal
\* error (every PairReject is one, that of a lockout too) or its user ended it,
\* or it waits for a server that fell silent in the middle of the handshake.
\* (A finite Secret can run out.)
RetriesForEver ==
    \A p \in Connector :
        <>[](serverUp /\ issued # Secret)
            => []<>(pc[p] \in {"off", "run", "stalled", "mismatch", "version", "rejected"})
=============================================================================
