------------------------------- MODULE Server -------------------------------
(***************************************************************************)
(* The life of a control connection in kvm-server: run_server's accept     *)
(* loop, the task it spawns per connection, and handle_client, from the    *)
(* TLS handshake through Hello, pairing and registration to the message    *)
(* loop and the exit path.  Tasks run on a multi-threaded runtime, so      *)
(* every shared access (semaphore, config lock, registry mutex, atomic     *)
(* flag) is a step of its own and steps of different tasks interleave.     *)
(*                                                                         *)
(* Envelopes on their way to a client are the business of Forwarding; the  *)
(* clock of the pairing rate limiter is the business of RateLimiter, and   *)
(* here its verdict is a free choice.                                      *)
(***************************************************************************)
EXTENDS Integers, FiniteSets

CONSTANTS Conn,           \* accepted sockets; next_id never reuses an id
          Device,         \* device fingerprints
          MaxPending,     \* MAX_PENDING_CONNECTIONS
          AutoForward,    \* config.auto_forward
          ToggleRequests, \* the ToggleForward(b) that clients may send
          NoDevice        \* a connection that has not named its device

ASSUME ConnAssumption == IsFiniteSet(Conn)
ASSUME PendingAssumption == MaxPending \in Nat
ASSUME ConfigAssumption == /\ AutoForward \in BOOLEAN
                           /\ ToggleRequests \subseteq BOOLEAN
ASSUME DeviceAssumption == NoDevice \notin Device

VARIABLES pc,         \* where each connection's task stands
          permits,    \* free permits of pending_connections
          registry,   \* ServerState.registry
          forwarding, \* ServerState.forwarding_enabled
          paired,     \* config.paired_devices, in memory
          dev,        \* the fingerprint a connection presented
          want,       \* the value a toggling task is about to store
          hotkey,     \* what the capture thread loaded before its store;
                      \*   "none" if the hotkey string did not parse
          silent,     \* peers from which nothing arrives any more
          up          \* run_server has not seen ctrl_c

vars == <<pc, permits, registry, forwarding, paired, dev, want, hotkey,
          silent, up>>

-----------------------------------------------------------------------------
(* Places of a task.  The permit is held exactly in the Pending ones.      *)

Handshaking == {"tls", "hello", "pair"}
Deciding    == {"lookup", "prove", "accept"}
Entering    == {"first", "joined"}
Serving     == {"loop", "toggle"}
Pending     == Handshaking \cup Deciding \cup Entering
Places      == {"new", "autoOff", "closed"} \cup Pending \cup Serving

Holders    == {c \in Conn : pc[c] \in Pending}

TypeOK ==
    /\ pc \in [Conn -> Places]
    /\ permits \in 0..MaxPending
    /\ registry \subseteq Conn
    /\ forwarding \in BOOLEAN
    /\ paired \subseteq Device
    /\ dev \in [Conn -> Device \cup {NoDevice}]
    /\ want \in [Conn -> BOOLEAN]
    /\ hotkey \in {"none", "idle", "turnOn", "turnOff"}
    /\ silent \subseteq Conn
    /\ up \in BOOLEAN

Init ==
    /\ pc = [c \in Conn |-> "new"]
    /\ permits = MaxPending
    /\ registry = {}
    /\ forwarding = FALSE
    /\ paired \in SUBSET Device
    /\ dev = [c \in Conn |-> NoDevice]
    /\ want = [c \in Conn |-> FALSE]
    /\ hotkey \in {"none", "idle"}
    /\ silent = {}
    /\ up = TRUE

Goto(c, place) == pc' = [pc EXCEPT ![c] = place]

\* The task ends with the permit still in its hands, which drops it.
CloseWithPermit(c) ==
    /\ Goto(c, "closed")
    /\ permits' = permits + 1

-----------------------------------------------------------------------------
(* The accept loop.                                                        *)

\* Mutant: the cap on pending connections is not enforced.
AcceptUnbounded(c) ==
    /\ up /\ pc[c] = "new"
    /\ permits' = permits - 1
    /\ Goto(c, "tls")
    /\ UNCHANGED <<registry, forwarding, paired, dev, want, hotkey, silent, up>>

\* A socket is accepted and try_acquire_owned finds a free permit.
Accept(c) ==
    /\ up /\ pc[c] = "new" /\ permits > 0
    /\ permits' = permits - 1
    /\ Goto(c, "tls")
    /\ UNCHANGED <<registry, forwarding, paired, dev, want, hotkey, silent, up>>

\* try_acquire_owned fails: the socket is dropped.
TooManyPending(c) ==
    /\ up /\ pc[c] = "new" /\ permits = 0
    /\ Goto(c, "closed")
    /\ UNCHANGED <<permits, registry, forwarding, paired, dev, want, hotkey,
                   silent, up>>

\* ctrl_c leaves the accept loop and main returns, which ends every task.  The
\* Goodbye it queues for everybody before that is the clients' business, whose
\* queues this module does not have.
Shutdown ==
    /\ up
    /\ up' = FALSE
    /\ UNCHANGED <<pc, permits, registry, forwarding, paired, dev, want,
                   hotkey, silent>>

-----------------------------------------------------------------------------
(* The handshake: TLS, Hello, PairRequest, each under HANDSHAKE_TIMEOUT.   *)

TlsAccepted(c) ==
    /\ up /\ pc[c] = "tls" /\ c \notin silent
    /\ Goto(c, "hello")
    /\ UNCHANGED <<permits, registry, forwarding, paired, dev, want, hotkey,
                   silent, up>>

\* A Hello with the right version, answered by HelloAck.
RecvHello(c) ==
    /\ up /\ pc[c] = "hello" /\ c \notin silent
    /\ Goto(c, "pair")
    /\ UNCHANGED <<permits, registry, forwarding, paired, dev, want, hotkey,
                   silent, up>>

\* A PairRequest from an address that is not rate limited.
RecvPairRequest(c, d) ==
    /\ up /\ pc[c] = "pair" /\ c \notin silent
    /\ dev' = [dev EXCEPT ![c] = d]
    /\ Goto(c, "lookup")
    /\ UNCHANGED <<permits, registry, forwarding, paired, want, hotkey, silent,
                   up>>

\* A TLS or read error, the wrong version, an unexpected envelope, a rate
\* limited address, or a failed send: the handler bails out.
HandshakeRefused(c) ==
    /\ up /\ pc[c] \in Handshaking /\ c \notin silent
    /\ CloseWithPermit(c)
    /\ UNCHANGED <<registry, forwarding, paired, dev, want, hotkey, silent, up>>

\* Mutant: the timeout path forgets the permit.
TimeoutLeaks(c) ==
    /\ up /\ pc[c] \in Handshaking
    /\ Goto(c, "closed")
    /\ UNCHANGED <<permits, registry, forwarding, paired, dev, want, hotkey,
                   silent, up>>

\* Mutant: no deadline on the PairRequest.
TimeoutNotOnPair(c) ==
    /\ up /\ pc[c] \in Handshaking \ {"pair"}
    /\ CloseWithPermit(c)
    /\ UNCHANGED <<registry, forwarding, paired, dev, want, hotkey, silent, up>>

\* The deadline of the current read passes.
HandshakeTimeout(c) ==
    /\ up /\ pc[c] \in Handshaking
    /\ CloseWithPermit(c)
    /\ UNCHANGED <<registry, forwarding, paired, dev, want, hotkey, silent, up>>

-----------------------------------------------------------------------------
(* Pairing.  The paired list is read under the config lock, the lock is    *)
(* released, and a new device is inserted under a second acquisition.      *)

LookupPaired(c) ==
    /\ up /\ pc[c] = "lookup"
    /\ Goto(c, IF dev[c] \in paired THEN "accept" ELSE "prove")
    /\ UNCHANGED <<permits, registry, forwarding, paired, dev, want, hotkey,
                   silent, up>>

\* Mutant: the device is accepted, but not put on the list.
ProofNotRemembered(c) ==
    /\ up /\ pc[c] = "prove"
    /\ Goto(c, "accept")
    /\ UNCHANGED <<permits, registry, forwarding, paired, dev, want, hotkey,
                   silent, up>>

\* The proof matches: the device joins the list, saved or not.
ProofMatches(c) ==
    /\ up /\ pc[c] = "prove"
    /\ paired' = paired \cup {dev[c]}
    /\ Goto(c, "accept")
    /\ UNCHANGED <<permits, registry, forwarding, dev, want, hotkey, silent, up>>

ProofFails(c) ==
    /\ up /\ pc[c] = "prove"
    /\ CloseWithPermit(c)
    /\ UNCHANGED <<registry, forwarding, paired, dev, want, hotkey, silent, up>>

\* PairAccept could not be written; the device stays on the list.
AcceptUnsent(c) ==
    /\ up /\ pc[c] = "accept"
    /\ CloseWithPermit(c)
    /\ UNCHANGED <<registry, forwarding, paired, dev, want, hotkey, silent, up>>

\* PairAccept was written: insert into the registry and learn, under the
\* same lock, whether this is the only client.
Register(c) ==
    /\ up /\ pc[c] = "accept"
    /\ registry' = registry \cup {c}
    /\ Goto(c, IF registry' = {c} THEN "first" ELSE "joined")
    /\ UNCHANGED <<permits, forwarding, paired, dev, want, hotkey, silent, up>>

\* The first client, after reading the config again: swap(true) when
\* auto_forward is set, then give the permit back and serve.
EnterFirst(c) ==
    /\ up /\ pc[c] = "first"
    /\ forwarding' = (forwarding \/ AutoForward)
    /\ permits' = permits + 1
    /\ Goto(c, "loop")
    /\ UNCHANGED <<registry, paired, dev, want, hotkey, silent, up>>

EnterJoined(c) ==
    /\ up /\ pc[c] = "joined"
    /\ permits' = permits + 1
    /\ Goto(c, "loop")
    /\ UNCHANGED <<registry, forwarding, paired, dev, want, hotkey, silent, up>>

-----------------------------------------------------------------------------
(* The message loop.  Only ToggleForward changes shared state; a request   *)
(* for the value the flag already has is dropped.                          *)

ToggleLoad(c, desired) ==
    /\ up /\ pc[c] = "loop" /\ c \notin silent
    /\ desired # forwarding
    /\ want' = [want EXCEPT ![c] = desired]
    /\ Goto(c, "toggle")
    /\ UNCHANGED <<permits, registry, forwarding, paired, dev, hotkey, silent, up>>

ToggleStore(c) ==
    /\ up /\ pc[c] = "toggle"
    /\ forwarding' = want[c]
    /\ Goto(c, "loop")
    /\ UNCHANGED <<permits, registry, paired, dev, want, hotkey, silent, up>>

\* Mutant: emptiness is tested before the entry is removed.
UnregisterTestsFirst(c) ==
    /\ registry' = registry \ {c}
    /\ Goto(c, IF registry = {} THEN "autoOff" ELSE "closed")
    /\ UNCHANGED <<permits, forwarding, paired, dev, want, hotkey, silent, up>>

\* Leaving the loop: remove the entry and learn, under the same lock,
\* whether the registry is now empty.
Unregister(c) ==
    /\ registry' = registry \ {c}
    /\ Goto(c, IF registry' = {} THEN "autoOff" ELSE "closed")
    /\ UNCHANGED <<permits, forwarding, paired, dev, want, hotkey, silent, up>>

\* Goodbye, or the reader task ended because the connection closed.
PeerLeaves(c) ==
    /\ up /\ pc[c] = "loop" /\ c \notin silent
    /\ Unregister(c)

\* Mutant: the handler of a dead peer ends without removing its entry.
WatchdogBails(c) ==
    /\ up /\ pc[c] = "loop" /\ c \in silent
    /\ Goto(c, "closed")
    /\ UNCHANGED <<permits, registry, forwarding, paired, dev, want, hotkey,
                   silent, up>>

\* Mutant: the server's own pings count as activity.
WatchdogFooled(c) ==
    /\ up /\ pc[c] = "loop" /\ c \notin silent
    /\ Unregister(c)

\* No activity for 15 seconds.
Watchdog(c) ==
    /\ up /\ pc[c] = "loop" /\ c \in silent
    /\ Unregister(c)

\* The last client has gone: read the config, swap(false) under auto_forward.
AutoForwardOff(c) ==
    /\ up /\ pc[c] = "autoOff"
    /\ forwarding' = (forwarding /\ ~AutoForward)
    /\ Goto(c, "closed")
    /\ UNCHANGED <<permits, registry, paired, dev, want, hotkey, silent, up>>

-----------------------------------------------------------------------------
(* The capture thread's hotkey shares the flag: a load, then a store.      *)

HotkeyLoad ==
    /\ up /\ hotkey = "idle"
    /\ hotkey' = IF forwarding THEN "turnOff" ELSE "turnOn"
    /\ UNCHANGED <<pc, permits, registry, forwarding, paired, dev, want, silent,
                   up>>

HotkeyStore ==
    /\ up /\ hotkey \in {"turnOn", "turnOff"}
    /\ forwarding' = (hotkey = "turnOn")
    /\ hotkey' = "idle"
    /\ UNCHANGED <<pc, permits, registry, paired, dev, want, silent, up>>

(* The network: a peer may fall silent without closing, and come back.     *)

PeerSilent(c) ==
    /\ up /\ c \notin silent /\ pc[c] \notin {"new", "closed"}
    /\ silent' = silent \cup {c}
    /\ UNCHANGED <<pc, permits, registry, forwarding, paired, dev, want, hotkey,
                   up>>

PeerReturns(c) ==
    /\ up /\ c \in silent
    /\ silent' = silent \ {c}
    /\ UNCHANGED <<pc, permits, registry, forwarding, paired, dev, want, hotkey,
                   up>>

-----------------------------------------------------------------------------
\* The steps a task takes by itself, whatever its peer does.
TaskStep(c) ==
    \/ LookupPaired(c) \/ ProofMatches(c) \/ ProofFails(c)
    \/ AcceptUnsent(c) \/ Register(c)
    \/ EnterFirst(c) \/ EnterJoined(c)
    \/ ToggleStore(c) \/ AutoForwardOff(c)

ConnStep(c) ==
    \/ Accept(c) \/ TooManyPending(c)
    \/ TlsAccepted(c) \/ RecvHello(c)
    \/ \E d \in Device : RecvPairRequest(c, d)
    \/ HandshakeRefused(c) \/ HandshakeTimeout(c)
    \/ TaskStep(c)
    \/ \E b \in ToggleRequests : ToggleLoad(c, b)
    \/ PeerLeaves(c) \/ Watchdog(c)
    \/ PeerSilent(c) \/ PeerReturns(c)

Next ==
    \/ \E c \in Conn : ConnStep(c)
    \/ HotkeyLoad \/ HotkeyStore
    \/ Shutdown

\* The runtime polls every ready task, and timers fire.
Fairness ==
    \A c \in Conn : /\ WF_vars(TaskStep(c))
                    /\ WF_vars(HandshakeTimeout(c))
                    /\ WF_vars(Watchdog(c))

Spec == Init /\ [][Next]_vars /\ Fairness

-----------------------------------------------------------------------------
(* Safety.                                                                 *)

\* Every pending slot is either free or held by exactly one connection that
\* has not finished pairing: the semaphore of run_server leaks no permit on
\* any early return and hands none back twice.
PermitsConserved == permits + Cardinality(Holders) = MaxPending

\* The fan-out registry holds exactly the connections whose handlers are
\* past registration and not yet past the exit path.
RegistryIsServing ==
    registry = {c \in Conn : pc[c] \in Entering \cup Serving}

\* A client gets into the registry only with a device on the paired list.
RegisteredArePaired == \A c \in registry : dev[c] \in paired

\* With auto_forward and no hotkey, forwarding is off whenever nobody is
\* connected and no departing handler still owes the flag its swap(false):
\* however registrations, toggles and departures interleave, the capture
\* thread is never left swallowing input for an empty registry.
IdleMeansOff ==
    (/\ AutoForward /\ hotkey = "none"
     /\ registry = {}
     /\ \A c \in Conn : pc[c] # "autoOff")
        => ~forwarding

-----------------------------------------------------------------------------
(* Liveness.                                                               *)

\* A connection never keeps its pending slot for good: it is refused, times
\* out, or finishes pairing.
PendingResolves ==
    \A c \in Conn : (pc[c] \in Pending) ~> (pc[c] \notin Pending \/ ~up)

\* A registered peer that stays silent is removed from the registry.
SilentPeerIsDropped ==
    \A c \in Conn :
        (c \in registry /\ c \in silent) ~> (c \notin registry \/ c \notin silent \/ ~up)
=============================================================================
