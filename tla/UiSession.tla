----------------------------- MODULE UiSession ------------------------------
(***************************************************************************)
(* The desktop UI's ownership of its session (ui/src/main.rs): the         *)
(* commands connect_to_server, disconnect_from_server and                  *)
(* toggle_forwarding, and the two tasks that a connect spawns, one that    *)
(* drives the session and reconnects it, one that copies session events    *)
(* into AppState.  All of them run concurrently; what keeps a superseded   *)
(* task from touching AppState is the generation counter, which they load  *)
(* before they act.                                                        *)
(*                                                                         *)
(* Error texts and latency are only displayed and are left out.  The       *)
(* server is the flag that the hotkey and the UI's requests flip.          *)
(***************************************************************************)
EXTENDS Integers, Sequences, FiniteSets

CONSTANTS Call,      \* calls of connect_to_server and disconnect_from_server,
                     \*   numbered in the order in which they begin
          MaxHotkey, \* bound on the presses of the server's hotkey
          MaxEvents, \* bound on the SessionEvent channel
          None       \* no session

ASSUME CallAssumption == /\ IsFiniteSet(Call) /\ None \notin Call
                         /\ Call \subseteq Nat
ASSUME BoundAssumption == MaxHotkey \in Nat /\ MaxEvents \in Nat

VARIABLES generation, \* AppState.generation
          session,    \* AppState.session: whose token it holds
          forwarding, \* AppState.forwarding_active
          pc,         \* where each command stands
          gen,        \* my_gen of each command
          cancelled,  \* calls whose CancellationToken fired
          driver,     \* the task that runs the session
          events,     \* SessionEvent::ForwardingChanged on their way
          listener,   \* the task that receives them
          serverOn,   \* forwarding_enabled of the server
          presses,    \* presses of its hotkey
          late,       \* history: the flag was stored last by a listener whose
                      \*   session was no longer in AppState
          orphaned    \* history: sessions whose entry a stale cleanup removed

vars == <<generation, session, forwarding, pc, gen, cancelled, driver, events,
          listener, serverOn, presses, late, orphaned>>

Listening == {"none", "recv", "storeOn", "storeOff", "stopped"}
Driving   == {"run", "sleep", "connect", "check", "lock"}
Ending    == {"end", "clearSession", "clearFlag"}

TypeOK ==
    /\ generation \in 0..Cardinality(Call)
    /\ session \in Call \cup {None}
    /\ forwarding \in BOOLEAN
    /\ pc \in [Call -> {"new", "takeConnect", "takeDisconnect", "flagConnect",
                        "flagDisconnect", "connect", "check", "lock", "done"}]
    /\ gen \in [Call -> 0..Cardinality(Call)]
    /\ cancelled \subseteq Call
    /\ driver \in [Call -> {"none", "stopped"} \cup Driving \cup Ending]
    /\ events \in [Call -> Seq(BOOLEAN)]
    /\ listener \in [Call -> Listening]
    /\ serverOn \in BOOLEAN
    /\ presses \in 0..MaxHotkey
    /\ late \in BOOLEAN
    /\ orphaned \subseteq Call

Init ==
    /\ generation = 0
    /\ session = None
    /\ forwarding = FALSE
    /\ pc = [c \in Call |-> "new"]
    /\ gen = [c \in Call |-> 0]
    /\ cancelled = {}
    /\ driver = [c \in Call |-> "none"]
    /\ events = [c \in Call |-> <<>>]
    /\ listener = [c \in Call |-> "none"]
    /\ serverOn \in BOOLEAN
    /\ presses = 0
    /\ late = FALSE
    /\ orphaned = {}

Current(c) == generation = gen[c]
Goto(c, place)  == pc' = [pc EXCEPT ![c] = place]
Drive(c, place) == driver' = [driver EXCEPT ![c] = place]

-----------------------------------------------------------------------------
(* reset_session, in three steps: fetch_add, take and cancel under the     *)
(* session lock, clear the flag.                                           *)

Begin(c, place) ==
    /\ pc[c] = "new" /\ \A d \in Call : d < c => pc[d] # "new"
    /\ generation' = generation + 1
    /\ gen' = [gen EXCEPT ![c] = generation + 1]
    /\ Goto(c, place)
    /\ UNCHANGED <<session, forwarding, cancelled, driver, events, listener,
                   serverOn, presses, late, orphaned>>

BeginConnect(c)    == Begin(c, "takeConnect")
BeginDisconnect(c) == Begin(c, "takeDisconnect")

\* Mutant: the session is taken, and its token forgotten.
TakeWithoutCancel(c) ==
    /\ pc[c] \in {"takeConnect", "takeDisconnect"}
    /\ session' = None
    /\ Goto(c, IF pc[c] = "takeConnect" THEN "flagConnect" ELSE "flagDisconnect")
    /\ UNCHANGED <<generation, forwarding, gen, cancelled, driver, events, listener,
                   serverOn, presses, late, orphaned>>

TakeSession(c) ==
    /\ pc[c] \in {"takeConnect", "takeDisconnect"}
    /\ session' = None
    /\ cancelled' = cancelled \cup ({session} \ {None})
    /\ Goto(c, IF pc[c] = "takeConnect" THEN "flagConnect" ELSE "flagDisconnect")
    /\ UNCHANGED <<generation, forwarding, gen, driver, events, listener,
                   serverOn, presses, late, orphaned>>

ClearForwarding(c) ==
    /\ pc[c] \in {"flagConnect", "flagDisconnect"}
    /\ forwarding' = FALSE
    /\ late' = FALSE
    /\ Goto(c, IF pc[c] = "flagConnect" THEN "connect" ELSE "done")
    /\ UNCHANGED <<generation, session, gen, cancelled, driver, events, listener,
                   serverOn, presses, orphaned>>

-----------------------------------------------------------------------------
(* The rest of connect_to_server.                                          *)

ConnectFails(c) ==
    /\ pc[c] = "connect"
    /\ Goto(c, "done")
    /\ UNCHANGED <<generation, session, forwarding, gen, cancelled, driver, events,
                   listener, serverOn, presses, late, orphaned>>

Connected(c) ==
    /\ pc[c] = "connect"
    /\ Goto(c, "check")
    /\ UNCHANGED <<generation, session, forwarding, gen, cancelled, driver, events,
                   listener, serverOn, presses, late, orphaned>>

\* install_active_session loads the generation, takes the lock, and loads it
\* again before it writes; a mismatch at either place tears the session down.
Superseded(c) ==
    /\ pc[c] \in {"check", "lock"} /\ ~Current(c)
    /\ cancelled' = cancelled \cup {c}
    /\ Goto(c, "done")
    /\ UNCHANGED <<generation, session, forwarding, gen, driver, events, listener,
                   serverOn, presses, late, orphaned>>

InstallCheck(c) ==
    /\ pc[c] = "check" /\ Current(c)
    /\ Goto(c, "lock")
    /\ UNCHANGED <<generation, session, forwarding, gen, cancelled, driver, events,
                   listener, serverOn, presses, late, orphaned>>

\* Mutant: the generation is not loaded again under the lock.
InstallUnchecked(c) ==
    /\ pc[c] = "lock"
    /\ session' = c
    /\ Goto(c, "done")
    /\ Drive(c, "run")
    /\ listener' = [listener EXCEPT ![c] = "recv"]
    /\ UNCHANGED <<generation, forwarding, gen, cancelled, events, serverOn, presses, late, orphaned>>

\* Installed: spawn the listener and the driver.
Install(c) ==
    /\ pc[c] = "lock" /\ Current(c)
    /\ session' = c
    /\ Goto(c, "done")
    /\ Drive(c, "run")
    /\ listener' = [listener EXCEPT ![c] = "recv"]
    /\ UNCHANGED <<generation, forwarding, gen, cancelled, events, serverOn, presses, late, orphaned>>

-----------------------------------------------------------------------------
(* The driver.                                                             *)

\* Session::run returns, because its token fired or for any other reason.
RunCancelled(c) ==
    /\ driver[c] = "run" /\ c \in cancelled
    /\ Drive(c, "end")
    /\ UNCHANGED <<generation, session, forwarding, pc, gen, cancelled, events,
                   listener, serverOn, presses, late, orphaned>>

RunEnds(c) ==
    /\ driver[c] = "run" /\ c \notin cancelled
    /\ Drive(c, "sleep")
    /\ UNCHANGED <<generation, session, forwarding, pc, gen, cancelled, events,
                   listener, serverOn, presses, late, orphaned>>

\* The select between the token and the backoff.
SleepCancelled(c) ==
    /\ driver[c] = "sleep" /\ c \in cancelled
    /\ Drive(c, "end")
    /\ UNCHANGED <<generation, session, forwarding, pc, gen, cancelled, events,
                   listener, serverOn, presses, late, orphaned>>

SleepOver(c) ==
    /\ driver[c] = "sleep"
    /\ Drive(c, "connect")
    /\ UNCHANGED <<generation, session, forwarding, pc, gen, cancelled, events,
                   listener, serverOn, presses, late, orphaned>>

Reconnected(c) ==
    /\ driver[c] = "connect"
    /\ Drive(c, "check")
    /\ UNCHANGED <<generation, session, forwarding, pc, gen, cancelled, events,
                   listener, serverOn, presses, late, orphaned>>

\* A failed attempt is retried, unless it is stale.
ReconnectFails(c) ==
    /\ driver[c] = "connect"
    /\ Drive(c, IF Current(c) THEN "sleep" ELSE "end")
    /\ UNCHANGED <<generation, session, forwarding, pc, gen, cancelled, events,
                   listener, serverOn, presses, late, orphaned>>

\* A fatal error, or no path to the config, ends the loop.
ReconnectFatal(c) ==
    /\ driver[c] = "connect"
    /\ Drive(c, "end")
    /\ UNCHANGED <<generation, session, forwarding, pc, gen, cancelled, events,
                   listener, serverOn, presses, late, orphaned>>

ReinstallCheck(c) ==
    /\ driver[c] = "check"
    /\ Drive(c, IF Current(c) THEN "lock" ELSE "end")
    /\ UNCHANGED <<generation, session, forwarding, pc, gen, cancelled, events,
                   listener, serverOn, presses, late, orphaned>>

Reinstall(c) ==
    /\ driver[c] = "lock"
    /\ session' = IF Current(c) THEN c ELSE session
    /\ Drive(c, IF Current(c) THEN "run" ELSE "end")
    /\ UNCHANGED <<generation, forwarding, pc, gen, cancelled, events, listener,
                   serverOn, presses, late, orphaned>>

\* After the loop: the generation is loaded first, then the session and the
\* flag are cleared, with no lock held across the three.
EndCheck(c) ==
    /\ driver[c] = "end"
    /\ Drive(c, IF Current(c) THEN "clearSession" ELSE "stopped")
    /\ UNCHANGED <<generation, session, forwarding, pc, gen, cancelled, events,
                   listener, serverOn, presses, late, orphaned>>

EndClearSession(c) ==
    /\ driver[c] = "clearSession"
    /\ session' = None
    /\ orphaned' = orphaned \cup ({session} \ {c, None})
    /\ Drive(c, "clearFlag")
    /\ UNCHANGED <<generation, forwarding, pc, gen, cancelled, events, listener,
                   serverOn, presses, late>>

\* Mutant: the flag is left as it is.
EndKeepsFlag(c) ==
    /\ driver[c] = "clearFlag"
    /\ Drive(c, "stopped")
    /\ UNCHANGED <<generation, session, forwarding, pc, gen, cancelled, events, listener,
                   serverOn, presses, late, orphaned>>

EndClearFlag(c) ==
    /\ driver[c] = "clearFlag"
    /\ forwarding' = FALSE
    /\ late' = FALSE
    /\ Drive(c, "stopped")
    /\ UNCHANGED <<generation, session, pc, gen, cancelled, events, listener,
                   serverOn, presses, orphaned>>

-----------------------------------------------------------------------------
(* The listener: it loads the generation, then stores.                     *)

ListenerRecv(c) ==
    /\ listener[c] = "recv" /\ events[c] # <<>>
    /\ events' = [events EXCEPT ![c] = IF Current(c) THEN Tail(@) ELSE <<>>]
    /\ listener' = [listener EXCEPT ![c] =
                      IF ~Current(c) THEN "stopped"
                      ELSE IF Head(events[c]) THEN "storeOn" ELSE "storeOff"]
    /\ UNCHANGED <<generation, session, forwarding, pc, gen, cancelled, driver,
                   serverOn, presses, late, orphaned>>

ListenerStore(c) ==
    /\ listener[c] \in {"storeOn", "storeOff"}
    /\ forwarding' = (listener[c] = "storeOn")
    /\ late' = (session # c)
    /\ listener' = [listener EXCEPT ![c] = "recv"]
    /\ UNCHANGED <<generation, session, pc, gen, cancelled, driver, events, serverOn, presses, orphaned>>

-----------------------------------------------------------------------------
(* The server tells every session it serves when its flag changes, and     *)
(* nobody when it does not.                                                *)

\* Running sessions whose events somebody still receives.
Served == {c \in Call : driver[c] = "run" /\ listener[c] # "stopped"}

SwitchServer(b) ==
    /\ \A c \in Served : Len(events[c]) < MaxEvents
    /\ serverOn' = b
    /\ events' = [c \in Call |-> IF c \in Served /\ b # serverOn
                                   THEN Append(events[c], b) ELSE events[c]]

HotkeyPressed ==
    /\ presses < MaxHotkey
    /\ presses' = presses + 1
    /\ SwitchServer(~serverOn)
    /\ UNCHANGED <<generation, session, forwarding, pc, gen, cancelled, driver,
                   listener, late, orphaned>>

\* toggle_forwarding asks for the opposite of what the UI believes.
ToggleForwarding ==
    /\ session # None /\ driver[session] = "run"
    /\ SwitchServer(~forwarding)
    /\ UNCHANGED <<generation, session, forwarding, pc, gen, cancelled, driver,
                   listener, presses, late, orphaned>>

-----------------------------------------------------------------------------
CommandStep(c) ==
    \/ TakeSession(c) \/ ClearForwarding(c)
    \/ Superseded(c) \/ InstallCheck(c) \/ Install(c)

Next ==
    \/ \E c \in Call :
         \/ BeginConnect(c) \/ BeginDisconnect(c) \/ CommandStep(c)
         \/ ConnectFails(c) \/ Connected(c)
         \/ RunCancelled(c) \/ RunEnds(c) \/ SleepCancelled(c) \/ SleepOver(c)
         \/ Reconnected(c) \/ ReconnectFails(c) \/ ReconnectFatal(c)
         \/ ReinstallCheck(c) \/ Reinstall(c)
         \/ EndCheck(c) \/ EndClearSession(c) \/ EndClearFlag(c)
         \/ ListenerRecv(c) \/ ListenerStore(c)
    \/ HotkeyPressed \/ ToggleForwarding

Spec == Init /\ [][Next]_vars

-----------------------------------------------------------------------------
(* Properties.                                                             *)

\* A running or reconnecting session that has not been cancelled is the one
\* in AppState, where a disconnect finds it: none runs "unsupervised with no
\* way to stop it".  The one exception is a session whose entry the cleanup of
\* another driver removed, after it had checked the generation and before it
\* took the lock; nothing else loses a session, however connects, disconnects
\* and reconnects overlap.
OnlyCleanupOrphans ==
    \A c \in Call \ orphaned :
        driver[c] \in Driving /\ c \notin cancelled => session = c

\* What AppState holds belongs to the newest call, except while a newer call
\* is on its way to take it: a superseded connect never installs itself.
SessionIsCurrent ==
    session # None =>
        Current(session) \/ \E c \in Call : pc[c] \in {"takeConnect", "takeDisconnect"}

\* Without a session the UI does not show forwarding as active, once those
\* who took the session away have cleared the flag.  The one exception is an
\* event that a listener stores after its session is gone: it checks the
\* generation, which the end of a session leaves alone, and never the session.
IdleShowsOff ==
    session = None /\ forwarding =>
        \/ late
        \/ \E c \in Call : \/ pc[c] \in {"flagConnect", "flagDisconnect"}
                           \/ driver[c] = "clearFlag"
=============================================================================
