----------------------------- MODULE Forwarding -----------------------------
(***************************************************************************)
(* Keys from the server's keyboard to the clients' injectors.              *)
(*                                                                         *)
(* Four kinds of actors share the forwarding flag and the registry: the    *)
(* capture thread (capture.rs, process_event and dispatch), the forwarder  *)
(* task that drains the capture channel and broadcasts (server.rs), the    *)
(* handlers of connected clients, which toggle the flag and broadcast on   *)
(* their own, and the clients (session.rs, inject.rs).  Every load, store, *)
(* send and broadcast is a step of its own.                                *)
(*                                                                         *)
(* A connection's outbound channel, its writer task and its socket are one *)
(* FIFO queue, out[c]: nothing between them reorders or drops an envelope  *)
(* while the session lives.  Mouse buttons behave as keys that are in no   *)
(* chord.  Pings, clipboard text, moves and the wheel hold nothing down    *)
(* and are left out.  So is ctrl_c, whose Goodbye to every client goes out *)
(* as the process ends.                                                    *)
(***************************************************************************)
EXTENDS Integers, Sequences, FiniteSets

CONSTANTS Conn,           \* connections
          Key,            \* keys and buttons
          Code,           \* key codes and button names on the wire
          Injected,       \* keys and buttons a client can inject
          KeyCode,        \* the server's table: Key -> Code
          CodeKey,        \* the client's: some of the codes -> Injected
          HotKey,         \* hotkey.key; not a Key if no hotkey is configured
          Mods,           \* the modifiers the chord requires, each the set of
                          \*   the left and the right key that count as it
          Repeats,        \* whether the keyboard repeats the key pressed last
          AutoForward,    \* config.auto_forward
          ToggleRequests, \* the ToggleForward(b) that clients may send
          MaxCapture,     \* bound on the capture channel
          MaxOut          \* bound on an outbound queue

ASSUME KeyAssumption == Mods \subseteq SUBSET Key
ASSUME TableAssumption == /\ KeyCode \in [Key -> Code]
                          /\ DOMAIN CodeKey \subseteq Code
                          /\ CodeKey \in [DOMAIN CodeKey -> Injected]
ASSUME SwitchAssumption == /\ Repeats \in BOOLEAN
                           /\ AutoForward \in BOOLEAN
                           /\ ToggleRequests \subseteq BOOLEAN
ASSUME BoundAssumption == MaxCapture \in Nat /\ MaxOut \in Nat

VARIABLES enabled,   \* forwarding_enabled
          pressed,   \* CaptureState.pressed_keys
          swallowed, \* CaptureState.hotkey_swallowed_keys
          lastKey,   \* the key pressed last, the one the keyboard repeats
          eaten,     \* history: keys forwarded by a repeat of a swallowed press,
                     \*   whose release will be, or has been, swallowed too
          cap,       \* what the capture callback is about to do
          capQ,      \* the capture channel
          fwd,       \* the forwarder owes the second of two broadcasts
          registry,  \* connections the broadcasts go to
          handler,   \* where each connection's handler stands
          want,      \* the value a toggling handler loaded a difference for
          session,   \* connections whose client side is running
          out,       \* envelopes on their way to a client
          held,      \* held_keys of a client's injector
          notice     \* the last ToggleForward a client was told

capVars  == <<pressed, swallowed, lastKey, eaten, cap>>
hubVars  == <<registry, handler, want>>
peerVars == <<session, held, notice>>
vars == <<enabled, capVars, capQ, fwd, hubVars, peerVars, out>>

-----------------------------------------------------------------------------
(* Messages.  CaptureEvent::ForwardingToggled(b) and Envelope::            *)
(* ToggleForward(b) are the same two values, in different channels.        *)

On         == [t |-> "toggle", on |-> TRUE]
Off        == [t |-> "toggle", on |-> FALSE]
Toggle(b)  == [t |-> "toggle", on |-> b]
ReleaseAll == [t |-> "releaseAll"]
Goodbye    == [t |-> "goodbye"]
Press(c)   == [t |-> "press", code |-> c]
Release(c) == [t |-> "release", code |-> c]

Input      == {Press(c) : c \in Code} \cup {Release(c) : c \in Code}
CaptureMsg == Input \cup {On, Off}
Envelope   == CaptureMsg \cup {ReleaseAll, Goodbye}

Idle     == [step |-> "idle"]
Store(b) == [step |-> "store", on |-> b]
Send(m)  == [step |-> "send", msg |-> m]

HandlerPlaces == {"away", "first", "greet", "loop", "store", "release",
                  "announce", "autoOff", "bye"}

TypeOK ==
    /\ enabled \in BOOLEAN
    /\ pressed \subseteq Key
    /\ swallowed \subseteq Key
    /\ lastKey \in Key \cup {HotKey}
    /\ eaten \subseteq Key
    /\ cap \in {Idle} \cup {Store(b) : b \in BOOLEAN} \cup {Send(m) : m \in CaptureMsg}
    /\ capQ \in Seq(CaptureMsg)
    /\ fwd \in {"idle", "announce"}
    /\ registry \subseteq Conn
    /\ handler \in [Conn -> HandlerPlaces]
    /\ want \in [Conn -> BOOLEAN]
    /\ session \subseteq Conn
    /\ out \in [Conn -> Seq(Envelope)]
    /\ held \in [Conn -> SUBSET Injected]
    /\ notice \in [Conn -> {"none", "on", "off"}]

Init ==
    /\ enabled = FALSE
    /\ pressed = {}
    /\ swallowed = {}
    /\ lastKey = HotKey
    /\ eaten = {}
    /\ cap = Idle
    /\ capQ = <<>>
    /\ fwd = "idle"
    /\ registry = {}
    /\ handler = [c \in Conn |-> "away"]
    /\ want = [c \in Conn |-> FALSE]
    /\ session = {}
    /\ out = [c \in Conn |-> <<>>]
    /\ held = [c \in Conn |-> {}]
    /\ notice = [c \in Conn |-> "none"]

-----------------------------------------------------------------------------
(* The capture thread.  One callback at a time: the state it keeps is its  *)
(* own, so the load of the flag and the decision are one step, the         *)
(* hotkey's store and the send that dispatch makes are two more.           *)

\* The server's tables of keys and of buttons: a button without a name of
\* its own is sent as the left one.
key_to_code(k) == KeyCode[k]

\* Whether k, with the modifiers now down, is the toggle chord.
Chord(k, down) == k = HotKey /\ \A m \in Mods : m \cap down # {}

\* A press the keyboard can produce: a new key, or a repeat of a held one.
CanPress(k) == \/ k \notin pressed
               \/ Repeats /\ k = lastKey

\* The chord goes down.  It is swallowed; a repeat, or a press within the
\* debounce time, fires nothing.
ChordPress(k) ==
    /\ cap = Idle /\ CanPress(k) /\ Chord(k, pressed \cup {k})
    /\ pressed' = pressed \cup {k}
    /\ swallowed' = swallowed \cup {k}
    /\ lastKey' = k
    /\ \/ cap' = Idle
       \/ k \notin pressed /\ cap' = Store(~enabled)
    /\ UNCHANGED <<enabled, eaten, capQ, fwd, hubVars, peerVars, out>>

\* Any other press is forwarded if the flag was up when it was loaded: also
\* that of a swallowed key which repeats once its modifiers are up.
KeyPress(k) ==
    /\ cap = Idle /\ CanPress(k) /\ ~Chord(k, pressed \cup {k})
    /\ pressed' = pressed \cup {k}
    /\ lastKey' = k
    /\ cap' = IF enabled THEN Send(Press(key_to_code(k))) ELSE Idle
    /\ eaten' = IF enabled /\ k \in swallowed THEN eaten \cup {k} ELSE eaten
    /\ UNCHANGED <<enabled, swallowed, capQ, fwd, hubVars, peerVars, out>>

\* Mutant: every release of the hotkey's key is swallowed.
KeyReleaseEaten(k) ==
    /\ cap = Idle /\ k \in pressed
    /\ pressed' = pressed \ {k}
    /\ swallowed' = swallowed \ {k}
    /\ cap' = IF enabled /\ k # HotKey THEN Send(Release(key_to_code(k))) ELSE Idle
    /\ eaten' = IF enabled /\ k \notin swallowed THEN eaten \ {k} ELSE eaten
    /\ UNCHANGED <<enabled, lastKey, capQ, fwd, hubVars, peerVars, out>>

\* A release is swallowed if the matching press was, and else forwarded.
KeyRelease(k) ==
    /\ cap = Idle /\ k \in pressed
    /\ pressed' = pressed \ {k}
    /\ swallowed' = swallowed \ {k}
    /\ cap' = IF enabled /\ k \notin swallowed THEN Send(Release(key_to_code(k))) ELSE Idle
    /\ eaten' = IF enabled /\ k \notin swallowed THEN eaten \ {k} ELSE eaten
    /\ UNCHANGED <<enabled, lastKey, capQ, fwd, hubVars, peerVars, out>>

\* Mutant: the capture thread sends the ReleaseAll itself.
HotkeyStoreReleases ==
    /\ cap.step = "store"
    /\ enabled' = cap.on
    /\ cap' = Send(IF cap.on THEN On ELSE ReleaseAll)
    /\ eaten' = IF cap.on THEN eaten ELSE {}
    /\ UNCHANGED <<pressed, swallowed, lastKey, capQ, fwd, hubVars, peerVars, out>>

\* try_fire_hotkey stores the opposite of what process_event had loaded.
HotkeyStore ==
    /\ cap.step = "store"
    /\ enabled' = cap.on
    /\ cap' = Send(Toggle(cap.on))
    /\ eaten' = IF cap.on THEN eaten ELSE {}
    /\ UNCHANGED <<pressed, swallowed, lastKey, capQ, fwd, hubVars, peerVars, out>>

\* Mutant: the newest message overtakes the others.
DispatchInFront ==
    /\ cap.step = "send" /\ Len(capQ) < MaxCapture
    /\ capQ' = <<cap.msg>> \o capQ
    /\ cap' = Idle
    /\ UNCHANGED <<enabled, pressed, swallowed, lastKey, eaten, fwd, hubVars,
                   peerVars, out>>


Dispatch ==
    /\ cap.step = "send" /\ Len(capQ) < MaxCapture
    /\ capQ' = Append(capQ, cap.msg)
    /\ cap' = Idle
    /\ UNCHANGED <<enabled, pressed, swallowed, lastKey, eaten, fwd, hubVars,
                   peerVars, out>>

-----------------------------------------------------------------------------
(* Broadcasting: under the registry mutex, to every sender in it.  What is *)
(* sent to a session that has ended is read by nobody.                     *)

Room == \A c \in registry : Len(out[c]) < MaxOut

Broadcast(m) ==
    /\ Room
    /\ out' = [c \in Conn |-> IF c \in registry \cap session
                              THEN Append(out[c], m) ELSE out[c]]

\* Mutant: switching off is announced without releasing anything, and the
\* announcement is lost.
ForwardDropsOff ==
    /\ fwd = "idle" /\ capQ # <<>>
    /\ capQ' = Tail(capQ)
    /\ fwd' = "idle"
    /\ IF Head(capQ) = Off THEN UNCHANGED out ELSE Broadcast(Head(capQ))
    /\ UNCHANGED <<enabled, capVars, hubVars, peerVars>>

\* Mutant: clients are told of the off switch only.
ForwardDropsOn ==
    /\ fwd = "idle" /\ capQ # <<>>
    /\ capQ' = Tail(capQ)
    /\ CASE Head(capQ) = Off -> Broadcast(ReleaseAll) /\ fwd' = "announce"
         [] Head(capQ) = On  -> UNCHANGED out /\ fwd' = "idle"
         [] OTHER            -> Broadcast(Head(capQ)) /\ fwd' = "idle"
    /\ UNCHANGED <<enabled, capVars, hubVars, peerVars>>

\* The forwarder takes one message; switching off is two broadcasts.
Forward ==
    /\ fwd = "idle" /\ capQ # <<>>
    /\ capQ' = Tail(capQ)
    /\ IF Head(capQ) = Off
         THEN Broadcast(ReleaseAll) /\ fwd' = "announce"
         ELSE Broadcast(Head(capQ)) /\ fwd' = "idle"
    /\ UNCHANGED <<enabled, capVars, hubVars, peerVars>>

\* Mutant: the off switch releases the keys and is not announced.
ForwardKeepsQuiet ==
    /\ fwd = "announce"
    /\ fwd' = "idle"
    /\ UNCHANGED <<enabled, capVars, capQ, hubVars, peerVars, out>>


ForwardAnnounce ==
    /\ fwd = "announce"
    /\ Broadcast(Off)
    /\ fwd' = "idle"
    /\ UNCHANGED <<enabled, capVars, capQ, hubVars, peerVars>>

-----------------------------------------------------------------------------
(* The handlers.  Pairing is over: a handler registers, honours            *)
(* auto_forward, serves and leaves.                                        *)

Goto(c, place) == handler' = [handler EXCEPT ![c] = place]

\* A paired client is registered, and its session starts.
Join(c) ==
    /\ handler[c] = "away" /\ c \notin session
    /\ registry' = registry \cup {c}
    /\ Goto(c, IF registry' = {c} THEN "first" ELSE "loop")
    /\ session' = session \cup {c}
    /\ UNCHANGED <<enabled, capVars, capQ, fwd, want, held, notice, out>>

\* The first client: swap(true) under auto_forward ...
AutoForwardOn(c) ==
    /\ handler[c] = "first"
    /\ enabled' = (enabled \/ AutoForward)
    /\ Goto(c, IF AutoForward /\ ~enabled THEN "greet" ELSE "loop")
    /\ UNCHANGED <<capVars, capQ, fwd, registry, want, peerVars, out>>

\* ... and if that changed the flag, tell this client alone.
Greet(c) ==
    /\ handler[c] = "greet" /\ Len(out[c]) < MaxOut
    /\ out' = [out EXCEPT ![c] = IF c \in session THEN Append(@, On) ELSE @]
    /\ Goto(c, "loop")
    /\ UNCHANGED <<enabled, capVars, capQ, fwd, registry, want, peerVars>>

\* ToggleForward(desired) from the client: load the flag ...
ToggleLoad(c, desired) ==
    /\ handler[c] = "loop" /\ c \in session
    /\ desired # enabled
    /\ want' = [want EXCEPT ![c] = desired]
    /\ Goto(c, "store")
    /\ UNCHANGED <<enabled, capVars, capQ, fwd, registry, peerVars, out>>

\* ... store it ...
ToggleStore(c) ==
    /\ handler[c] = "store"
    /\ enabled' = want[c]
    /\ Goto(c, IF want[c] THEN "announce" ELSE "release")
    /\ UNCHANGED <<capVars, capQ, fwd, registry, want, peerVars, out>>

\* ... release everything if it went off ...
ToggleRelease(c) ==
    /\ handler[c] = "release"
    /\ Broadcast(ReleaseAll)
    /\ Goto(c, "announce")
    /\ UNCHANGED <<enabled, capVars, capQ, fwd, registry, want, peerVars>>

\* ... and tell every client.
ToggleAnnounce(c) ==
    /\ handler[c] = "announce"
    /\ Broadcast(Toggle(want[c]))
    /\ Goto(c, "loop")
    /\ UNCHANGED <<enabled, capVars, capQ, fwd, registry, want, peerVars>>

\* Mutant: the entry stays in the registry.
LeaveRegistered(c) ==
    /\ handler[c] = "loop"
    /\ Goto(c, "bye")
    /\ UNCHANGED <<enabled, capVars, capQ, fwd, registry, want, peerVars, out>>

\* The handler leaves the loop: the client said Goodbye or is gone, or the
\* watchdog gave it up while its side still runs.
Leave(c) ==
    /\ handler[c] = "loop"
    /\ registry' = registry \ {c}
    /\ Goto(c, IF registry' = {} THEN "autoOff" ELSE "bye")
    /\ UNCHANGED <<enabled, capVars, capQ, fwd, want, peerVars, out>>

\* The last client: swap(false) under auto_forward, telling nobody.
AutoForwardOff(c) ==
    /\ handler[c] = "autoOff"
    /\ enabled' = (enabled /\ ~AutoForward)
    /\ Goto(c, "bye")
    /\ UNCHANGED <<capVars, capQ, fwd, registry, want, peerVars, out>>

\* A Goodbye is the last envelope of a connection.
SayGoodbye(c) ==
    /\ handler[c] = "bye" /\ Len(out[c]) < MaxOut
    /\ out' = [out EXCEPT ![c] = IF c \in session THEN Append(@, Goodbye) ELSE @]
    /\ Goto(c, "away")
    /\ UNCHANGED <<enabled, capVars, capQ, fwd, registry, want, peerVars>>

-----------------------------------------------------------------------------
(* The client.                                                             *)

\* The key to inject for a code, if there is one: several codes share a key
\* (both Alts, both Returns, the digits where there is no numpad), and what
\* the server could not name has none.
code_to_key(c) == IF c \in DOMAIN CodeKey THEN {CodeKey[c]} ELSE {}

\* held_keys after injecting or obeying m.
HeldAfter(h, m) ==
    CASE m.t = "press"      -> h \cup code_to_key(m.code)
      [] m.t = "release"    -> h \ code_to_key(m.code)
      [] m.t = "releaseAll" -> {}
      [] m.t = "toggle"     -> IF m.on THEN h ELSE {}

NoticeAfter(n, m) ==
    IF m.t # "toggle" THEN n ELSE IF m.on THEN "on" ELSE "off"

Receive(c) ==
    /\ c \in session /\ out[c] # <<>> /\ Head(out[c]) # Goodbye
    /\ out' = [out EXCEPT ![c] = Tail(@)]
    /\ held' = [held EXCEPT ![c] = HeldAfter(@, Head(out[c]))]
    /\ notice' = [notice EXCEPT ![c] = NoticeAfter(@, Head(out[c]))]
    /\ UNCHANGED <<enabled, capVars, capQ, fwd, hubVars, session>>

\* The loop ends: everything held is released, what was in flight is lost.
CloseSession(c) ==
    /\ session' = session \ {c}
    /\ held' = [held EXCEPT ![c] = {}]
    /\ out' = [out EXCEPT ![c] = <<>>]
    /\ notice' = [notice EXCEPT ![c] = "none"]
    /\ UNCHANGED <<enabled, capVars, capQ, fwd, hubVars>>

ReceiveGoodbye(c) ==
    /\ c \in session /\ out[c] # <<>> /\ Head(out[c]) = Goodbye
    /\ CloseSession(c)

\* Cancelled by the user, disconnected, or the server has been silent.
EndSession(c) == c \in session /\ CloseSession(c)

-----------------------------------------------------------------------------
CaptureStep == HotkeyStore \/ Dispatch
ForwarderStep == Forward \/ ForwardAnnounce
HandlerStep(c) ==
    \/ AutoForwardOn(c) \/ Greet(c)
    \/ ToggleStore(c) \/ ToggleRelease(c) \/ ToggleAnnounce(c)
    \/ AutoForwardOff(c) \/ SayGoodbye(c)
ClientStep(c) == Receive(c) \/ ReceiveGoodbye(c)

Next ==
    \/ \E k \in Key : ChordPress(k) \/ KeyPress(k) \/ KeyRelease(k)
    \/ CaptureStep
    \/ ForwarderStep
    \/ \E c \in Conn :
          \/ Join(c) \/ HandlerStep(c) \/ Leave(c)
          \/ \E b \in ToggleRequests : ToggleLoad(c, b)
          \/ ClientStep(c) \/ EndSession(c)

\* Threads and tasks that can run do run; the keyboard, the users who
\* connect and the requests they send are free.
Fairness ==
    /\ WF_vars(CaptureStep) /\ WF_vars(ForwarderStep)
    /\ \A c \in Conn : WF_vars(HandlerStep(c)) /\ WF_vars(ClientStep(c))

Spec == Init /\ [][Next]_vars /\ Fairness

-----------------------------------------------------------------------------
(* Properties.                                                             *)

\* Everything sent has arrived and nobody is between two steps.
Quiet ==
    /\ cap = Idle /\ capQ = <<>> /\ fwd = "idle"
    /\ \A c \in Conn : out[c] = <<>> /\ handler[c] \in {"away", "loop"}

\* ReleaseAll is "Sent when forwarding is switched off or a session ends so
\* nothing stays stuck" (Event::ReleaseAll): with forwarding off and every
\* envelope delivered, no client still holds a key down.
NothingStuckWhenOff ==
    Quiet /\ ~enabled => \A c \in Conn : held[c] = {}

\* The Goodbye of a handler is the last envelope its client is sent: it is
\* out of the registry before it says it, so no broadcast of any actor (the
\* forwarder, another client's toggle) can follow, however they interleave.
GoodbyeIsLast ==
    \A c \in Conn : \A i \in 1..(Len(out[c]) - 1) : out[c][i] # Goodbye

\* While forwarding is on and every envelope has been delivered, a client
\* holds down only keys that stand for one that is down on the server's
\* keyboard: the hotkey eats the release of a forwarded press (what
\* hotkey_swallowed_keys is there to prevent) in one case alone.  That is the
\* hotkey's own key, repeated by the keyboard after its modifiers went up:
\* swallowed by its first press, forwarded by its repeats.  Such a key is in
\* eaten until a later release of it is forwarded or the hotkey switches
\* forwarding off, and no longer.
HeldKeysAreDown ==
    Quiet /\ enabled =>
        \A c \in Conn :
            held[c] \subseteq
                UNION {code_to_key(key_to_code(k)) : k \in pressed \cup eaten}

\* Once everything has been delivered, what a client was last told about
\* forwarding is the flag.
NoticeIsTruth ==
    Quiet => \A c \in registry \cap session :
                notice[c] # "none" => (notice[c] = "on") = enabled

\* A client that has been told forwarding is off gets no key pressed until
\* it is told otherwise.
NoPressAfterOff ==
    [][\A c \in Conn : notice[c] = "off" => held'[c] \subseteq held[c]]_vars

\* If forwarding stays on while a client stays connected, the client ends up
\* not believing it off.
ToldInTheEnd ==
    \A c \in Conn :
        <>[](c \in registry \cap session /\ enabled) => <>[](notice[c] # "off")
=============================================================================
