------------------------------ MODULE Capture -------------------------------
(***************************************************************************)
(* The capture callback on the server's own machine (capture.rs): the      *)
(* hotkey as parse_hotkey reads it (hotkey.rs), the pointer with its warp  *)
(* away from the screen's edge, and, under rdev::grab (Windows, macOS),    *)
(* what the machine itself still sees of the keyboard.  What is forwarded  *)
(* of the keyboard, and the races for the flag, are Forwarding's.          *)
(*                                                                         *)
(* The callback runs on one thread, an event at a time.  The pointer has   *)
(* moved before its event reaches the callback, so moves wait in a queue;  *)
(* a warp puts its own move at the end of it.  One axis of the screen is   *)
(* modelled: dx and dy are treated alike.                                  *)
(***************************************************************************)
EXTENDS Integers, Sequences, FiniteSets, SequencesExt

CONSTANTS Key,      \* keys
          ModKeys,  \* modifier -> the left and the right key that count as it
          ModName,  \* word of the configuration -> modifier
          KeyName,  \* word of the configuration -> key
          Blank,    \* a part of the configured text that is empty
          Unknown,  \* a word that names nothing
          MaxWords, \* bound on the words of the configured hotkey
          Width,    \* of the screen, in pixels
          Edge,     \* EDGE_THRESHOLD
          MaxMoves, \* bound on the moves waiting for the callback
          None      \* no hotkey, no key, no delta

Word   == DOMAIN ModName \cup DOMAIN KeyName \cup {Blank, Unknown}
Pixel  == 0..(Width - 1)
Center == Width \div 2

ASSUME NameAssumption ==
    /\ DOMAIN ModName \cap DOMAIN KeyName = {} /\ Blank # Unknown
    /\ \A w \in {Blank, Unknown} : w \notin DOMAIN ModName \cup DOMAIN KeyName
    /\ \A w \in DOMAIN ModName : ModName[w] \in DOMAIN ModKeys
    /\ \A m \in DOMAIN ModKeys : ModKeys[m] \subseteq Key
    /\ \A w \in DOMAIN KeyName : KeyName[w] \in Key
    /\ None \notin Key
    /\ None \notin [mods : SUBSET DOMAIN ModKeys, key : Key \cup {None}]
ASSUME ScreenAssumption ==
    /\ Width \in Nat /\ Edge \in Nat /\ MaxMoves \in Nat /\ MaxWords \in Nat
    /\ Edge < Center /\ Center < Width - 1 - Edge
    /\ None \notin Int

VARIABLES config,     \* the configured hotkey, in words, until it is parsed
          started,    \* capture runs
          hotkey,     \* CaptureState.hotkey
          enabled,    \* forwarding_enabled, shared with the server
          wasEnabled, \* CaptureState.was_enabled
          pressed,    \* CaptureState.pressed_keys
          swallowed,  \* CaptureState.hotkey_swallowed_keys
          lastKey,    \* the key pressed last, the one the keyboard repeats
          local,      \* keys that are down for the machine's own programs
          excused,    \* keys whose release may be kept from the machine
          seed,       \* CaptureState.seed_next
          warping,    \* CaptureState.warping
          last,       \* CaptureState.last_x
          cursor,     \* where the pointer is
          moves,      \* MouseMoves on their way to the callback
          delta,      \* the MouseDelta the last move produced
          stolen      \* users' moves taken for a warp, whose own is to come

keyVars   == <<pressed, swallowed, lastKey, local, excused>>
mouseVars == <<warping, last, cursor, moves, delta, stolen>>
vars == <<config, started, hotkey, enabled, wasEnabled, seed, keyVars, mouseVars>>

\* A move to x; by is how far the user moved, None for a warp.
Move == [x : Pixel, by : Int \cup {None}]

TypeOK ==
    /\ config \in SeqOf(Word, MaxWords) /\ started \in BOOLEAN
    /\ hotkey = None \/ hotkey \in [mods : SUBSET DOMAIN ModKeys, key : Key]
    /\ {enabled, wasEnabled, seed, warping} \subseteq BOOLEAN
    /\ pressed \subseteq Key /\ swallowed \subseteq Key
    /\ local \subseteq Key /\ excused \subseteq Key
    /\ lastKey \in Key \cup {None}
    /\ last \in Pixel /\ cursor \in Pixel
    /\ moves \in Seq(Move)
    /\ delta = None \/ delta \in [dx : Int, by : Int \cup {None}]
    /\ stolen \in Nat

Init ==
    /\ config \in SeqOf(Word, MaxWords)
    /\ started = FALSE /\ hotkey = None
    /\ enabled = FALSE /\ wasEnabled = FALSE
    /\ pressed = {} /\ swallowed = {} /\ lastKey = None
    /\ local = {} /\ excused = {}
    /\ seed = TRUE /\ warping = FALSE /\ last = 0 /\ cursor = Center
    /\ moves = <<>> /\ delta = None /\ stolen = 0

-----------------------------------------------------------------------------
(* parse_hotkey.                                                           *)

NoKey == [mods |-> {}, key |-> None]

\* Mutant: a second key replaces the first.
LastKeyWins(acc, w) ==
    IF acc = None \/ w = Blank THEN acc
    ELSE IF w \in DOMAIN ModName THEN [acc EXCEPT !.mods = @ \cup {ModName[w]}]
    ELSE IF w \in DOMAIN KeyName THEN [acc EXCEPT !.key = KeyName[w]]
    ELSE None

\* One turn of the loop, which the blank parts do not reach; None once it has
\* returned an error.
ParsePart(acc, w) ==
    IF acc = None \/ w = Blank THEN acc
    ELSE IF w \in DOMAIN ModName THEN [acc EXCEPT !.mods = @ \cup {ModName[w]}]
    ELSE IF w \in DOMAIN KeyName /\ acc.key = None THEN [acc EXCEPT !.key = KeyName[w]]
    ELSE None

\* What the loop holds after each of the parts, in order.
ParseLoop(words) ==
    LET acc[n \in 0..Len(words)] ==
            IF n = 0 THEN NoKey ELSE ParsePart(acc[n - 1], words[n])
    IN  acc

\* Without a key there is no hotkey.
ParseHotkey(words) ==
    LET chord == ParseLoop(words)[Len(words)]
    IN  IF chord = None \/ chord.key = None THEN None ELSE chord

\* The server parses its configuration; a hotkey that is no chord disables
\* the toggle, and capture starts without one.
Start ==
    /\ ~started
    /\ started' = TRUE
    /\ hotkey' = ParseHotkey(config)
    /\ config' = <<>>
    /\ UNCHANGED <<enabled, wasEnabled, seed, keyVars, mouseVars>>

\* A client's request or auto_forward moves the flag.
SetEnabled(b) ==
    /\ started /\ enabled # b
    /\ enabled' = b
    /\ excused' = IF b THEN excused \cup local ELSE excused
    /\ UNCHANGED <<config, started, hotkey, wasEnabled, seed, pressed, swallowed,
                   lastKey, local, mouseVars>>

-----------------------------------------------------------------------------
(* process_event.  Whatever the event, the callback first notices that     *)
(* forwarding has gone on and asks for the pointer to be placed anew.      *)

Seeded == seed \/ (enabled /\ ~wasEnabled)

Notice == wasEnabled' = enabled /\ seed' = Seeded

compute_modifiers(held) == {m \in DOMAIN ModKeys : ModKeys[m] \cap held # {}}

ChordSatisfied(k, held) ==
    /\ hotkey # None
    /\ k = hotkey.key /\ hotkey.mods \subseteq compute_modifiers(held)

\* try_fire_hotkey, unless the debounce time has not passed.
FireHotkey ==
    /\ enabled' = ~enabled /\ wasEnabled' = ~enabled
    /\ seed' = (Seeded \/ ~enabled)
    /\ excused' = IF ~enabled THEN excused \cup local ELSE excused

\* A new key, or a repeat of the one pressed last.
CanPress(k) == started /\ (k \notin pressed \/ k = lastKey)

\* The chord is swallowed, repeated or not.
ChordPress(k) ==
    /\ CanPress(k) /\ ChordSatisfied(k, pressed \cup {k})
    /\ pressed' = pressed \cup {k}
    /\ swallowed' = swallowed \cup {k}
    /\ lastKey' = k
    /\ \/ Notice /\ UNCHANGED <<enabled, excused>>
       \/ k \notin pressed /\ FireHotkey
    /\ UNCHANGED <<config, started, hotkey, local, mouseVars>>

\* Any other press is swallowed while forwarding is on.  A repeat of the
\* hotkey's key after its modifiers were let go is one of these.
KeyPress(k) ==
    /\ CanPress(k) /\ ~ChordSatisfied(k, pressed \cup {k})
    /\ pressed' = pressed \cup {k}
    /\ lastKey' = k
    /\ local' = IF enabled THEN local ELSE local \cup {k}
    /\ excused' = IF ~enabled /\ k \in swallowed THEN excused \cup {k} ELSE excused
    /\ Notice
    /\ UNCHANGED <<config, started, hotkey, enabled, swallowed, mouseVars>>

\* Mutant: the release of the hotkey's key is always swallowed.
KeyReleaseEaten(k) ==
    /\ started /\ k \in pressed
    /\ pressed' = pressed \ {k}
    /\ swallowed' = swallowed \ {k}
    /\ IF enabled \/ (hotkey # None /\ k = hotkey.key)
         THEN UNCHANGED <<local, excused>>
         ELSE local' = local \ {k} /\ excused' = excused \ {k}
    /\ Notice
    /\ UNCHANGED <<config, started, hotkey, enabled, lastKey, mouseVars>>

\* A release is swallowed while forwarding is on, or if the press was
\* swallowed for being the chord's.
KeyRelease(k) ==
    /\ started /\ k \in pressed
    /\ pressed' = pressed \ {k}
    /\ swallowed' = swallowed \ {k}
    /\ IF enabled \/ k \in swallowed
         THEN UNCHANGED <<local, excused>>
         ELSE local' = local \ {k} /\ excused' = excused \ {k}
    /\ Notice
    /\ UNCHANGED <<config, started, hotkey, enabled, lastKey, mouseVars>>

-----------------------------------------------------------------------------
(* The pointer.                                                            *)

\* The user moves the pointer; the callback will hear of it.
UserMoves(x) ==
    /\ started /\ x # cursor /\ Len(moves) < MaxMoves
    /\ moves' = Append(moves, [x |-> x, by |-> x - cursor])
    /\ cursor' = x
    /\ UNCHANGED <<config, started, hotkey, enabled, wasEnabled, seed, keyVars,
                   warping, last, delta, stolen>>

NearEdge(x) == x <= Edge \/ x >= Width - 1 - Edge

IsWarp == Head(moves).by = None

\* The first move after a warp is taken for the warp's own.
TakeForWarp ==
    /\ started /\ moves # <<>> /\ warping
    /\ warping' = FALSE
    /\ stolen' = IF IsWarp THEN stolen ELSE stolen + 1
    /\ last' = Head(moves).x
    /\ delta' = None
    /\ moves' = Tail(moves)
    /\ Notice
    /\ UNCHANGED <<config, started, hotkey, enabled, keyVars, cursor>>

\* Mutant: the place is not remembered.
TakeForSeedForgets ==
    /\ started /\ moves # <<>> /\ ~warping /\ Seeded
    /\ seed' = FALSE /\ wasEnabled' = enabled
    /\ stolen' = IF IsWarp THEN stolen - 1 ELSE stolen
    /\ delta' = None
    /\ moves' = Tail(moves)
    /\ UNCHANGED <<config, started, hotkey, enabled, keyVars, warping, last, cursor>>

\* The first move after forwarding went on only places the pointer.
TakeForSeed ==
    /\ started /\ moves # <<>> /\ ~warping /\ Seeded
    /\ seed' = FALSE /\ wasEnabled' = enabled
    /\ stolen' = IF IsWarp THEN stolen - 1 ELSE stolen
    /\ last' = Head(moves).x
    /\ delta' = None
    /\ moves' = Tail(moves)
    /\ UNCHANGED <<config, started, hotkey, enabled, keyVars, warping, cursor>>

\* simulate(MouseMove) to the middle; if it fails the pointer stays.
Warp ==
    \/ /\ warping' = TRUE
       /\ cursor' = Center
       /\ moves' = Append(Tail(moves), [x |-> Center, by |-> None])
    \/ UNCHANGED <<warping, cursor>> /\ moves' = Tail(moves)

\* Any other move is a delta, forwarded while forwarding is on; near the edge
\* the pointer is warped.
TakeForMotion ==
    /\ started /\ moves # <<>> /\ ~warping /\ ~Seeded
    /\ LET m == Head(moves)  dx == m.x - last IN
         /\ delta' = IF enabled /\ dx # 0 THEN [dx |-> dx, by |-> m.by] ELSE None
         /\ last' = m.x
         /\ stolen' = IF IsWarp THEN stolen - 1 ELSE stolen
         /\ IF enabled /\ NearEdge(m.x) THEN Warp
            ELSE UNCHANGED <<warping, cursor>> /\ moves' = Tail(moves)
    /\ Notice
    /\ UNCHANGED <<config, started, hotkey, enabled, keyVars>>

-----------------------------------------------------------------------------
Next ==
    \/ Start
    \/ \E b \in BOOLEAN : SetEnabled(b)
    \/ \E k \in Key : ChordPress(k) \/ KeyPress(k) \/ KeyRelease(k)
    \/ \E x \in Pixel : UserMoves(x)
    \/ TakeForWarp \/ TakeForSeed \/ TakeForMotion

Spec == Init /\ [][Next]_vars

-----------------------------------------------------------------------------
(* Properties.                                                             *)

\* Under grab, a key that is up on the keyboard is up for the machine's own
\* programs.  The two ways out are named: its release was swallowed because
\* forwarding went on while it was down (Ctrl and Alt of every switch-on by
\* the chord), or it repeated, as an ordinary key, after its press had been
\* swallowed as the chord's.
LocalKeysAreDown == local \subseteq pressed \cup excused

\* A delta that is forwarded is what the user moved, never the warp's own jump
\* or a jump from a place the pointer has left, unless a move of the user's
\* came between a warp and its event and was taken for it.
MotionIsTheUsers ==
    [][delta' # delta /\ delta' # None => delta'.dx = delta'.by \/ stolen > 0]_vars

\* The chord a list of words stands for: every word names something or is
\* blank, and exactly one of them names a key.
Listed(words) ==
    LET Names(f) == {i \in DOMAIN words : words[i] \in DOMAIN f}
    IN  IF /\ \A i \in DOMAIN words : words[i] # Unknown
           /\ \E i \in DOMAIN words : Names(KeyName) = {i}
        THEN [mods |-> {ModName[words[i]] : i \in Names(ModName)},
              key  |-> KeyName[words[CHOOSE i \in Names(KeyName) : TRUE]]]
        ELSE None

\* A configured hotkey is the chord of all its modifiers and its one key,
\* whatever their order; with no key, two keys or an unknown word the server
\* runs without one.
ParsesAsListed == [][started' # started => hotkey' = Listed(config)]_vars
=============================================================================
