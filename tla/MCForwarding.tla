---------------------------- MODULE MCForwarding ----------------------------
(* Instances of Forwarding for TLC: the hotkey's key f and the two Alt     *)
(* keys, which count as one modifier and inject as one key.                *)
EXTENDS Forwarding, TLC

CONSTANTS c1, c2, f, alt, altgr, fKey, altKey

MCConn1 == {c1}
MCConn  == {c1, c2}
MCSymmetry == Permutations(MCConn)

MCChord == {f, alt, altgr}
MCPlain == {alt}
MCHotKey == {f}

MCCode     == 1..3
MCInjected == {fKey, altKey}
MCKeyCode  == [k \in Key |-> CASE k = f -> 1 [] k = alt -> 2 [] k = altgr -> 3]
MCCodeKey  == [c \in 1..3 |-> IF c = 1 THEN fKey ELSE altKey]

MCHot  == f
MCMods == {{alt, altgr}}
MCNone == {}
MCBoth == BOOLEAN
MCOff  == {FALSE}
=============================================================================
