----------------------- MODULE CaptureClipboardProofs -----------------------
(***************************************************************************)
(* The capture callback, for any keyboard, any chord and any screen.  Two  *)
(* arguments.  What the machine's own programs believe of the keyboard:    *)
(* while forwarding is on, and for a key whose press was swallowed, every  *)
(* key they hold is one whose release is already excused.  And the         *)
(* pointer: the queue is a chain of places, each of the user's moves       *)
(* leading on from the one before, and the warps in it are those still to  *)
(* be recognised and those whose place a user's move has taken.            *)
(*                                                                         *)
(* Then the clipboard, for any number of clients: whoever copied last has  *)
(* the last word, and until it has been heard everywhere nobody answers.   *)
(*                                                                         *)
(* The two components share this module and nothing else.                  *)
(***************************************************************************)
EXTENDS Capture, Clipboard, FiniteSetTheorems, SequenceTheorems,
        WellFoundedInduction, TLAPS

-----------------------------------------------------------------------------
(* The keyboard.                                                           *)

\* While forwarding is on, no release reaches the machine.
OnExcusesAll == enabled => local \subseteq excused

\* A swallowed key whose repeat reached the machine is excused.
SwallowedIsExcused == swallowed \cap local \subseteq excused

\* A key that repeats for the machine is not about to complete the chord: the
\* modifiers would have to be pressed after it, and would repeat instead.
RepeatIsNoChord ==
    lastKey \in pressed \cap local /\ lastKey \notin excused
        => ~ChordSatisfied(lastKey, pressed)

\* Nothing is captured before the hotkey is parsed.
QuietBeforeStart == ~started => pressed = {} /\ local = {}

KeyInv ==
    /\ enabled \in BOOLEAN
    /\ LocalKeysAreDown
    /\ OnExcusesAll
    /\ SwallowedIsExcused
    /\ RepeatIsNoChord
    /\ QuietBeforeStart

-----------------------------------------------------------------------------
(* The pointer.                                                            *)

MouseTypeOK ==
    /\ seed \in BOOLEAN /\ warping \in BOOLEAN
    /\ last \in Pixel /\ cursor \in Pixel
    /\ moves \in Seq(Move)
    /\ stolen \in Nat

\* Each of the user's moves in the queue leads on from the place before it.
MovesAreAChain ==
    \A i \in 2..Len(moves) :
        moves[i].by # None => moves[i].by = moves[i].x - moves[i - 1].x

\* Once the pointer was placed, the first of them leads on from last_x.
ChainBeginsAtLast ==
    ~seed => /\ moves = <<>> => cursor = last
             /\ moves # <<>> /\ moves[1].by # None => moves[1].by = moves[1].x - last

\* The chain ends where the pointer is.
ChainEndsAtCursor == moves # <<>> => cursor = moves[Len(moves)].x

Warps(q) == {i \in 1..Len(q) : q[i].by = None}

\* A warp in the queue is the one to be recognised next, or one whose place a
\* move of the user's has taken.
WarpsAreCounted ==
    Cardinality(Warps(moves)) = stolen + (IF warping THEN 1 ELSE 0)

MouseInv ==
    /\ MouseTypeOK
    /\ MovesAreAChain
    /\ ChainBeginsAtLast
    /\ ChainEndsAtCursor
    /\ WarpsAreCounted

-----------------------------------------------------------------------------
(* Keyboard: every step keeps KeyInv.                                      *)

\* Fewer keys down, fewer modifiers: a chord is not completed by a release.
LEMMA ReleaseCompletesNothing ==
  ASSUME NEW k, NEW held, NEW less \in SUBSET held, ChordSatisfied(k, less)
  PROVE  ChordSatisfied(k, held)
  BY DEF ChordSatisfied, compute_modifiers

\* Before capture starts no key is known, to it or to the machine.
LEMMA KeyInit == Init => KeyInv
  BY DEF Init, KeyInv, LocalKeysAreDown, OnExcusesAll, SwallowedIsExcused,
     RepeatIsNoChord, QuietBeforeStart

\* The chord's press does not reach the machine; if it switches forwarding on,
\* all that the machine holds is excused.
LEMMA ChordPressKeeps == ASSUME KeyInv, NEW k \in Key, ChordPress(k) PROVE KeyInv'
  <1> USE DEF KeyInv, ChordPress, CanPress
  <1>1. /\ started' = started /\ hotkey' = hotkey /\ local' = local
        /\ excused \subseteq excused' /\ enabled' \in BOOLEAN
        /\ enabled' /\ ~enabled => local \subseteq excused'
    <2>1. CASE UNCHANGED <<enabled, excused>>  BY <2>1
    <2>2. CASE FireHotkey
      <3>1. excused' = excused \cup (IF ~enabled THEN local ELSE {})
        BY <2>2 DEF FireHotkey
      <3> QED  BY <2>2, <3>1 DEF FireHotkey
    <2> QED  BY <2>1, <2>2
  <1>2. k \in local => k \in excused
    <2>1. CASE k \notin pressed  BY <2>1 DEF LocalKeysAreDown
    <2>2. CASE k \in pressed
      <3>1. pressed \cup {k} = pressed  BY <2>2
      <3> QED  BY <2>2, <3>1 DEF RepeatIsNoChord
    <2> QED  BY <2>1, <2>2
  <1>3. LocalKeysAreDown'  BY <1>1 DEF LocalKeysAreDown
  <1>4. OnExcusesAll'  BY <1>1 DEF OnExcusesAll
  <1>5. SwallowedIsExcused'  BY <1>1, <1>2 DEF SwallowedIsExcused
  <1>6. RepeatIsNoChord'  BY <1>1, <1>2 DEF RepeatIsNoChord
  <1>7. QuietBeforeStart'  BY <1>1 DEF QuietBeforeStart
  <1> QED  BY <1>1, <1>3, <1>4, <1>5, <1>6, <1>7

\* Another press reaches the machine while forwarding is off, excused if the
\* key had been swallowed.
LEMMA KeyPressKeeps == ASSUME KeyInv, NEW k \in Key, KeyPress(k) PROVE KeyInv'
  <1> USE DEF KeyInv, KeyPress, CanPress
  <1>1. LocalKeysAreDown' /\ OnExcusesAll' /\ SwallowedIsExcused'
    BY DEF LocalKeysAreDown, OnExcusesAll, SwallowedIsExcused
  <1>2. RepeatIsNoChord'  BY DEF RepeatIsNoChord, ChordSatisfied, compute_modifiers
  <1> QED  BY <1>1, <1>2 DEF QuietBeforeStart

\* A release that does not reach the machine is that of a key that is excused.
LEMMA KeyReleaseKeeps == ASSUME KeyInv, NEW k \in Key, KeyRelease(k) PROVE KeyInv'
  <1> USE DEF KeyInv, KeyRelease
  <1>1. k \in local => k \in excused \/ k \notin local'
    BY DEF OnExcusesAll, SwallowedIsExcused
  <1>2. /\ local' \subseteq local
        /\ \A j \in local' : j \in excused => j \in excused'
    OBVIOUS
  <1>3. LocalKeysAreDown' /\ OnExcusesAll' /\ SwallowedIsExcused'
    BY <1>1, <1>2 DEF LocalKeysAreDown, OnExcusesAll, SwallowedIsExcused
  <1>4. RepeatIsNoChord'
    <2> SUFFICES ASSUME (lastKey \in pressed \cap local /\ lastKey \notin excused)',
                        ChordSatisfied(lastKey, pressed)'
                 PROVE  FALSE
      BY DEF RepeatIsNoChord
    <2>1. lastKey \in pressed \cap local /\ lastKey \notin excused
      BY <1>2
    <2>2. ChordSatisfied(lastKey, pressed')  BY DEF ChordSatisfied, compute_modifiers
    <2>3. pressed' \in SUBSET pressed  OBVIOUS
    <2> QED  BY <2>1, <2>2, <2>3, ReleaseCompletesNothing DEF RepeatIsNoChord
  <1> QED  BY <1>3, <1>4 DEF QuietBeforeStart

\* The other steps leave the keyboard alone.
LEMMA KeyNext == KeyInv /\ [Next]_vars => KeyInv'
  <1> SUFFICES ASSUME KeyInv, [Next]_vars PROVE KeyInv'  OBVIOUS
  <1> USE DEF KeyInv, LocalKeysAreDown, OnExcusesAll, SwallowedIsExcused,
          RepeatIsNoChord, QuietBeforeStart, ChordSatisfied, keyVars
  <1>1. CASE Start  BY <1>1 DEF Start
  <1>2. ASSUME NEW b \in BOOLEAN, SetEnabled(b) PROVE KeyInv'
    BY <1>2 DEF SetEnabled
  <1>3. ASSUME NEW x \in Pixel, UserMoves(x) PROVE KeyInv'
    BY <1>3 DEF UserMoves
  <1>4. CASE TakeForWarp \/ TakeForSeed \/ TakeForMotion
    BY <1>4 DEF TakeForWarp, TakeForSeed, TakeForMotion
  <1>5. CASE UNCHANGED vars  BY <1>5 DEF vars
  <1> QED
    BY <1>1, <1>2, <1>3, <1>4, <1>5, ChordPressKeeps, KeyPressKeeps, KeyReleaseKeeps
       DEF Next

\* Under grab, the machine's own programs hold no key that is up on the
\* keyboard, but for releases swallowed with forwarding on or after a chord.
THEOREM NoLocalKeySticks == Spec => []LocalKeysAreDown
  <1>1. KeyInv => LocalKeysAreDown  BY DEF KeyInv
  <1> QED  BY <1>1, KeyInit, KeyNext, PTL DEF Spec

-----------------------------------------------------------------------------
(* Pointer: counting warps.                                                *)

\* A warp joins the queue at its end.
LEMMA WarpsAppend ==
  ASSUME NEW q \in Seq(Move), NEW m \in Move
  PROVE  /\ IsFiniteSet(Warps(q)) /\ Cardinality(Warps(q)) \in Nat
         /\ Cardinality(Warps(Append(q, m)))
              = Cardinality(Warps(q)) + (IF m.by = None THEN 1 ELSE 0)
  <1> DEFINE n == Len(q)  r == Append(q, m)
  <1>1. n \in Nat  OBVIOUS
  <1>2. IsFiniteSet(Warps(q)) /\ Cardinality(Warps(q)) \in Nat
    <2>1. Warps(q) \in SUBSET (1..n) /\ IsFiniteSet(1..n)
      BY <1>1, FS_Interval DEF Warps
    <2> QED  BY <2>1, FS_Subset, FS_CardinalityType
  <1>3. Len(r) = n + 1 /\ r[n + 1] = m /\ \A i \in 1..n : r[i] = q[i]  OBVIOUS
  <1>4. \A i \in 1..(n + 1) : i \in 1..n \/ i = n + 1  BY <1>1
  <1> HIDE DEF r
  <1>5. CASE m.by = None
    <2>1. Warps(r) = Warps(q) \cup {n + 1}  BY <1>1, <1>3, <1>4, <1>5 DEF Warps
    <2>2. n + 1 \notin Warps(q)  BY <1>1 DEF Warps
    <2> QED  BY <1>2, <1>5, <2>1, <2>2, FS_AddElement DEF r
  <1>6. CASE m.by # None
    <2>1. Warps(r) = Warps(q)  BY <1>1, <1>3, <1>4, <1>6 DEF Warps
    <2> QED  BY <1>2, <1>6, <2>1 DEF r
  <1> QED  BY <1>5, <1>6

\* It leaves at the front.
LEMMA WarpsTail ==
  ASSUME NEW q \in Seq(Move), q # <<>>
  PROVE  Cardinality(Warps(Tail(q)))
           = Cardinality(Warps(q)) - (IF q[1].by = None THEN 1 ELSE 0)
  <1> DEFINE n == Len(q)  t == Tail(q)  W == Warps(q) \ {1}
             f == [i \in W |-> i - 1]
  <1>1. n \in Nat /\ n >= 1  OBVIOUS
  <1>2. IsFiniteSet(Warps(q))
    <2>1. Warps(q) \in SUBSET (1..n) /\ IsFiniteSet(1..n)
      BY <1>1, FS_Interval DEF Warps
    <2> QED  BY <2>1, FS_Subset
  <1>3. Len(t) = n - 1 /\ \A i \in 1..(n - 1) : t[i] = q[i + 1]  OBVIOUS
  <1> HIDE DEF t
  <1>4. f \in Bijection(W, Warps(t))
    <2>1. \A i \in W : i \in 2..n /\ q[i].by = None  BY <1>1 DEF Warps
    <2>2. \A i \in W : f[i] \in Warps(t)
      BY <1>1, <1>3, <2>1 DEF Warps
    <2>3. \A i, j \in W : f[i] = f[j] => i = j  BY <2>1
    <2>4. \A j \in Warps(t) : j + 1 \in W /\ f[j + 1] = j
      BY <1>1, <1>3 DEF Warps
    <2> QED  BY <2>2, <2>3, <2>4 DEF Bijection, Injection, Surjection, IsInjective
  <1>5. IsFiniteSet(W) /\ Cardinality(Warps(t)) = Cardinality(W)
    BY <1>2, <1>4, FS_RemoveElement, FS_Bijection DEF ExistsBijection
  <1>6. Cardinality(W) = Cardinality(Warps(q)) - (IF q[1].by = None THEN 1 ELSE 0)
    <2>1. 1 \in Warps(q) <=> q[1].by = None  BY <1>1 DEF Warps
    <2>2. Cardinality(W) = IF 1 \in Warps(q) THEN Cardinality(Warps(q)) - 1
                                            ELSE Cardinality(Warps(q))
      BY <1>2, FS_RemoveElement
    <2>3. Cardinality(Warps(q)) \in Nat  BY <1>2, FS_CardinalityType
    <2> HIDE DEF W
    <2> QED  BY <2>1, <2>2, <2>3
  <1> QED  BY <1>5, <1>6 DEF t

-----------------------------------------------------------------------------
(* Pointer: every step keeps MouseInv.                                     *)

\* The middle of the screen is on it.
LEMMA CenterIsPixel ==
  Center \in Pixel /\ Pixel \subseteq Int /\ None \notin Int
  <1>1. Width \in Nat /\ Edge \in Nat /\ None \notin Int  BY ScreenAssumption
  <1>2. Width \div 2 \in Int /\ Edge < Width \div 2 /\ Width \div 2 < Width - 1 - Edge
    BY <1>1, ScreenAssumption DEF Center
  <1> QED  BY <1>1, <1>2 DEF Center, Pixel

\* What is known of the queue and of its first move.
LEMMA QueueFacts ==
  ASSUME MouseTypeOK
  PROVE  /\ Len(moves) \in Nat
         /\ \A i \in 1..Len(moves) : /\ moves[i] \in Move /\ moves[i].x \in Pixel
                                     /\ moves[i].by \in Int \cup {None}
         /\ moves # <<>> => /\ Len(moves) >= 1
                            /\ Head(moves) = moves[1]
                            /\ Tail(moves) \in Seq(Move)
                            /\ Len(Tail(moves)) = Len(moves) - 1
                            /\ \A i \in 1..(Len(moves) - 1) :
                                 Tail(moves)[i] = moves[i + 1]
  <1>1. /\ Len(moves) \in Nat /\ \A i \in 1..Len(moves) : moves[i] \in Move
    BY DEF MouseTypeOK
  <1>2. \A m \in Move : m.x \in Pixel /\ m.by \in Int \cup {None}  BY DEF Move
  <1>3. ASSUME moves # <<>>
        PROVE  /\ Len(moves) >= 1 /\ Head(moves) = moves[1]
               /\ Tail(moves) \in Seq(Move) /\ Len(Tail(moves)) = Len(moves) - 1
               /\ \A i \in 1..(Len(moves) - 1) : Tail(moves)[i] = moves[i + 1]
    BY <1>3 DEF MouseTypeOK
  <1> QED  BY <1>1, <1>2, <1>3

\* Before capture starts no move is on its way.
LEMMA MouseInit == Init => MouseInv
  <1> SUFFICES ASSUME Init PROVE MouseInv  OBVIOUS
  <1> USE DEF Init
  <1>1. MouseTypeOK
    <2>1. 0 \in Pixel  BY CenterIsPixel, ScreenAssumption DEF Pixel, Center
    <2>2. seed \in BOOLEAN /\ warping \in BOOLEAN  OBVIOUS
    <2>3. moves \in Seq(Move) /\ stolen \in Nat  OBVIOUS
    <2> QED  BY <2>1, <2>2, <2>3, CenterIsPixel DEF MouseTypeOK
  <1>2. Len(moves) = 0 /\ Warps(moves) = {}  BY DEF Warps
  <1>3. WarpsAreCounted  BY <1>2, FS_EmptySet DEF WarpsAreCounted
  <1>4. MovesAreAChain /\ ChainBeginsAtLast /\ ChainEndsAtCursor
    BY <1>2 DEF MovesAreAChain, ChainBeginsAtLast, ChainEndsAtCursor
  <1> QED  BY <1>1, <1>3, <1>4 DEF MouseInv

\* The user's move leads on from where the pointer is.
LEMMA UserMovesKeeps == ASSUME MouseInv, NEW x \in Pixel, UserMoves(x) PROVE MouseInv'
  <1> DEFINE m == [x |-> x, by |-> x - cursor]  n == Len(moves)
  <1>0. /\ MouseTypeOK /\ MovesAreAChain /\ ChainBeginsAtLast
        /\ ChainEndsAtCursor /\ WarpsAreCounted
    BY DEF MouseInv
  <1>1. x \in Int /\ cursor \in Int  BY <1>0, CenterIsPixel DEF MouseTypeOK
  <1>2. m \in Move /\ m.by # None /\ m.by = m.x - cursor /\ m.x = x
    BY <1>1, CenterIsPixel DEF Move
  <1>3. /\ moves' = Append(moves, m) /\ cursor' = x
        /\ UNCHANGED <<seed, warping, last, stolen>>
    BY DEF UserMoves
  <1> HIDE DEF m
  <1>4. /\ n \in Nat /\ moves' \in Seq(Move) /\ Len(moves') = n + 1
        /\ moves'[n + 1] = m /\ \A i \in 1..n : moves'[i] = moves[i]
    BY <1>0, <1>2, <1>3 DEF MouseTypeOK
  <1>5. MouseTypeOK'  BY <1>0, <1>3, <1>4 DEF MouseTypeOK
  <1>6. moves # <<>> => n >= 1 /\ cursor = moves[n].x
    BY <1>0, QueueFacts DEF ChainEndsAtCursor
  <1>7. moves = <<>> => n = 0  OBVIOUS
  <1>8. moves' # <<>>  BY <1>4
  <1>9. MovesAreAChain'
    <2> SUFFICES ASSUME NEW i \in 2..(n + 1), moves'[i].by # None
                 PROVE  moves'[i].by = moves'[i].x - moves'[i - 1].x
      BY <1>4 DEF MovesAreAChain
    <2>1. CASE i = n + 1
      <3>1. moves # <<>> /\ i - 1 = n /\ n \in 1..n  BY <1>4, <1>7, <2>1
      <3>2. moves'[i - 1].x = cursor  BY <1>4, <1>6, <3>1
      <3> QED  BY <1>2, <1>4, <2>1, <3>2
    <2>2. CASE i # n + 1
      <3>1. i \in 2..n /\ i \in 1..n /\ i - 1 \in 1..n  BY <1>4, <2>2
      <3> QED  BY <1>0, <1>4, <3>1 DEF MovesAreAChain
    <2> QED  BY <2>1, <2>2
  <1>10. ChainBeginsAtLast'
    <2>1. CASE moves = <<>>
      <3>1. moves'[1] = m  BY <1>4, <1>7, <2>1
      <3> QED  BY <1>0, <1>2, <1>3, <1>8, <2>1, <3>1 DEF ChainBeginsAtLast
    <2>2. CASE moves # <<>>
      <3>1. moves'[1] = moves[1]  BY <1>4, <1>6, <2>2
      <3> QED  BY <1>0, <1>3, <1>8, <2>2, <3>1 DEF ChainBeginsAtLast
    <2> QED  BY <2>1, <2>2
  <1>11. ChainEndsAtCursor'  BY <1>2, <1>3, <1>4 DEF ChainEndsAtCursor
  <1>12. WarpsAreCounted'
    <2>1. moves \in Seq(Move)  BY <1>0 DEF MouseTypeOK
    <2>2. /\ Cardinality(Warps(moves)) \in Nat
          /\ Cardinality(Warps(Append(moves, m)))
               = Cardinality(Warps(moves)) + (IF m.by = None THEN 1 ELSE 0)
      BY <1>2, <2>1, WarpsAppend
    <2>3. Warps(moves)' = Warps(Append(moves, m))  BY <1>3 DEF Warps
    <2>4. Cardinality(Warps(moves)') = Cardinality(Warps(moves))
      BY <1>2, <2>2, <2>3
    <2> QED  BY <1>0, <1>3, <2>4 DEF WarpsAreCounted
  <1> QED  BY <1>5, <1>9, <1>10, <1>11, <1>12 DEF MouseInv

\* The callback takes the first move, and last_x is where it went: what
\* remains leads on from there, whether or not the pointer was placed before.
LEMMA TakenKeepsChain ==
  ASSUME MouseInv, moves # <<>>, moves' = Tail(moves), last' = Head(moves).x,
         cursor' = cursor, seed' \in BOOLEAN
  PROVE  /\ MovesAreAChain' /\ ChainBeginsAtLast' /\ ChainEndsAtCursor'
         /\ moves' \in Seq(Move) /\ last' \in Pixel /\ cursor' \in Pixel
  <1> DEFINE n == Len(moves)
  <1>0. MouseTypeOK /\ MovesAreAChain /\ ChainEndsAtCursor  BY DEF MouseInv
  <1>1. /\ n \in Nat /\ n >= 1 /\ Head(moves) = moves[1]
        /\ moves' \in Seq(Move) /\ Len(moves') = n - 1
        /\ \A i \in 1..(n - 1) : moves'[i] = moves[i + 1]
        /\ \A i \in 1..n : moves[i].x \in Pixel
    BY <1>0, QueueFacts
  <1>2. last' = moves[1].x /\ last' \in Pixel  BY <1>1
  <1>3. cursor = moves[n].x  BY <1>0 DEF ChainEndsAtCursor
  <1>4. \A i \in 2..n : moves[i].by # None => moves[i].by = moves[i].x - moves[i - 1].x
    BY <1>0 DEF MovesAreAChain
  <1>5. cursor' \in Pixel  BY <1>0 DEF MouseTypeOK
  <1>6. MovesAreAChain'
    <2> SUFFICES ASSUME NEW i \in 2..(n - 1), moves'[i].by # None
                 PROVE  moves'[i].by = moves'[i].x - moves'[i - 1].x
      BY <1>1 DEF MovesAreAChain
    <2>1. i \in 1..(n - 1) /\ i - 1 \in 1..(n - 1) /\ i + 1 \in 2..n
          /\ (i - 1) + 1 = i /\ (i + 1) - 1 = i
      BY <1>1
    <2> QED  BY <1>1, <1>4, <2>1
  <1>7. ChainBeginsAtLast'
    <2>1. CASE moves' = <<>>
      <3>0. Len(<<>>) = 0  OBVIOUS
      <3>1. Len(moves') = 0  BY <2>1, <3>0, Zenon
      <3>2. n = 1  BY <1>1, <3>1
      <3> QED  BY <1>2, <1>3, <2>1, <3>2 DEF ChainBeginsAtLast
    <2>2. CASE moves' # <<>>
      <3>1. n >= 2 /\ 1 \in 1..(n - 1) /\ 2 \in 2..n  BY <1>1, <2>2
      <3>2. moves'[1] = moves[2]  BY <1>1, <3>1
      <3>3. moves[2].by # None => moves[2].by = moves[2].x - moves[1].x
        BY <1>4, <3>1
      <3> QED  BY <1>2, <2>2, <3>2, <3>3 DEF ChainBeginsAtLast
    <2> QED  BY <2>1, <2>2
  <1>8. ChainEndsAtCursor'
    <2> SUFFICES ASSUME moves' # <<>> PROVE cursor = moves'[n - 1].x
      BY <1>1 DEF ChainEndsAtCursor
    <2>1. n - 1 \in 1..(n - 1) /\ (n - 1) + 1 = n  BY <1>1
    <2>2. moves'[n - 1] = moves[n]  BY <1>1, <2>1
    <2> QED  BY <1>3, <2>2
  <1> QED  BY <1>1, <1>2, <1>5, <1>6, <1>7, <1>8

\* Taking it changes the number of warps in the queue by itself.
LEMMA TakenCountsWarps ==
  ASSUME MouseInv, moves # <<>>
  PROVE  /\ Cardinality(Warps(moves)) \in Nat
         /\ IsWarp => Cardinality(Warps(moves)) >= 1
         /\ Cardinality(Warps(Tail(moves)))
              = Cardinality(Warps(moves)) - (IF IsWarp THEN 1 ELSE 0)
  <1>1. moves \in Seq(Move) /\ Tail(moves) \in Seq(Move) /\ Head(moves) = moves[1]
    BY QueueFacts DEF MouseInv, MouseTypeOK
  <1>2. IsFiniteSet(Warps(moves)) /\ IsFiniteSet(Warps(Tail(moves)))
    <2>1. [x |-> Center, by |-> None] \in Move  BY CenterIsPixel DEF Move
    <2> QED  BY <1>1, <2>1, WarpsAppend
  <1>3. Cardinality(Warps(moves)) \in Nat /\ Cardinality(Warps(Tail(moves))) \in Nat
    BY <1>2, FS_CardinalityType
  <1>4. Cardinality(Warps(Tail(moves)))
          = Cardinality(Warps(moves)) - (IF moves[1].by = None THEN 1 ELSE 0)
    BY <1>1, WarpsTail
  <1> QED  BY <1>1, <1>3, <1>4 DEF IsWarp

\* The move that is taken for a warp is one, or a user's that is counted.
LEMMA TakeForWarpKeeps == ASSUME MouseInv, TakeForWarp PROVE MouseInv'
  <1> USE DEF TakeForWarp
  <1>1. seed' \in BOOLEAN  BY DEF Notice, Seeded, MouseInv, MouseTypeOK
  <1>2. /\ MovesAreAChain' /\ ChainBeginsAtLast' /\ ChainEndsAtCursor'
        /\ moves' \in Seq(Move) /\ last' \in Pixel /\ cursor' \in Pixel
    BY <1>1, TakenKeepsChain
  <1>3. stolen \in Nat /\ warping /\ ~warping'  BY DEF MouseInv, MouseTypeOK
  <1>4. stolen' = (IF IsWarp THEN stolen ELSE stolen + 1) /\ stolen' \in Nat
    BY <1>3
  <1>5. Warps(moves)' = Warps(Tail(moves))  BY DEF Warps
  <1>6. WarpsAreCounted'
    BY <1>3, <1>4, <1>5, TakenCountsWarps DEF MouseInv, WarpsAreCounted
  <1>7. MouseTypeOK'  BY <1>1, <1>2, <1>4 DEF MouseTypeOK
  <1> QED  BY <1>2, <1>6, <1>7 DEF MouseInv

\* The move that places the pointer begins the chain anew.
LEMMA TakeForSeedKeeps == ASSUME MouseInv, TakeForSeed PROVE MouseInv'
  <1> USE DEF TakeForSeed
  <1>1. seed' \in BOOLEAN  OBVIOUS
  <1>2. /\ MovesAreAChain' /\ ChainBeginsAtLast' /\ ChainEndsAtCursor'
        /\ moves' \in Seq(Move) /\ last' \in Pixel /\ cursor' \in Pixel
    BY <1>1, TakenKeepsChain
  <1>3. /\ stolen \in Nat /\ ~warping /\ warping' = warping /\ warping \in BOOLEAN
        /\ Cardinality(Warps(moves)) = stolen
    BY DEF MouseInv, MouseTypeOK, WarpsAreCounted
  <1>4. stolen' = (IF IsWarp THEN stolen - 1 ELSE stolen) /\ stolen' \in Nat
    BY <1>3, TakenCountsWarps
  <1>5. Warps(moves)' = Warps(Tail(moves))  BY DEF Warps
  <1>6. WarpsAreCounted'
    BY <1>3, <1>4, <1>5, TakenCountsWarps DEF WarpsAreCounted
  <1>7. MouseTypeOK'  BY <1>1, <1>2, <1>3, <1>4 DEF MouseTypeOK
  <1> QED  BY <1>2, <1>6, <1>7 DEF MouseInv

\* A delta near the edge warps the pointer: the warp's own move goes to the
\* end of the queue, and it is the one that is recognised next.
LEMMA TakeForMotionKeeps == ASSUME MouseInv, TakeForMotion PROVE MouseInv'
  <1> DEFINE n == Len(moves)  t == Tail(moves)  w == [x |-> Center, by |-> None]
  <1>0. /\ MouseTypeOK /\ MovesAreAChain /\ ChainEndsAtCursor /\ WarpsAreCounted
    BY DEF MouseInv
  <1>1. /\ moves # <<>> /\ ~warping /\ last' = Head(moves).x
        /\ stolen' = (IF IsWarp THEN stolen - 1 ELSE stolen)
    BY DEF TakeForMotion
  <1>2. seed' \in BOOLEAN
    BY <1>0 DEF TakeForMotion, Notice, Seeded, MouseTypeOK
  <1>3. /\ stolen \in Nat /\ Cardinality(Warps(moves)) = stolen
    BY <1>0, <1>1 DEF MouseTypeOK, WarpsAreCounted
  <1>4. stolen' \in Nat /\ Cardinality(Warps(t)) = stolen'
    BY <1>1, <1>3, TakenCountsWarps
  <1>5. CASE UNCHANGED <<warping, cursor>> /\ moves' = t
    <2>1. /\ MovesAreAChain' /\ ChainBeginsAtLast' /\ ChainEndsAtCursor'
          /\ moves' \in Seq(Move) /\ last' \in Pixel /\ cursor' \in Pixel
      BY <1>1, <1>2, <1>5, TakenKeepsChain
    <2>2. Warps(moves)' = Warps(t)  BY <1>5 DEF Warps
    <2>3. WarpsAreCounted'  BY <1>1, <1>4, <1>5, <2>2 DEF WarpsAreCounted
    <2>4. MouseTypeOK'  BY <1>0, <1>2, <1>4, <1>5, <2>1 DEF MouseTypeOK
    <2> QED  BY <2>1, <2>3, <2>4 DEF MouseInv
  <1>6. CASE warping' = TRUE /\ cursor' = Center /\ moves' = Append(t, w)
    <2>1. /\ n \in Nat /\ n >= 1 /\ Head(moves) = moves[1]
          /\ t \in Seq(Move) /\ Len(t) = n - 1
          /\ \A i \in 1..(n - 1) : t[i] = moves[i + 1]
          /\ \A i \in 1..n : moves[i].x \in Pixel
      BY <1>0, <1>1, QueueFacts
    <2>2. w \in Move /\ w.x = Center /\ w.by = None  BY CenterIsPixel DEF Move
    <2> HIDE DEF t, w
    <2>3. /\ moves' \in Seq(Move) /\ Len(moves') = n /\ moves'[n] = w
          /\ \A i \in 1..(n - 1) : moves'[i] = t[i]
      BY <1>6, <2>1, <2>2
    <2>4. \A i \in 1..(n - 1) : moves'[i] = moves[i + 1]  BY <2>1, <2>3
    <2>5. \A i \in 2..n : moves[i].by # None => moves[i].by = moves[i].x - moves[i - 1].x
      BY <1>0 DEF MovesAreAChain
    <2>6. MovesAreAChain'
      <3> SUFFICES ASSUME NEW i \in 2..n, moves'[i].by # None
                   PROVE  moves'[i].by = moves'[i].x - moves'[i - 1].x
        BY <2>3 DEF MovesAreAChain
      <3>1. i # n  BY <2>2, <2>3
      <3>2. i \in 1..(n - 1) /\ i - 1 \in 1..(n - 1) /\ i + 1 \in 2..n
            /\ (i - 1) + 1 = i /\ (i + 1) - 1 = i
        BY <2>1, <3>1
      <3> QED  BY <2>4, <2>5, <3>2
    <2>7. ChainBeginsAtLast'
      <3>1. moves' # <<>>  BY <2>1, <2>3
      <3>2. last' = moves[1].x  BY <1>1, <2>1
      <3>3. CASE n = 1  BY <2>2, <2>3, <3>1, <3>3 DEF ChainBeginsAtLast
      <3>4. CASE n # 1
        <4>1. 1 \in 1..(n - 1) /\ 2 \in 2..n /\ 1 + 1 = 2 /\ 2 - 1 = 1  BY <2>1, <3>4
        <4>2. moves'[1] = moves[2]  BY <2>4, <4>1
        <4> QED  BY <2>5, <3>1, <3>2, <4>1, <4>2 DEF ChainBeginsAtLast
      <3> QED  BY <3>3, <3>4
    <2>8. ChainEndsAtCursor'  BY <1>6, <2>2, <2>3 DEF ChainEndsAtCursor
    <2>9. WarpsAreCounted'
      <3>1. Warps(moves)' = Warps(Append(t, w))  BY <1>6 DEF Warps
      <3>2. Cardinality(Warps(Append(t, w))) = stolen' + 1
        BY <1>4, <2>1, <2>2, WarpsAppend
      <3> QED  BY <1>6, <3>1, <3>2 DEF WarpsAreCounted
    <2>10. MouseTypeOK'
      <3>1. last' \in Pixel  BY <1>1, <2>1
      <3> QED  BY <1>2, <1>4, <1>6, <2>3, <3>1, CenterIsPixel DEF MouseTypeOK
    <2> QED  BY <2>6, <2>7, <2>8, <2>9, <2>10 DEF MouseInv
  <1> QED  BY <1>5, <1>6 DEF TakeForMotion, Warp

\* The steps of the keyboard may ask for the pointer to be placed anew.
LEMMA MouseNext == MouseInv /\ [Next]_vars => MouseInv'
  <1> SUFFICES ASSUME MouseInv, [Next]_vars PROVE MouseInv'  OBVIOUS
  <1>1. ASSUME UNCHANGED mouseVars, seed' \in BOOLEAN, seed => seed'
        PROVE  MouseInv'
    BY <1>1 DEF MouseInv, MouseTypeOK, MovesAreAChain, ChainBeginsAtLast,
                ChainEndsAtCursor, WarpsAreCounted, Warps, mouseVars
  <1>2. seed \in BOOLEAN  BY DEF MouseInv, MouseTypeOK
  <1>3. CASE Start  BY <1>1, <1>2, <1>3 DEF Start
  <1>4. ASSUME NEW b \in BOOLEAN, SetEnabled(b) PROVE MouseInv'
    BY <1>1, <1>2, <1>4 DEF SetEnabled
  <1>5. ASSUME NEW k \in Key, ChordPress(k) \/ KeyPress(k) \/ KeyRelease(k)
        PROVE  MouseInv'
    <2>1. UNCHANGED mouseVars  BY <1>5 DEF ChordPress, KeyPress, KeyRelease
    <2>2. seed' = Seeded \/ seed' = (Seeded \/ ~enabled)
      BY <1>5 DEF ChordPress, KeyPress, KeyRelease, Notice, FireHotkey
    <2> QED  BY <1>1, <1>2, <2>1, <2>2 DEF Seeded
  <1>6. CASE UNCHANGED vars  BY <1>1, <1>2, <1>6 DEF vars
  <1> QED
    BY <1>3, <1>4, <1>5, <1>6, UserMovesKeeps, TakeForWarpKeeps, TakeForSeedKeeps,
       TakeForMotionKeeps
       DEF Next

\* A delta that goes out is what the user moved, unless one of the user's
\* moves was taken for a warp whose own is still to come.
THEOREM MotionHolds == Spec => MotionIsTheUsers
  <1>1. ASSUME MouseInv, [Next]_vars
        PROVE  delta' # delta /\ delta' # None => delta'.dx = delta'.by \/ stolen > 0
    <2> SUFFICES ASSUME delta' # delta, delta' # None
                 PROVE  delta'.dx = delta'.by \/ stolen > 0
      OBVIOUS
    <2>1. TakeForMotion
      <3>1. ~Start /\ ~(UNCHANGED vars) /\ ~TakeForWarp /\ ~TakeForSeed
        BY DEF Start, vars, mouseVars, TakeForWarp, TakeForSeed
      <3>2. \A b \in BOOLEAN : ~SetEnabled(b)  BY DEF SetEnabled, mouseVars
      <3>3. \A k \in Key : ~(ChordPress(k) \/ KeyPress(k) \/ KeyRelease(k))
        BY DEF ChordPress, KeyPress, KeyRelease, mouseVars
      <3>4. \A x \in Pixel : ~UserMoves(x)  BY DEF UserMoves
      <3> QED  BY <1>1, <3>1, <3>2, <3>3, <3>4 DEF Next
    <2>2. /\ moves # <<>> /\ ~warping /\ ~seed
          /\ delta' = [dx |-> Head(moves).x - last, by |-> Head(moves).by]
      BY <2>1 DEF TakeForMotion, Seeded
    <2>3. delta'.dx = Head(moves).x - last /\ delta'.by = Head(moves).by  BY <2>2
    <2>4. Head(moves) = moves[1]  BY <1>1, <2>2, QueueFacts DEF MouseInv
    <2>5. CASE IsWarp
      <3>1. stolen = Cardinality(Warps(moves)) /\ stolen \in Nat
        BY <1>1, <2>2 DEF MouseInv, MouseTypeOK, WarpsAreCounted
      <3> QED  BY <1>1, <2>2, <2>5, <3>1, TakenCountsWarps
    <2>6. CASE ~IsWarp
      <3>1. moves[1].by = moves[1].x - last
        BY <1>1, <2>2, <2>4, <2>6 DEF MouseInv, ChainBeginsAtLast, IsWarp
      <3> QED  BY <2>3, <2>4, <3>1
    <2> QED  BY <2>5, <2>6
  <1> QED  BY <1>1, MouseInit, MouseNext, PTL DEF Spec, MotionIsTheUsers

-----------------------------------------------------------------------------
(* The hotkey's words.                                                     *)

\* Where the first n words name a key, and which modifiers they name.
KeyPlaces(words, n) == {i \in 1..n : words[i] \in DOMAIN KeyName}
ModPlaces(words, n) == {i \in 1..n : words[i] \in DOMAIN ModName}

\* The loop of parse_hotkey has returned an error by the n-th word.
Rejected(words, n) ==
    \/ \E i \in 1..n : words[i] = Unknown
    \/ \E i \in KeyPlaces(words, n), j \in KeyPlaces(words, n) : i # j

\* The key among the first n words, if there is one.
KeyAmong(words, n) ==
    IF KeyPlaces(words, n) = {} THEN None
    ELSE KeyName[words[CHOOSE i \in KeyPlaces(words, n) : TRUE]]

\* What the loop holds after n words, in closed form.
Held(words, n) ==
    IF Rejected(words, n) THEN None
    ELSE [mods |-> {ModName[words[i]] : i \in ModPlaces(words, n)},
          key  |-> KeyAmong(words, n)]

\* A chord in the making is not None, and has no key before a word names one.
LEMMA HeldFacts ==
  ASSUME NEW words \in Seq(Word), NEW n \in 0..Len(words)
  PROVE  /\ Held(words, n) = None <=> Rejected(words, n)
         /\ KeyAmong(words, n) = None <=> KeyPlaces(words, n) = {}
         /\ ~Rejected(words, n) =>
              Held(words, n) \in [mods : SUBSET DOMAIN ModKeys, key : Key \cup {None}]
  <1>1. KeyPlaces(words, n) # {} => KeyAmong(words, n) \in Key
    <2> SUFFICES ASSUME KeyPlaces(words, n) # {} PROVE KeyAmong(words, n) \in Key
      OBVIOUS
    <2> DEFINE i == CHOOSE i \in KeyPlaces(words, n) : TRUE
    <2>1. i \in KeyPlaces(words, n)  OBVIOUS
    <2>2. words[i] \in DOMAIN KeyName  BY <2>1 DEF KeyPlaces
    <2> QED  BY <2>2, NameAssumption DEF KeyAmong
  <1>2. KeyAmong(words, n) = None <=> KeyPlaces(words, n) = {}
    BY <1>1, NameAssumption DEF KeyAmong
  <1>3. {ModName[words[i]] : i \in ModPlaces(words, n)} \in SUBSET DOMAIN ModKeys
    BY NameAssumption DEF ModPlaces
  <1>4. KeyAmong(words, n) \in Key \cup {None}  BY <1>1 DEF KeyAmong
  <1>5. [mods |-> {ModName[words[i]] : i \in ModPlaces(words, n)},
         key  |-> KeyAmong(words, n)] \in [mods : SUBSET DOMAIN ModKeys, key : Key \cup {None}]
    BY <1>3, <1>4
  <1> QED  BY <1>2, <1>5, NameAssumption DEF Held

\* What the loop's two assignments make of a chord.
LEMMA ChordUpdates ==
  ASSUME NEW a \in [mods : SUBSET DOMAIN ModKeys, key : Key \cup {None}], NEW x
  PROVE  /\ [a EXCEPT !.mods = @ \cup {x}] = [mods |-> a.mods \cup {x}, key |-> a.key]
         /\ [a EXCEPT !.key = x] = [mods |-> a.mods, key |-> x]
  OBVIOUS

\* The closed form goes from word to word as the loop does.
LEMMA HeldGrows ==
  ASSUME NEW words \in Seq(Word), NEW n \in 1..Len(words)
  PROVE  Held(words, n) = ParsePart(Held(words, n - 1), words[n])
  <1> DEFINE w == words[n]
             acc == Held(words, n - 1)
  <1>0. n \in 0..Len(words) /\ n - 1 \in 0..Len(words) /\ n \in 1..n
    OBVIOUS
  <1>1. w \in Word  OBVIOUS
  <1>2. 1..n = (1..(n - 1)) \cup {n} /\ n \notin 1..(n - 1)  BY <1>0
  <1>3. KeyPlaces(words, n) = IF w \in DOMAIN KeyName
                                THEN KeyPlaces(words, n - 1) \cup {n}
                                ELSE KeyPlaces(words, n - 1)
    BY <1>2 DEF KeyPlaces
  <1>4. ModPlaces(words, n) = IF w \in DOMAIN ModName
                                THEN ModPlaces(words, n - 1) \cup {n}
                                ELSE ModPlaces(words, n - 1)
    BY <1>2 DEF ModPlaces
  <1>5. n \notin KeyPlaces(words, n - 1)  BY <1>2 DEF KeyPlaces
  <1>6. Rejected(words, n) <=>
          \/ Rejected(words, n - 1)
          \/ w = Unknown
          \/ w \in DOMAIN KeyName /\ KeyPlaces(words, n - 1) # {}
    BY <1>2, <1>3, <1>5 DEF Rejected
  <1>7. /\ acc = None <=> Rejected(words, n - 1)
        /\ KeyAmong(words, n - 1) = None <=> KeyPlaces(words, n - 1) = {}
        /\ ~Rejected(words, n - 1) =>
             acc \in [mods : SUBSET DOMAIN ModKeys, key : Key \cup {None}]
    BY <1>0, HeldFacts
  <1>8. CASE Rejected(words, n - 1)
    BY <1>6, <1>7, <1>8 DEF Held, ParsePart
  <1>9. CASE ~Rejected(words, n - 1)
    <2>1. acc = [mods |-> {ModName[words[i]] : i \in ModPlaces(words, n - 1)},
                 key  |-> KeyAmong(words, n - 1)]
      BY <1>9 DEF Held
    <2>2. CASE w = Blank
      <3>1. w \notin DOMAIN KeyName /\ w \notin DOMAIN ModName /\ w # Unknown
        BY <2>2, NameAssumption
      <3>2. KeyAmong(words, n) = KeyAmong(words, n - 1)
        BY <1>3, <3>1 DEF KeyAmong
      <3>3. ~Rejected(words, n)  BY <1>6, <1>9, <3>1
      <3> QED  BY <1>4, <2>1, <2>2, <3>1, <3>2, <3>3 DEF Held, ParsePart
    <2>3. CASE w \in DOMAIN ModName
      <3>1. w \notin DOMAIN KeyName /\ w # Blank /\ w # Unknown
        BY <2>3, NameAssumption
      <3>2. KeyAmong(words, n) = KeyAmong(words, n - 1)
        BY <1>3, <3>1 DEF KeyAmong
      <3>3. ~Rejected(words, n)  BY <1>6, <1>9, <3>1
      <3>4. {ModName[words[i]] : i \in ModPlaces(words, n)}
              = {ModName[words[i]] : i \in ModPlaces(words, n - 1)} \cup {ModName[w]}
        BY <1>4, <2>3
      <3>5. Held(words, n) = [acc EXCEPT !.mods = @ \cup {ModName[w]}]
        <4> DEFINE x == ModName[w]
        <4>1. acc.mods = {ModName[words[i]] : i \in ModPlaces(words, n - 1)}
          BY <2>1
        <4>2. acc.key = KeyAmong(words, n - 1)  BY <2>1
        <4>3. Held(words, n) = [mods |-> acc.mods \cup {x}, key |-> acc.key]
          BY <3>2, <3>3, <3>4, <4>1, <4>2 DEF Held
        <4> HIDE DEF acc, x
        <4>4. Held(words, n) = [acc EXCEPT !.mods = @ \cup {x}]
          BY <1>7, <1>9, <4>3, ChordUpdates
        <4> QED  BY <4>4 DEF x
      <3> QED  BY <1>7, <1>9, <2>3, <3>1, <3>5 DEF ParsePart
    <2>4. CASE w \in DOMAIN KeyName
      <3>1. w \notin DOMAIN ModName /\ w # Blank /\ w # Unknown
        BY <2>4, NameAssumption
      <3>2. CASE KeyPlaces(words, n - 1) = {}
        <4>1. KeyPlaces(words, n) = {n}  BY <1>3, <2>4, <3>2
        <4>2. KeyAmong(words, n) = KeyName[w]  BY <4>1 DEF KeyAmong
        <4>3. ~Rejected(words, n)  BY <1>6, <1>9, <3>1, <3>2
        <4>4. Held(words, n) = [acc EXCEPT !.key = KeyName[w]]
          <5>1. acc.mods = {ModName[words[i]] : i \in ModPlaces(words, n - 1)}
            BY <2>1
          <5>2. Held(words, n) = [mods |-> acc.mods, key |-> KeyName[w]]
            BY <1>4, <3>1, <4>2, <4>3, <5>1 DEF Held
          <5> HIDE DEF acc
          <5> QED  BY <1>7, <1>9, <5>2, ChordUpdates
        <4>5. acc.key = None  BY <1>7, <2>1, <3>2
        <4> QED  BY <1>7, <1>9, <2>4, <3>1, <4>4, <4>5 DEF ParsePart
      <3>3. CASE KeyPlaces(words, n - 1) # {}
        <4>1. Held(words, n) = None  BY <1>6, <2>4, <3>3 DEF Held
        <4>2. acc.key # None  BY <1>7, <2>1, <3>3
        <4> QED  BY <1>7, <1>9, <2>4, <3>1, <4>1, <4>2 DEF ParsePart
      <3> QED  BY <3>2, <3>3
    <2>5. CASE w = Unknown /\ w # Blank
      <3>1. w \notin DOMAIN KeyName /\ w \notin DOMAIN ModName
        BY <2>5, NameAssumption
      <3>2. Held(words, n) = None  BY <1>6, <2>5 DEF Held
      <3> QED  BY <1>7, <1>9, <2>5, <3>1, <3>2 DEF ParsePart
    <2> QED  BY <1>1, <2>2, <2>3, <2>4, <2>5 DEF Word
  <1> QED  BY <1>8, <1>9
\* A set of numbers that is not empty has a least one.
LEMMA LeastPlace ==
  ASSUME NEW T \in SUBSET Nat, T # {}
  PROVE  \E n \in T : \A m \in T : n <= m
  <1> DEFINE R == OpToRel(<, Nat)
  <1>1. IsWellFoundedOn(R, Nat)  BY NatLessThanWellFounded
  <1>2. PICK n \in T : \A m \in T : ~ (<<m, n>> \in R)
    <2> HIDE DEF R
    <2> QED  BY <1>1, WFMin
  <1>3. \A m \in T : m < n => <<m, n>> \in R  BY DEF OpToRel
  <1> HIDE DEF R
  <1>4. \A m \in T : ~(m < n)  BY <1>2, <1>3
  <1> QED  BY <1>4

\* The loop's values satisfy the loop's equation: there are values that do,
\* the closed form.
LEMMA LoopStep ==
  ASSUME NEW words \in Seq(Word)
  PROVE  /\ ParseLoop(words)[0] = NoKey
         /\ \A n \in 1..Len(words) :
              ParseLoop(words)[n] = ParsePart(ParseLoop(words)[n - 1], words[n])
  <1> DEFINE Loops(f) == f = [n \in 0..Len(words) |->
                                IF n = 0 THEN NoKey ELSE ParsePart(f[n - 1], words[n])]
             g == [n \in 0..Len(words) |-> Held(words, n)]
  <1>1. Loops(g)
    <2>1. Held(words, 0) = NoKey
      <3>1. KeyPlaces(words, 0) = {} /\ ModPlaces(words, 0) = {} /\ ~Rejected(words, 0)
        BY DEF KeyPlaces, ModPlaces, Rejected
      <3> QED  BY <3>1 DEF Held, KeyAmong, NoKey
    <2>2. ASSUME NEW n \in 0..Len(words)
          PROVE  Held(words, n) = IF n = 0 THEN NoKey ELSE ParsePart(g[n - 1], words[n])
      <3>1. n # 0 => n \in 1..Len(words) /\ n - 1 \in 0..Len(words)  OBVIOUS
      <3>2. n # 0 => g[n - 1] = Held(words, n - 1)  BY <3>1
      <3> HIDE DEF g
      <3> QED  BY <2>1, <3>1, <3>2, HeldGrows
    <2> QED  BY <2>2
  <1>2. ParseLoop(words) = CHOOSE f : Loops(f)  BY DEF ParseLoop
  <1>3. Loops(ParseLoop(words))  BY <1>1, <1>2
  <1>4. 0 \in 0..Len(words) /\ \A n \in 1..Len(words) : n \in 0..Len(words) /\ n # 0
    OBVIOUS
  <1> QED  BY <1>3, <1>4
\* So the loop holds the closed form after every word: at the first word
\* after which it did not, the step from the word before would differ.
LEMMA LoopHolds ==
  ASSUME NEW words \in Seq(Word)
  PROVE  \A n \in 0..Len(words) : ParseLoop(words)[n] = Held(words, n)
  <1> DEFINE T == {n \in 0..Len(words) : ParseLoop(words)[n] # Held(words, n)}
  <1>1. Held(words, 0) = NoKey
    <2>1. KeyPlaces(words, 0) = {} /\ ModPlaces(words, 0) = {} /\ ~Rejected(words, 0)
      BY DEF KeyPlaces, ModPlaces, Rejected
    <2> QED  BY <2>1 DEF Held, KeyAmong, NoKey
  <1>2. SUFFICES ASSUME T # {} PROVE FALSE  OBVIOUS
  <1>3. T \in SUBSET Nat  OBVIOUS
  <1>4. PICK n \in T : \A m \in T : n <= m
    <2> HIDE DEF T
    <2> QED  BY <1>2, <1>3, LeastPlace
  <1>5. n # 0  BY <1>1, LoopStep
  <1>6. n \in 1..Len(words) /\ n - 1 \in 0..Len(words) /\ ~(n <= n - 1)  BY <1>5
  <1>7. ParseLoop(words)[n - 1] = Held(words, n - 1)  BY <1>4, <1>6
  <1> QED  BY <1>6, <1>7, LoopStep, HeldGrows

\* The loop's last value, if it has a key, is the chord the words list.
LEMMA ParseIsListed ==
  ASSUME NEW words \in Seq(Word)
  PROVE  ParseHotkey(words) = Listed(words)
  <1> DEFINE n == Len(words)
             Keys == {i \in DOMAIN words : words[i] \in DOMAIN KeyName}
             Mods == {i \in DOMAIN words : words[i] \in DOMAIN ModName}
  <1>1. n \in 0..n /\ DOMAIN words = 1..n  OBVIOUS
  <1>2. Keys = KeyPlaces(words, n) /\ Mods = ModPlaces(words, n)
    BY <1>1 DEF KeyPlaces, ModPlaces
  <1>3. ParseLoop(words)[n] = Held(words, n)  BY <1>1, LoopHolds
  <1>4. /\ Held(words, n) = None <=> Rejected(words, n)
        /\ KeyAmong(words, n) = None <=> KeyPlaces(words, n) = {}
    BY <1>1, HeldFacts
  <1>5. CASE Rejected(words, n)
    <2>1. ParseHotkey(words) = None  BY <1>3, <1>4, <1>5 DEF ParseHotkey
    <2>2. (\E i \in DOMAIN words : words[i] = Unknown) \/ ~(\E i : Keys = {i})
      BY <1>1, <1>2, <1>5 DEF Rejected
    <2>3. Listed(words) = None  BY <2>2 DEF Listed
    <2> QED  BY <2>1, <2>3
  <1>6. CASE ~Rejected(words, n) /\ Keys = {}
    <2>1. Held(words, n).key = None  BY <1>2, <1>4, <1>6 DEF Held
    <2>2. ParseHotkey(words) = None  BY <1>3, <2>1 DEF ParseHotkey
    <2>3. Listed(words) = None  BY <1>6 DEF Listed
    <2> QED  BY <2>2, <2>3
  <1>7. CASE ~Rejected(words, n) /\ Keys # {}
    <2>1. Held(words, n) = [mods |-> {ModName[words[i]] : i \in Mods},
                            key  |-> KeyName[words[CHOOSE i \in Keys : TRUE]]]
      BY <1>2, <1>7 DEF Held, KeyAmong
    <2>2. Held(words, n) # None /\ Held(words, n).key # None
      BY <1>2, <1>4, <1>7 DEF Held
    <2>3. ParseHotkey(words) = Held(words, n)  BY <1>3, <2>2 DEF ParseHotkey
    <2>4. \A i \in DOMAIN words : words[i] # Unknown
      BY <1>1, <1>7 DEF Rejected
    <2>5. \E i \in DOMAIN words : Keys = {i}
      <3>1. PICK i \in Keys : TRUE  BY <1>7
      <3>2. \A j \in Keys : j = i  BY <1>2, <1>7, <3>1 DEF Rejected
      <3> QED  BY <3>1, <3>2
    <2>6. Listed(words) = [mods |-> {ModName[words[i]] : i \in Mods},
                           key  |-> KeyName[words[CHOOSE i \in Keys : TRUE]]]
      BY <2>4, <2>5 DEF Listed
    <2> QED  BY <2>1, <2>3, <2>6
  <1> QED  BY <1>5, <1>6, <1>7

\* The configured text is a list of words.
ConfigIsWords == config \in Seq(Word)

\* The hotkey the server runs with is the chord its configuration lists: all
\* the modifiers and the one key, whatever their order, and none if there is
\* no key, a second one or an unknown word.
THEOREM HotkeyIsListed == Spec => ParsesAsListed
  <1>1. Init => ConfigIsWords  BY DEF Init, ConfigIsWords, SeqOf
  <1>2. ConfigIsWords /\ [Next]_vars => ConfigIsWords'
    <2> SUFFICES ASSUME ConfigIsWords, [Next]_vars PROVE ConfigIsWords'
      OBVIOUS
    <2>0. config' = config \/ config' = <<>> => ConfigIsWords'
      <3>1. <<>> \in Seq(Word)  OBVIOUS
      <3> QED  BY <3>1 DEF ConfigIsWords
    <2>1. CASE Start  BY <2>0, <2>1 DEF Start
    <2>2. CASE UNCHANGED vars  BY <2>0, <2>2 DEF vars
    <2>3. CASE Next /\ ~Start
      BY <2>0, <2>3 DEF Next, SetEnabled, ChordPress, KeyPress, KeyRelease, UserMoves,
                  TakeForWarp, TakeForSeed, TakeForMotion
    <2> QED  BY <2>0, <2>1, <2>2, <2>3
  <1>3. ConfigIsWords /\ [Next]_vars => [started' # started => hotkey' = Listed(config)]_vars
    <2> SUFFICES ASSUME ConfigIsWords, Next, started' # started
                 PROVE  hotkey' = Listed(config)
      OBVIOUS
    <2>1. Start
      BY DEF Next, vars, SetEnabled, ChordPress, KeyPress, KeyRelease, UserMoves,
             TakeForWarp, TakeForSeed, TakeForMotion
    <2>2. hotkey' = ParseHotkey(config)  BY <2>1 DEF Start
    <2> QED  BY <2>2, ParseIsListed DEF ConfigIsWords
  <1> QED  BY <1>1, <1>2, <1>3, PTL DEF Spec, ParsesAsListed

\* The types of the rest of the state.
RestTypeOK ==
    /\ config \in SeqOf(Word, MaxWords) /\ started \in BOOLEAN
    /\ hotkey = None \/ hotkey \in [mods : SUBSET DOMAIN ModKeys, key : Key]
    /\ enabled \in BOOLEAN /\ wasEnabled \in BOOLEAN
    /\ pressed \subseteq Key /\ swallowed \subseteq Key
    /\ local \subseteq Key /\ excused \subseteq Key
    /\ lastKey \in Key \cup {None}
    /\ delta = None \/ delta \in [dx : Int, by : Int \cup {None}]

\* A parsed hotkey is a set of modifiers and a key.
LEMMA ListedType ==
  ASSUME NEW words \in Seq(Word)
  PROVE  Listed(words) = None \/ Listed(words) \in [mods : SUBSET DOMAIN ModKeys, key : Key]
  <1> DEFINE Keys == {i \in DOMAIN words : words[i] \in DOMAIN KeyName}
             Mods == {i \in DOMAIN words : words[i] \in DOMAIN ModName}
             i == CHOOSE j \in Keys : TRUE
  <1> SUFFICES ASSUME \E j \in DOMAIN words : Keys = {j}, Listed(words) # None
               PROVE  Listed(words) \in [mods : SUBSET DOMAIN ModKeys, key : Key]
    BY DEF Listed
  <1>1. i \in Keys  OBVIOUS
  <1>2. KeyName[words[i]] \in Key  BY <1>1, NameAssumption
  <1>3. {ModName[words[j]] : j \in Mods} \in SUBSET DOMAIN ModKeys  BY NameAssumption
  <1>4. Listed(words) = [mods |-> {ModName[words[j]] : j \in Mods}, key |-> KeyName[words[i]]]
    BY DEF Listed
  <1> QED  BY <1>2, <1>3, <1>4

\* The capture callback's state keeps its types; in particular the count of
\* stolen moves never goes below zero, and the hotkey is a chord or none.
THEOREM CaptureTypeCorrect == Spec => []TypeOK
  <1>1. Init => RestTypeOK
    BY NameAssumption, ScreenAssumption DEF Init, RestTypeOK
  <1>2. ASSUME MouseInv, RestTypeOK, [Next]_vars PROVE RestTypeOK'
    <2>1. CASE Start
      <3>1. config \in Seq(Word)  BY <1>2 DEF RestTypeOK, SeqOf
      <3>2. <<>> \in SeqOf(Word, MaxWords)  BY ScreenAssumption DEF SeqOf
      <3>3. hotkey' = Listed(config)  BY <2>1, <3>1, ParseIsListed DEF Start
      <3>4. hotkey' = None \/ hotkey' \in [mods : SUBSET DOMAIN ModKeys, key : Key]
        BY <3>1, <3>3, ListedType
      <3> QED  BY <1>2, <2>1, <3>2, <3>4 DEF RestTypeOK, Start, keyVars, mouseVars
    <2>2. ASSUME NEW b \in BOOLEAN, SetEnabled(b) PROVE RestTypeOK'
      BY <1>2, <2>2 DEF RestTypeOK, SetEnabled, mouseVars
    <2>3. ASSUME NEW k \in Key, ChordPress(k) PROVE RestTypeOK'
      BY <1>2, <2>3 DEF RestTypeOK, ChordPress, FireHotkey, Notice, mouseVars
    <2>4. ASSUME NEW k \in Key, KeyPress(k) PROVE RestTypeOK'
      BY <1>2, <2>4 DEF RestTypeOK, KeyPress, Notice, mouseVars
    <2>5. ASSUME NEW k \in Key, KeyRelease(k) PROVE RestTypeOK'
      BY <1>2, <2>5 DEF RestTypeOK, KeyRelease, Notice, mouseVars
    <2>6. ASSUME NEW x \in Pixel, UserMoves(x) PROVE RestTypeOK'
      BY <1>2, <2>6 DEF RestTypeOK, UserMoves, keyVars
    <2>7. CASE TakeForWarp
      BY <1>2, <2>7 DEF RestTypeOK, TakeForWarp, Notice, keyVars
    <2>8. CASE TakeForSeed
      BY <1>2, <2>8 DEF RestTypeOK, TakeForSeed, keyVars
    <2>9. CASE TakeForMotion
      <3>1. Head(moves) \in Move  BY <1>2, <2>9 DEF MouseInv, MouseTypeOK, TakeForMotion
      <3>2. Head(moves).x - last \in Int /\ Head(moves).by \in Int \cup {None}
        BY <1>2, <3>1, ScreenAssumption DEF Move, Pixel, MouseInv, MouseTypeOK
      <3>3. delta' = None \/ delta' \in [dx : Int, by : Int \cup {None}]
        BY <2>9, <3>2 DEF TakeForMotion
      <3>4. UNCHANGED <<config, started, hotkey, enabled, keyVars>> /\ wasEnabled' = enabled
        BY <2>9 DEF TakeForMotion, Notice
      <3> QED  BY <1>2, <3>3, <3>4 DEF RestTypeOK, keyVars
    <2>10. CASE UNCHANGED vars
      BY <1>2, <2>10 DEF RestTypeOK, vars, keyVars, mouseVars
    <2> QED
      BY <1>2, <2>1, <2>2, <2>3, <2>4, <2>5, <2>6, <2>7, <2>8, <2>9, <2>10 DEF Next
  <1>3. MouseInv /\ RestTypeOK => TypeOK
    BY DEF MouseInv, MouseTypeOK, RestTypeOK, TypeOK
  <1> QED  BY <1>1, <1>2, <1>3, MouseInit, MouseNext, PTL DEF Spec

-----------------------------------------------------------------------------
(* The clipboard.                                                          *)

\* A watcher remembers what it applied; the server's may not hold it if a
\* set_text failed.
AppliedIsSeen ==
    /\ \A c \in Client : by[c] = "watcher" => seen[c] \in {clip[c], Unseen}
    /\ by[Server] # "user" => clip[Server] = seen[Server] \/ fails > 0

\* What a reader who holds v holds at the end of s.
Final(v, s) == IF s = <<>> THEN v ELSE s[Len(s)]

\* Client c is not going to send anything.
Silent(c) == ~Changed(c) /\ up[c] = <<>> /\ (session[c] => old[c] = <<>>)

\* While the server has the last word no client answers, and what the server
\* has broadcast is the last that each client is going to apply.
ServerLeads ==
    latest = Server =>
        /\ \A c \in Client : Silent(c) /\ cmd = <<>>
        /\ clip[Server] \notin Unsent
        /\ \A c \in Client : session[c] =>
              Changed(Server) \/ Final(clip[c], down[c]) = clip[Server]

\* While client c has it the server and the others are silent, and the server
\* ends with what c's watcher remembers, unless c has yet to send.
ClientLeads ==
    \A c \in Client : latest = c =>
        /\ ~Outstanding(Server) /\ \A d \in Client \ {c} : Silent(d)
        /\ session[c] =>
              /\ clip[c] \notin Unsent
              /\ \/ seen[c] = Final(Final(seen[Server], cmd), up[c])
                 \/ seen[c] = Unseen
                 \/ old[c] = <<>> /\ clip[c] # seen[c]

\* The last word is heard, unless it was missed or a set_text failed.
LastWord == ~missed /\ fails = 0 => ServerLeads /\ ClientLeads

-----------------------------------------------------------------------------
\* The end of a queue that grows, and of one that is read.
LEMMA FinalFacts ==
  ASSUME NEW T, NEW s \in Seq(T)
  PROVE  /\ \A v, e : Final(v, Append(s, e)) = e
         /\ s # <<>> => /\ \A v : Final(v, s) = Final(Head(s), Tail(s))
                        /\ Head(s) \in T /\ Tail(s) \in Seq(T)
  <1>1. ASSUME NEW v, NEW e PROVE Final(v, Append(s, e)) = e
    <2>1. Append(s, e) # <<>> /\ Len(Append(s, e)) = Len(s) + 1
          /\ Append(s, e)[Len(s) + 1] = e  OBVIOUS
    <2> QED  BY <2>1 DEF Final
  <1>2. ASSUME s # <<>>, NEW v PROVE Final(v, s) = Final(Head(s), Tail(s))
    <2>1. /\ Len(s) \in Nat \ {0} /\ Len(Tail(s)) = Len(s) - 1
          /\ Tail(s) = <<>> <=> Len(s) = 1
      <3>1. Tail(s) \in Seq(T) /\ Len(Tail(s)) = Len(s) - 1  BY <1>2, HeadTailProperties
      <3>2. /\ Len(s) \in Nat \ {0} /\ Len(<<>>) = 0
            /\ Tail(s) # <<>> => Len(Tail(s)) \in Nat \ {0}
        BY <1>2, <3>1, EmptySeq
      <3>3. Tail(s) = <<>> => Len(Tail(s)) = 0  BY <3>2
      <3> QED  BY <3>1, <3>2, <3>3
    <2>2. CASE Len(s) = 1  BY <1>2, <2>1, <2>2 DEF Final
    <2>3. CASE Len(s) # 1
      <3>1. Tail(s)[Len(s) - 1] = s[Len(s)]  BY <1>2, <2>1, <2>3, HeadTailProperties
      <3> QED  BY <1>2, <2>1, <2>3, <3>1 DEF Final
    <2> QED  BY <2>2, <2>3
  <1> QED  BY <1>1, <1>2

\* The variables keep their types.
LEMMA ClipTypeInit == ClipInit => ClipTypeOK
  BY ClipboardAssumption DEF ClipInit, ClipTypeOK, Machine

\* Every step keeps the types: what a queue is given is a text.
LEMMA ClipTypeStep == ClipTypeOK /\ [ClipNext]_clipVars => ClipTypeOK'
  <1> SUFFICES ASSUME ClipTypeOK, [ClipNext]_clipVars PROVE ClipTypeOK'
    OBVIOUS
  <1> USE ClipboardAssumption DEF ClipTypeOK, bounds, history, Machine
  <1>1. ASSUME NEW m \in Machine, NEW t \in Text, Copy(m, t) PROVE ClipTypeOK'
    BY <1>1 DEF Copy, Disturbs, queues
  <1>2. ASSUME NEW c \in Client, Join(c) PROVE ClipTypeOK'
    BY <1>2 DEF Join, Disturbs, queues
  <1>3. ASSUME NEW c \in Client, Break(c) PROVE ClipTypeOK'
    <2>1. PICK n \in 0..Len(down[c]) :
             old' = [old EXCEPT ![c] = @ \o SubSeq(down[c], 1, n)]
      BY <1>3 DEF Break
    <2>2. SubSeq(down[c], 1, n) \in Seq(Text \ Unsent)  BY SubSeqProperties
    <2>3. old' \in [Client -> Seq(Text \ Unsent)]  BY <2>1, <2>2
    <2> QED  BY <1>3, <2>3 DEF Break
  <1>4. ASSUME NEW c \in Client, OldApplies(c) PROVE ClipTypeOK'
    <2>1. old[c] \in Seq(Text \ Unsent) /\ old[c] # <<>>  BY <1>4 DEF OldApplies
    <2>2. Head(old[c]) \in Text /\ Tail(old[c]) \in Seq(Text \ Unsent)  BY <2>1
    <2> QED  BY <1>4, <2>2 DEF OldApplies
  <1>5. ASSUME NEW c \in Client, ClientPoll(c) PROVE ClipTypeOK'
    <2>1. clip[c] \in Text \ Unsent  BY <1>5 DEF ClientPoll, Changed
    <2>2. Append(up[c], clip[c]) \in Seq(Text \ Unsent)  BY <2>1
    <2> QED  BY <1>5, <2>1, <2>2 DEF ClientPoll
  <1>6. ASSUME NEW c \in Client, Deliver(c) PROVE ClipTypeOK'
    <2>1. up[c] \in Seq(Text \ Unsent) /\ up[c] # <<>>  BY <1>6 DEF Deliver
    <2>2. Head(up[c]) \in Text \ Unsent /\ Tail(up[c]) \in Seq(Text \ Unsent)  BY <2>1
    <2> QED  BY <1>6, <2>2 DEF Deliver
  <1>7. ASSUME NEW c \in Client, ClientApply(c) \/ ClientApplyFails(c) PROVE ClipTypeOK'
    <2>1. down[c] \in Seq(Text \ Unsent) /\ down[c] # <<>>
      BY <1>7 DEF ClientApply, ClientApplyFails
    <2>2. Head(down[c]) \in Text /\ Tail(down[c]) \in Seq(Text \ Unsent)  BY <2>1
    <2>3. CASE ClientApply(c)  BY <2>2, <2>3 DEF ClientApply
    <2>4. CASE ClientApplyFails(c)  BY <2>2, <2>4 DEF ClientApplyFails
    <2> QED  BY <1>7, <2>3, <2>4
  <1>8. ASSUME ServerPoll PROVE ClipTypeOK'
    <2>1. clip[Server] \in Text \ Unsent  BY <1>8 DEF ServerPoll, Changed
    <2>2. \A c \in Client : Append(down[c], clip[Server]) \in Seq(Text \ Unsent)  BY <2>1
    <2> QED  BY <1>8, <2>1, <2>2 DEF ServerPoll
  <1>9. ASSUME ServerApply \/ ServerApplyFails PROVE ClipTypeOK'
    <2>1. cmd # <<>>  BY <1>9 DEF ServerApply, ServerApplyFails
    <2>2. Head(cmd) \in Text /\ Tail(cmd) \in Seq(Text \ Unsent)  BY <2>1
    <2>3. CASE ServerApply  BY <2>2, <2>3 DEF ServerApply
    <2>4. CASE ServerApplyFails  BY <2>2, <2>4 DEF ServerApplyFails
    <2> QED  BY <1>9, <2>3, <2>4
  <1>10. CASE UNCHANGED clipVars  BY <1>10 DEF clipVars
  <1> QED
    BY <1>1, <1>2, <1>3, <1>4, <1>5, <1>6, <1>7, <1>8, <1>9, <1>10
    DEF ClipNext, ClientStep

-----------------------------------------------------------------------------
(* No echo.                                                                *)

\* The server has seen its own clipboard, and no client has a watcher.
LEMMA AppliedInit == ClipInit => AppliedIsSeen
  BY ClipboardAssumption DEF ClipInit, AppliedIsSeen, Machine

\* Where a watcher applies a text it remembers it in the same turn.
LEMMA AppliedStep == ClipTypeOK /\ AppliedIsSeen /\ [ClipNext]_clipVars => AppliedIsSeen'
  <1> SUFFICES ASSUME ClipTypeOK, AppliedIsSeen, [ClipNext]_clipVars PROVE AppliedIsSeen'
    OBVIOUS
  <1> USE ClipboardAssumption DEF ClipTypeOK, AppliedIsSeen, bounds, history, Machine
  <1>1. ASSUME NEW m \in Machine, NEW t \in Text, Copy(m, t) PROVE AppliedIsSeen'
    BY <1>1 DEF Copy
  <1>2. ASSUME NEW c \in Client, Join(c) PROVE AppliedIsSeen'
    BY <1>2 DEF Join
  <1>3. ASSUME NEW c \in Client, Break(c) PROVE AppliedIsSeen'
    BY <1>3 DEF Break
  <1>4. ASSUME NEW c \in Client, OldApplies(c) PROVE AppliedIsSeen'
    BY <1>4 DEF OldApplies
  <1>5. ASSUME NEW c \in Client, ClientPoll(c) PROVE AppliedIsSeen'
    BY <1>5 DEF ClientPoll
  <1>6. ASSUME NEW c \in Client, Deliver(c) PROVE AppliedIsSeen'
    BY <1>6 DEF Deliver
  <1>7. ASSUME NEW c \in Client, ClientApply(c) PROVE AppliedIsSeen'
    BY <1>7 DEF ClientApply
  <1>8. ASSUME NEW c \in Client, ClientApplyFails(c) PROVE AppliedIsSeen'
    BY <1>8 DEF ClientApplyFails
  <1>9. CASE ServerPoll  BY <1>9 DEF ServerPoll
  <1>10. CASE ServerApply  BY <1>10 DEF ServerApply
  <1>11. CASE ServerApplyFails  BY <1>11 DEF ServerApplyFails
  <1>12. CASE UNCHANGED clipVars  BY <1>12 DEF clipVars
  <1> QED
    BY <1>1, <1>2, <1>3, <1>4, <1>5, <1>6, <1>7, <1>8, <1>9, <1>10, <1>11, <1>12
    DEF ClipNext, ClientStep

-----------------------------------------------------------------------------
(* The last word.                                                          *)

\* A copy, or a session that starts, is the last word from then on, unless it
\* is one that is missed.
LEMMA DisturbLeads ==
  ASSUME ClipTypeOK, LastWord, NEW m \in Machine,
         Disturbs(m), ~missed', fails' = 0, fails = 0,
         UNCHANGED <<up, cmd, down, old>>,
         \A n \in Machine \ {m} : clip'[n] = clip[n] /\ seen'[n] = seen[n],
         \A n \in Client \ {m} : session'[n] = session[n],
         m = Server => seen'[m] = seen[m],
         m \in Client => \/ session'[m] = session[m] /\ seen'[m] = seen[m]
                         \/ seen'[m] = Unseen
  PROVE  ServerLeads' /\ ClientLeads'
  <1> USE ClipboardAssumption
  <1>1. /\ clip'[m] \notin Unsent /\ clip'[m] # seen'[m]
        /\ \A n \in Machine \ {m} : ~Outstanding(n)
        /\ missed => ~Outstanding(m)
    BY DEF Disturbs, ClipTypeOK
  <1>2. \A n \in Machine \ {m} : ~Changed(n)'
    BY <1>1 DEF Outstanding, Changed, Machine
  <1>3. \A c \in Client \ {m} : Silent(c)' /\ cmd' = <<>>
    BY <1>1, <1>2 DEF Outstanding, Silent, Machine
  <1>4. CASE m = Server
    <2>1. \A c \in Client : Silent(c)' /\ cmd' = <<>>  BY <1>3, <1>4
    <2>2. Changed(Server)'  BY <1>1, <1>4 DEF Changed
    <2> QED  BY <1>1, <1>4, <2>1, <2>2 DEF ServerLeads, ClientLeads, Disturbs
  <1>5. CASE m \in Client
    <2>1. ~Outstanding(Server)'
      BY <1>1, <1>2, <1>5 DEF Outstanding, Machine
    <2>2. ASSUME session'[m], seen'[m] # Unseen, old'[m] # <<>>
          PROVE  seen'[m] = Final(Final(seen'[Server], cmd'), up'[m])
      <3>1. session[m] /\ seen'[m] = seen[m] /\ old[m] # <<>>  BY <1>5, <2>2
      <3>2. Outstanding(m)  BY <1>5, <3>1 DEF Outstanding
      <3>3. ~missed  BY <1>1, <3>2
      <3>4. ServerLeads /\ ClientLeads  BY <3>3 DEF LastWord
      <3>5. ~Silent(m)  BY <3>1 DEF Silent
      <3>6. latest = m  BY <1>5, <3>4, <3>5 DEF ServerLeads, ClientLeads, ClipTypeOK, Machine
      <3> QED  BY <1>5, <2>2, <3>1, <3>4, <3>6 DEF ClientLeads, Machine
    <2> QED  BY <1>1, <1>3, <1>5, <2>1, <2>2 DEF ServerLeads, ClientLeads, Disturbs
  <1> QED  BY <1>4, <1>5 DEF Machine

\* While the server leads, a step that nobody's user takes leaves every client
\* silent, and brings each closer to what the server holds.
LEMMA ServerLeadsStep ==
  ASSUME ClipTypeOK, ServerLeads, latest = Server, latest' = latest, fails' = 0,
         fails = 0, NEW c \in Client,
         \/ Break(c) \/ ClientStep(c) \/ ClientApplyFails(c)
         \/ ServerPoll \/ ServerApply \/ ServerApplyFails
  PROVE  ServerLeads'
  <1> USE ClipboardAssumption DEF ServerLeads, ClipTypeOK, Machine
  <1>1. cmd = <<>> /\ \A d \in Client : Silent(d)  OBVIOUS
  <1>2. CASE Break(c)
    BY <1>2 DEF Break, Silent, Changed
  <1>3. CASE OldApplies(c)
    <2>1. ~session[c]  BY <1>1, <1>3 DEF OldApplies, Silent
    <2> QED  BY <1>3, <2>1 DEF OldApplies, Silent, Changed
  <1>4. CASE ClientPoll(c)  BY <1>1, <1>4 DEF ClientPoll, Silent
  <1>5. CASE Deliver(c)  BY <1>1, <1>5 DEF Deliver, Silent
  <1>6. CASE ClientApply(c)
    <2>1. Final(clip[c], down[c]) = Final(Head(down[c]), Tail(down[c]))
      BY <1>6, FinalFacts DEF ClientApply
    <2>2. \A d \in Client : Silent(d)'
      BY <1>6 DEF ClientApply, Silent, Changed
    <2>3. ~Changed(Server)' => ~Changed(Server)
      BY <1>6 DEF ClientApply, Changed
    <2>4. \A d \in Client : session'[d] /\ ~Changed(Server)'
                              => Final(clip'[d], down'[d]) = clip'[Server]
      BY <1>6, <2>1, <2>3 DEF ClientApply
    <2> QED  BY <1>1, <1>6, <2>2, <2>4 DEF ClientApply
  <1>7. CASE ClientApplyFails(c)  BY <1>7 DEF ClientApplyFails
  <1>8. CASE ServerPoll
    <2>1. \A d \in Client : session'[d] => Final(clip'[d], down'[d]) = clip'[Server]
      BY <1>8, FinalFacts DEF ServerPoll
    <2> QED  BY <1>8, <2>1 DEF ServerPoll, Silent, Changed
  <1>9. CASE ServerApply \/ ServerApplyFails
    BY <1>1, <1>9 DEF ServerApply, ServerApplyFails
  <1> QED  BY <1>2, <1>3, <1>4, <1>5, <1>6, <1>7, <1>8, <1>9 DEF ClientStep

\* While client b leads, such a step leaves everybody else silent, and what
\* b's watcher remembers is the last that the server is going to see.
LEMMA ClientLeadsStep ==
  ASSUME ClipTypeOK, ClientLeads, NEW b \in Client, latest = b, latest' = latest,
         fails' = 0, fails = 0, NEW c \in Client,
         \/ Break(c) \/ ClientStep(c) \/ ClientApplyFails(c)
         \/ ServerPoll \/ ServerApply \/ ServerApplyFails
  PROVE  ClientLeads'
  <1> USE ClipboardAssumption DEF ClipTypeOK, Machine
  <1> DEFINE End == Final(Final(seen[Server], cmd), up[b])
             Ends == session[b] => /\ clip[b] \notin Unsent
                                   /\ \/ seen[b] = End
                                      \/ seen[b] = Unseen
                                      \/ old[b] = <<>> /\ clip[b] # seen[b]
             Hush == ~Outstanding(Server) /\ \A d \in Client \ {b} : Silent(d)
  <1>1. Ends /\ Hush  BY DEF ClientLeads
  <1> SUFFICES Ends' /\ Hush'  BY DEF ClientLeads
  <1>2. (\A d \in Client : down[d] = <<>>) /\ ~Changed(Server)  BY <1>1 DEF Outstanding
  <1>3. CASE Break(c)
    <2>1. \A d \in Client : down'[d] = <<>>  BY <1>2, <1>3 DEF Break
    <2>2. Hush'  BY <1>1, <1>3, <2>1 DEF Break, Outstanding, Silent, Changed
    <2> QED  BY <1>1, <1>3, <2>2 DEF Break
  <1>4. CASE OldApplies(c)
    <2>1. c = b \/ ~session[c]  BY <1>1, <1>4 DEF OldApplies, Silent
    <2>2. Hush'  BY <1>1, <1>4, <2>1 DEF OldApplies, Outstanding, Silent, Changed
    <2>3. Head(old[c]) \notin Unsent  BY <1>4, FinalFacts DEF OldApplies
    <2> QED  BY <1>1, <1>4, <2>2, <2>3 DEF OldApplies
  <1>5. CASE ClientPoll(c)
    <2>1. c = b  BY <1>1, <1>5 DEF ClientPoll, Silent
    <2>2. Hush'  BY <1>1, <1>5, <2>1 DEF ClientPoll, Outstanding, Silent, Changed
    <2>3. End' = clip[b]  BY <1>5, <2>1, FinalFacts DEF ClientPoll
    <2> QED  BY <1>1, <1>5, <2>1, <2>2, <2>3 DEF ClientPoll
  <1>6. CASE Deliver(c)
    <2>1. c = b  BY <1>1, <1>6 DEF Deliver, Silent
    <2>2. Hush'  BY <1>1, <1>6, <2>1 DEF Deliver, Outstanding, Silent, Changed
    <2>3. Final(seen[Server], Append(cmd, Head(up[b]))) = Head(up[b])  BY FinalFacts
    <2>4. End = Final(Head(up[b]), Tail(up[b]))  BY <1>6, <2>1, FinalFacts DEF Deliver
    <2>5. End' = End  BY <1>6, <2>1, <2>3, <2>4 DEF Deliver
    <2> QED  BY <1>1, <1>6, <2>2, <2>5 DEF Deliver
  <1>7. CASE ClientApply(c) \/ ClientApplyFails(c)
    BY <1>2, <1>7 DEF ClientApply, ClientApplyFails
  <1>8. CASE ServerPoll  BY <1>2, <1>8 DEF ServerPoll
  <1>9. CASE ServerApply
    <2>1. Final(seen[Server], cmd) = Final(Head(cmd), Tail(cmd))
      BY <1>9, FinalFacts DEF ServerApply
    <2>2. seen'[Server] = Head(cmd) /\ cmd' = Tail(cmd) /\ up' = up  BY <1>9 DEF ServerApply
    <2>3. End' = End  BY <2>1, <2>2
    <2>4. ~Changed(Server)'
      <3>1. CASE Head(cmd) = seen[Server]  BY <1>2, <1>9, <3>1 DEF ServerApply, Changed
      <3>2. CASE Head(cmd) # seen[Server]  BY <1>9, <3>2 DEF ServerApply, Changed
      <3> QED  BY <3>1, <3>2
    <2>5. \A d \in Client : clip'[d] = clip[d] /\ seen'[d] = seen[d]
      BY <1>9 DEF ServerApply
    <2>6. Hush'  BY <1>1, <1>9, <2>4, <2>5 DEF ServerApply, Outstanding, Silent, Changed
    <2> QED  BY <1>1, <1>9, <2>3, <2>5, <2>6 DEF ServerApply
  <1>10. CASE ServerApplyFails  BY <1>10 DEF ServerApplyFails
  <1> QED  BY <1>3, <1>4, <1>5, <1>6, <1>7, <1>8, <1>9, <1>10 DEF ClientStep

\* Every step keeps the order of who is to be heard.
LEMMA LastWordStep == ClipTypeOK /\ LastWord /\ [ClipNext]_clipVars => LastWord'
  <1> SUFFICES ASSUME ClipTypeOK, LastWord, [ClipNext]_clipVars, ~missed', fails' = 0
               PROVE  ServerLeads' /\ ClientLeads'
    BY DEF LastWord
  <1> USE ClipboardAssumption
  <1>1. ASSUME NEW m \in Machine, NEW t \in Text, Copy(m, t)
        PROVE  ServerLeads' /\ ClientLeads'
    <2>1. /\ Disturbs(m) /\ fails = 0 /\ UNCHANGED <<up, cmd, down, old, seen, session>>
          /\ \A n \in Machine \ {m} : clip'[n] = clip[n]
      BY <1>1 DEF Copy, queues, ClipTypeOK
    <2> QED  BY <2>1, DisturbLeads
  <1>2. ASSUME NEW c \in Client, Join(c) PROVE ServerLeads' /\ ClientLeads'
    <2>1. /\ Disturbs(c) /\ fails = 0 /\ UNCHANGED <<up, cmd, down, old, clip>>
          /\ seen'[c] = Unseen /\ \A n \in Machine \ {c} : seen'[n] = seen[n]
          /\ \A n \in Client \ {c} : session'[n] = session[n]
          /\ c \in Machine /\ c # Server
      BY <1>2 DEF Join, queues, ClipTypeOK, Machine
    <2> QED  BY <2>1, DisturbLeads
  <1>3. ASSUME NEW c \in Client,
               \/ Break(c) \/ ClientStep(c) \/ ClientApplyFails(c)
               \/ ServerPoll \/ ServerApply \/ ServerApplyFails
        PROVE  ServerLeads' /\ ClientLeads'
    <2>1. UNCHANGED <<latest, missed>> /\ fails = 0
      BY <1>3 DEF Break, ClientStep, OldApplies, ClientPoll, Deliver, ClientApply,
                  ClientApplyFails, ServerPoll, ServerApply, ServerApplyFails, history,
                  bounds, ClipTypeOK
    <2>2. ServerLeads /\ ClientLeads  BY <2>1 DEF LastWord
    <2>3. CASE latest = Server
      BY <1>3, <2>1, <2>2, <2>3, ServerLeadsStep DEF ClientLeads
    <2>4. CASE latest \in Client
      BY <1>3, <2>1, <2>2, <2>4, ClientLeadsStep DEF ServerLeads
    <2> QED  BY <2>3, <2>4 DEF ClipTypeOK, Machine
  <1>4. CASE Client = {} /\ (ServerPoll \/ ServerApply \/ ServerApplyFails)
    <2>1. Head(cmd) \notin Unsent \/ cmd = <<>>  BY FinalFacts DEF ClipTypeOK
    <2> QED
      BY <1>4, <2>1
      DEF ServerPoll, ServerApply, ServerApplyFails, ServerLeads, ClientLeads, LastWord,
          history, bounds, ClipTypeOK, Machine
  <1>5. CASE UNCHANGED clipVars
    BY <1>5 DEF clipVars, LastWord, ServerLeads, ClientLeads, Silent, Outstanding, Changed
  <1> QED  BY <1>1, <1>2, <1>3, <1>4, <1>5 DEF ClipNext

-----------------------------------------------------------------------------
\* The variables keep their types.
THEOREM ClipTypeCorrect == ClipSpec => []ClipTypeOK
  BY ClipTypeInit, ClipTypeStep, PTL DEF ClipSpec

\* Once everything in flight has arrived, the last copy that crossed no other
\* is what the server holds, and what every client holds if it was the
\* server's.
THEOREM CopiesAreMirrored == ClipSpec => []Mirrored
  <1>1. ClipInit => LastWord  BY DEF ClipInit, LastWord
  <1>2. ASSUME ClipTypeOK, LastWord PROVE Mirrored
    <2> SUFFICES ASSUME Quiet, ~missed, fails = 0, clip[Server] \notin Unsent
                 PROVE  IF latest = Server
                          THEN \A c \in Client : session[c] => clip[c] = clip[Server]
                          ELSE session[latest] => clip[Server] = clip[latest]
      BY DEF Mirrored
    <2>1. ServerLeads /\ ClientLeads  BY <1>2 DEF LastWord
    <2>2. /\ ~Changed(Server) /\ \A c \in Client : down[c] = <<>>
          /\ clip[Server] = seen[Server]
      BY ClipboardAssumption DEF Quiet, Outstanding, Changed, Machine
    <2>3. CASE latest = Server  BY <2>1, <2>2, <2>3 DEF ServerLeads, Final
    <2>4. ASSUME latest # Server, session[latest] PROVE clip[Server] = clip[latest]
      <3>1. latest \in Client  BY <1>2, <2>4 DEF ClipTypeOK, Machine
      <3>2. ~Changed(latest) /\ up[latest] = <<>> /\ cmd = <<>>
        BY <2>4, <3>1 DEF Quiet, Outstanding, Machine
      <3>3. clip[latest] \notin Unsent /\ clip[latest] = seen[latest]
        BY <2>1, <2>4, <3>1, <3>2 DEF ClientLeads, Changed
      <3>4. seen[latest] # Unseen
        BY <1>2, <3>1, <3>3, ClipboardAssumption DEF ClipTypeOK, Machine
      <3> QED  BY <2>1, <2>2, <2>4, <3>1, <3>2, <3>3, <3>4 DEF ClientLeads, Final
    <2> QED  BY <2>3, <2>4
  <1> QED  BY <1>1, <1>2, LastWordStep, ClipTypeInit, ClipTypeStep, PTL DEF ClipSpec

\* A watcher sends what its own user copied, but in the three named cases.
THEOREM NothingIsEchoed == ClipSpec => NoEcho
  <1> DEFINE Own == /\ \A c \in Client :
                         Len(up'[c]) > Len(up[c])
                           => by[c] \in {"user", "old"} \/ seen[c] = Unseen
                    /\ (\E c \in Client : Len(down'[c]) > Len(down[c]))
                         => by[Server] = "user" \/ fails > 0
  <1>1. ASSUME ClipTypeOK, AppliedIsSeen, [ClipNext]_clipVars PROVE [Own]_clipVars
    <2> USE ClipboardAssumption DEF ClipTypeOK, Machine
    <2>1. ASSUME NEW c \in Client, Len(up'[c]) > Len(up[c]) PROVE Changed(c)
      <3>1. up'[c] # up[c] /\ up'[c] # <<>>  BY <2>1, EmptySeq, LenProperties
      <3>2. ASSUME NEW d \in Client, Deliver(d) PROVE FALSE
        <4>1. Len(Tail(up[d])) = Len(up[d]) - 1  BY <3>2, HeadTailProperties DEF Deliver
        <4> QED  BY <2>1, <3>2, <4>1 DEF Deliver
      <3>3. UNCHANGED up \/ (\E d \in Client : Break(d) \/ ClientPoll(d) \/ Deliver(d))
        BY <1>1
        DEF ClipNext, ClientStep, clipVars, Copy, Join, OldApplies, ClientApply,
            ClientApplyFails, ServerPoll, ServerApply, ServerApplyFails, queues
      <3>4. ASSUME NEW d \in Client, Break(d) PROVE FALSE  BY <3>1, <3>4 DEF Break
      <3>5. ASSUME NEW d \in Client, ClientPoll(d) PROVE Changed(c)
        BY <3>1, <3>5 DEF ClientPoll
      <3> QED  BY <3>1, <3>2, <3>3, <3>4, <3>5
    <2>2. ASSUME NEW c \in Client, Len(down'[c]) > Len(down[c]) PROVE Changed(Server)
      <3>1. down'[c] # down[c] /\ down'[c] # <<>>  BY <2>2, EmptySeq, LenProperties
      <3>2. ASSUME NEW d \in Client, ClientApply(d) \/ ClientApplyFails(d) PROVE FALSE
        <4>1. down[d] # <<>> /\ down' = [down EXCEPT ![d] = Tail(@)]
          BY <3>2 DEF ClientApply, ClientApplyFails
        <4>2. Len(Tail(down[d])) = Len(down[d]) - 1  BY <4>1, HeadTailProperties
        <4> QED  BY <2>2, <4>1, <4>2
      <3>3. \/ UNCHANGED down \/ ServerPoll
            \/ \E d \in Client : Break(d) \/ ClientApply(d) \/ ClientApplyFails(d)
        BY <1>1
        DEF ClipNext, ClientStep, clipVars, Copy, Join, OldApplies, ClientPoll,
            Deliver, ServerApply, ServerApplyFails, queues
      <3>4. ASSUME NEW d \in Client, Break(d) PROVE FALSE  BY <3>1, <3>4 DEF Break
      <3> QED  BY <3>1, <3>2, <3>3, <3>4 DEF ServerPoll
    <2> QED  BY <1>1, <2>1, <2>2 DEF AppliedIsSeen, Changed
  <1>2. ClipSpec => [][Own]_clipVars
    BY <1>1, ClipTypeInit, ClipTypeStep, AppliedInit, AppliedStep, PTL DEF ClipSpec
  <1> QED  BY <1>2 DEF NoEcho
=============================================================================
