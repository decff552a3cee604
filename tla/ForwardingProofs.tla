-------------------------- MODULE ForwardingProofs --------------------------
(***************************************************************************)
(* Theorems about Forwarding, for any number of connections and keys and   *)
(* any bounds on the queues.                                               *)
(*                                                                         *)
(* ConnInv relates a handler's place to the registry and to what is in its *)
(* client's queue; it holds however forwarding is toggled.  The second     *)
(* part is about keys and notices when only the hotkey toggles it.         *)
(***************************************************************************)
EXTENDS Forwarding, TLAPS

Away == {"away", "bye", "autoOff"}

\* The registry is the handlers that have not left.
RegistryPlaces == registry = {c \in Conn : handler[c] \notin Away}

\* Nothing is on its way to a session that ended, and it holds nothing.
EndedIsEmpty == \A c \in Conn \ session : out[c] = <<>> /\ held[c] = {}

\* A Goodbye is in a queue only if the handler is done, and then it is last.
GoodbyeOnlyLast ==
    \A c \in Conn : \A i \in 1..Len(out[c]) :
        out[c][i] = Goodbye => handler[c] = "away" /\ i = Len(out[c])

\* A session whose handler is done has its Goodbye in the queue.
GoodbyeSent ==
    \A c \in session :
        handler[c] = "away" =>
            out[c] # <<>> /\ out[c][Len(out[c])] = Goodbye

ConnInv == TypeOK /\ RegistryPlaces /\ EndedIsEmpty /\ GoodbyeOnlyLast
           /\ GoodbyeSent

-----------------------------------------------------------------------------
(* Queues.                                                                 *)

\* What taking the head of a queue does.
LEMMA TailFacts ==
  ASSUME NEW S, NEW s \in Seq(S), s # <<>>
  PROVE  /\ Head(s) \in S /\ Head(s) = s[1]
         /\ Tail(s) \in Seq(S)
         /\ Len(s) \in Nat /\ Len(s) > 0
         /\ Len(Tail(s)) = Len(s) - 1
         /\ \A i \in 1..Len(Tail(s)) : Tail(s)[i] = s[i + 1]
  OBVIOUS

\* An element behind the head keeps its distance from the end.
LEMMA BehindHead ==
  ASSUME NEW S, NEW s \in Seq(S), s # <<>>, NEW e, Head(s) # e
  PROVE  /\ \A i \in 1..Len(Tail(s)) :
               /\ i + 1 \in 1..Len(s) /\ Tail(s)[i] = s[i + 1]
               /\ i + 1 = Len(s) => i = Len(Tail(s))
         /\ s[Len(s)] = e => Tail(s) # <<>> /\ Tail(s)[Len(Tail(s))] = e
  <1> DEFINE n == Len(s)
             t == Tail(s)
  <1>0. n \in Nat /\ n > 0 /\ Len(t) = n - 1
    BY TailFacts
  <1>1. \A i \in 1..Len(t) :
               /\ i + 1 \in 1..n /\ t[i] = s[i + 1]
               /\ i + 1 = n => i = Len(t)
    <2>1. \A i \in 1..Len(t) : t[i] = s[i + 1]  BY TailFacts
    <2> HIDE DEF n, t
    <2> QED  BY <1>0, <2>1
  <1>2. ASSUME s[n] = e
        PROVE  t # <<>> /\ t[Len(t)] = e
    <2>1. n # 1  BY <1>2, TailFacts
    <2> HIDE DEF n, t
    <2>2. t = <<>> => Len(t) = 0  OBVIOUS
    <2>3. Len(t) \in 1..Len(t) /\ Len(t) + 1 = n  BY <1>0, <2>1
    <2>4. t[Len(t)] = s[n]  BY <1>1, <2>3
    <2> QED  BY <1>2, <2>2, <2>3, <2>4
  <1> QED  BY <1>1, <1>2

\* What sending to a queue does.
LEMMA AppendFacts ==
  ASSUME NEW S, NEW s \in Seq(S), NEW e \in S
  PROVE  /\ Append(s, e) \in Seq(S)
         /\ Append(s, e) # <<>>
         /\ Len(s) \in Nat
         /\ Len(Append(s, e)) = Len(s) + 1
         /\ \A i \in 1..Len(s) : Append(s, e)[i] = s[i]
         /\ Append(s, e)[Len(s) + 1] = e
  OBVIOUS

\* The messages, told apart by their tags.
LEMMA MessageFacts ==
  /\ CaptureMsg \subseteq Envelope
  /\ On \in CaptureMsg /\ Off \in CaptureMsg
  /\ ReleaseAll \in Envelope /\ Goodbye \in Envelope
  /\ \A b \in BOOLEAN : Toggle(b) \in CaptureMsg
  /\ \A c \in Code : Press(c) \in CaptureMsg /\ Release(c) \in CaptureMsg
  /\ \A k \in Key : key_to_code(k) \in Code
  /\ \A m \in CaptureMsg : m # Goodbye /\ m # ReleaseAll
  /\ ReleaseAll # Goodbye
  <1> USE DEF CaptureMsg, Envelope, Input, On, Off, Toggle, ReleaseAll, Goodbye,
          Press, Release, key_to_code
  <1>0. \A k \in Key : key_to_code(k) \in Code
    BY TableAssumption
  <1>1. \A b \in BOOLEAN : Toggle(b) \in {On, Off}
    OBVIOUS
  <1>2. \A m \in CaptureMsg : m.t \in {"press", "release", "toggle"}
    OBVIOUS
  <1>3. ReleaseAll.t = "releaseAll" /\ Goodbye.t = "goodbye"
    OBVIOUS
  <1> QED  BY <1>0, <1>1, <1>2, <1>3

\* What the capture callback may be about to do.
LEMMA CapFacts ==
  ASSUME TypeOK
  PROVE  /\ cap.step = "store" => cap.on \in BOOLEAN /\ cap = Store(cap.on)
         /\ cap.step = "send" => cap.msg \in CaptureMsg /\ cap = Send(cap.msg)
         /\ cap.step \in {"store", "send"} => cap # Idle
  BY DEF TypeOK, Idle, Store, Send

-----------------------------------------------------------------------------
(* Broadcasting appends the same envelope to every live registered queue.  *)

LEMMA BroadcastType ==
  ASSUME TypeOK, NEW m \in Envelope, Broadcast(m)
  PROVE  /\ out' \in [Conn -> Seq(Envelope)]
         /\ \A c \in Conn :
               out'[c] = IF c \in registry \cap session THEN Append(out[c], m)
                                                       ELSE out[c]
  <1>1. \A c \in Conn : Append(out[c], m) \in Seq(Envelope)
    BY AppendFacts DEF TypeOK
  <1> QED  BY <1>1 DEF Broadcast, TypeOK

\* A broadcast of anything but Goodbye keeps the connection invariant.
LEMMA BroadcastConn ==
  ASSUME ConnInv, NEW m \in Envelope, m # Goodbye, Broadcast(m),
         UNCHANGED <<registry, session, held>>,
         \A c \in Conn : handler[c] \in Away <=> handler'[c] \in Away,
         \A c \in Conn : handler[c] = "away" <=> handler'[c] = "away"
  PROVE  EndedIsEmpty' /\ GoodbyeOnlyLast' /\ GoodbyeSent'
  <1> USE DEF ConnInv
  <1>1. \A c \in Conn :
          out'[c] = IF c \in registry \cap session THEN Append(out[c], m)
                                                  ELSE out[c]
    BY BroadcastType
  <1>2. EndedIsEmpty'
    BY <1>1 DEF EndedIsEmpty
  <1>3. GoodbyeOnlyLast'
    <2> SUFFICES ASSUME NEW c \in Conn, NEW i \in 1..Len(out'[c]),
                        out'[c][i] = Goodbye
                 PROVE  handler'[c] = "away" /\ i = Len(out'[c])
      BY DEF GoodbyeOnlyLast
    <2>1. out[c] \in Seq(Envelope)  BY DEF TypeOK
    <2>2. CASE c \in registry \cap session
      <3>1. out'[c] = Append(out[c], m)  BY <1>1, <2>2
      <3>2. i \in 1..Len(out[c]) /\ out[c][i] = Goodbye
        BY <2>1, <3>1, AppendFacts
      <3>3. handler[c] = "away"  BY <3>2 DEF GoodbyeOnlyLast
      <3> QED  BY <3>3, <2>2 DEF RegistryPlaces, Away
    <2>3. CASE c \notin registry \cap session
      BY <1>1, <2>3 DEF GoodbyeOnlyLast
    <2> QED  BY <2>2, <2>3
  <1>4. GoodbyeSent'
    <2> SUFFICES ASSUME NEW c \in session, handler'[c] = "away"
                 PROVE  out'[c] # <<>> /\ out'[c][Len(out'[c])] = Goodbye
      BY DEF GoodbyeSent
    <2>0. c \in Conn /\ handler[c] = "away"  BY DEF TypeOK
    <2>1. c \notin registry  BY <2>0 DEF RegistryPlaces, Away
    <2>2. out'[c] = out[c]  BY <1>1, <2>0, <2>1
    <2> QED  BY <2>0, <2>2 DEF GoodbyeSent
  <1> QED  BY <1>2, <1>3, <1>4

-----------------------------------------------------------------------------
LEMMA ConnInit == Init => ConnInv
  <1> SUFFICES ASSUME Init PROVE ConnInv  OBVIOUS
  <1> USE DEF Init
  <1>1. TypeOK
    <2>1. handler \in [Conn -> HandlerPlaces]  BY DEF HandlerPlaces
    <2>2. out \in [Conn -> Seq(Envelope)] /\ capQ \in Seq(CaptureMsg)
      OBVIOUS
    <2>3. want \in [Conn -> BOOLEAN] /\ enabled \in BOOLEAN
      OBVIOUS
    <2>4. held \in [Conn -> SUBSET Injected] /\ notice \in [Conn -> {"none", "on", "off"}]
      OBVIOUS
    <2> QED  BY <2>1, <2>2, <2>3, <2>4 DEF TypeOK
  <1>2. RegistryPlaces  BY DEF RegistryPlaces, Away
  <1>3. EndedIsEmpty /\ GoodbyeOnlyLast /\ GoodbyeSent
    BY DEF EndedIsEmpty, GoodbyeOnlyLast, GoodbyeSent
  <1> QED  BY <1>1, <1>2, <1>3 DEF ConnInv

\* The capture thread touches no connection.
LEMMA CaptureConn ==
  ASSUME ConnInv, UNCHANGED <<registry, handler, session, held, out>>
  PROVE  RegistryPlaces' /\ EndedIsEmpty' /\ GoodbyeOnlyLast' /\ GoodbyeSent'
  BY DEF ConnInv, RegistryPlaces, EndedIsEmpty, GoodbyeOnlyLast, GoodbyeSent

LEMMA CaptureType ==
  ASSUME ConnInv,
         \/ \E k \in Key : ChordPress(k) \/ KeyPress(k) \/ KeyRelease(k)
         \/ CaptureStep
  PROVE  ConnInv'
  <1> USE DEF ConnInv
  <1>1. ASSUME NEW k \in Key, ChordPress(k) PROVE TypeOK'
    BY <1>1 DEF ChordPress, TypeOK, hubVars, peerVars, Store
  <1>2. ASSUME NEW k \in Key, KeyPress(k) PROVE TypeOK'
    BY <1>2, MessageFacts DEF KeyPress, TypeOK, hubVars, peerVars
  <1>3. ASSUME NEW k \in Key, KeyRelease(k) PROVE TypeOK'
    BY <1>3, MessageFacts DEF KeyRelease, TypeOK, hubVars, peerVars
  <1>4. ASSUME HotkeyStore PROVE TypeOK'
    BY <1>4, CapFacts, MessageFacts DEF HotkeyStore, TypeOK, hubVars, peerVars
  <1>5. ASSUME Dispatch PROVE TypeOK'
    BY <1>5, CapFacts, AppendFacts DEF Dispatch, TypeOK, hubVars, peerVars
  <1>6. TypeOK'
    BY <1>1, <1>2, <1>3, <1>4, <1>5 DEF CaptureStep
  <1>7. UNCHANGED <<registry, handler, session, held, out>>
    BY DEF ChordPress, KeyPress, KeyRelease, CaptureStep, HotkeyStore, Dispatch,
           hubVars, peerVars
  <1> QED  BY <1>6, <1>7, CaptureConn

LEMMA ForwarderType ==
  ASSUME ConnInv, ForwarderStep
  PROVE  ConnInv'
  <1> USE DEF ConnInv
  <1>1. CASE Forward
    <2>1. PICK m \in Envelope : m # Goodbye /\ Broadcast(m)
      BY <1>1, TailFacts, MessageFacts DEF Forward, TypeOK
    <2>2. out' \in [Conn -> Seq(Envelope)]  BY <2>1, BroadcastType
    <2>3. capQ' \in Seq(CaptureMsg) /\ fwd' \in {"idle", "announce"}
      BY <1>1, TailFacts DEF Forward, TypeOK
    <2>4. UNCHANGED <<enabled, pressed, swallowed, lastKey, eaten, cap, registry,
                      handler, want, session, held, notice>>
      BY <1>1 DEF Forward, capVars, hubVars, peerVars
    <2>5. TypeOK'  BY <2>2, <2>3, <2>4 DEF TypeOK
    <2>6. EndedIsEmpty' /\ GoodbyeOnlyLast' /\ GoodbyeSent'
      BY <2>1, <2>4, BroadcastConn
    <2> QED  BY <2>4, <2>5, <2>6 DEF RegistryPlaces
  <1>2. CASE ForwardAnnounce
    <2>1. Broadcast(Off) /\ Off \in Envelope /\ Off # Goodbye
      BY <1>2, MessageFacts DEF ForwardAnnounce
    <2>2. out' \in [Conn -> Seq(Envelope)]  BY <2>1, BroadcastType
    <2>4. UNCHANGED <<enabled, pressed, swallowed, lastKey, eaten, cap, registry, capQ,
                      handler, want, session, held, notice>>
      BY <1>2 DEF ForwardAnnounce, capVars, hubVars, peerVars
    <2>5. TypeOK'  BY <1>2, <2>2, <2>4 DEF TypeOK, ForwardAnnounce
    <2>6. EndedIsEmpty' /\ GoodbyeOnlyLast' /\ GoodbyeSent'
      BY <2>1, <2>4, BroadcastConn
    <2> QED  BY <2>4, <2>5, <2>6 DEF RegistryPlaces
  <1> QED  BY <1>1, <1>2 DEF ForwarderStep

\* A handler's step that sends nothing.
LEMMA HandlerConn ==
  ASSUME ConnInv, NEW c \in Conn, NEW p \in HandlerPlaces,
         handler[c] # "away", p # "away", Goto(c, p),
         UNCHANGED <<session, held, out>>
  PROVE  EndedIsEmpty' /\ GoodbyeOnlyLast' /\ GoodbyeSent'
  BY DEF ConnInv, TypeOK, Goto, EndedIsEmpty, GoodbyeOnlyLast, GoodbyeSent

\* A handler's step that sends one envelope to its own client; afterwards the
\* handler is done exactly if the envelope is the Goodbye.
LEMMA SendConn ==
  ASSUME ConnInv, NEW c \in Conn, NEW p \in HandlerPlaces, NEW m \in Envelope,
         handler[c] # "away", p = "away" <=> m = Goodbye, Goto(c, p),
         out' = [out EXCEPT ![c] = IF c \in session THEN Append(@, m) ELSE @],
         UNCHANGED <<session, held>>
  PROVE  /\ out' \in [Conn -> Seq(Envelope)]
         /\ EndedIsEmpty' /\ GoodbyeOnlyLast' /\ GoodbyeSent'
  <1> USE DEF ConnInv
  <1>0. out[c] \in Seq(Envelope)  BY DEF TypeOK
  <1>1. out' \in [Conn -> Seq(Envelope)]
    BY <1>0, AppendFacts DEF TypeOK
  <1>2. /\ out'[c] = IF c \in session THEN Append(out[c], m) ELSE out[c]
        /\ handler'[c] = p
        /\ \A d \in Conn \ {c} : out'[d] = out[d] /\ handler'[d] = handler[d]
    BY DEF TypeOK, Goto
  <1>3. EndedIsEmpty'  BY <1>2 DEF EndedIsEmpty
  <1>4. GoodbyeOnlyLast'
    <2> SUFFICES ASSUME NEW d \in Conn, NEW i \in 1..Len(out'[d]),
                        out'[d][i] = Goodbye
                 PROVE  handler'[d] = "away" /\ i = Len(out'[d])
      BY DEF GoodbyeOnlyLast
    <2>1. CASE d # c  BY <1>2, <2>1 DEF GoodbyeOnlyLast
    <2>2. CASE d = c /\ c \in session
      <3>1. out'[c] = Append(out[c], m)  BY <1>2, <2>2
      <3>2. \A j \in 1..Len(out[c]) : out[c][j] # Goodbye
        BY DEF GoodbyeOnlyLast
      <3>3. i = Len(out[c]) + 1 /\ m = Goodbye
        BY <1>0, <2>2, <3>1, <3>2, AppendFacts
      <3> QED  BY <1>0, <1>2, <2>2, <3>1, <3>3, AppendFacts
    <2>3. CASE d = c /\ c \notin session
      BY <1>2, <2>3 DEF EndedIsEmpty
    <2> QED  BY <2>1, <2>2, <2>3
  <1>5. GoodbyeSent'
    <2> SUFFICES ASSUME NEW d \in session, handler'[d] = "away"
                 PROVE  out'[d] # <<>> /\ out'[d][Len(out'[d])] = Goodbye
      BY DEF GoodbyeSent
    <2>0. d \in Conn  BY DEF TypeOK
    <2>1. CASE d # c  BY <1>2, <2>0, <2>1 DEF GoodbyeSent
    <2>2. CASE d = c
      BY <1>0, <1>2, <2>2, AppendFacts
    <2> QED  BY <2>1, <2>2
  <1> QED  BY <1>1, <1>3, <1>4, <1>5

LEMMA HandlerType ==
  ASSUME ConnInv, NEW c \in Conn, HandlerStep(c)
  PROVE  ConnInv'
  <1> USE DEF ConnInv, HandlerPlaces
  <1>1. CASE AutoForwardOn(c)
    <2>1. TypeOK' /\ RegistryPlaces'
      BY <1>1 DEF AutoForwardOn, TypeOK, RegistryPlaces, Goto, capVars, peerVars,
                  Away
    <2> QED  BY <1>1, <2>1, HandlerConn DEF AutoForwardOn, peerVars
  <1>2. CASE Greet(c)
    <2>1. out' \in [Conn -> Seq(Envelope)]
          /\ EndedIsEmpty' /\ GoodbyeOnlyLast' /\ GoodbyeSent'
      BY <1>2, SendConn, MessageFacts DEF Greet, peerVars
    <2>2. TypeOK' /\ RegistryPlaces'
      BY <1>2, <2>1 DEF Greet, TypeOK, RegistryPlaces, Goto, capVars, peerVars,
                  Away
    <2> QED  BY <2>1, <2>2
  <1>3. CASE ToggleStore(c)
    <2>1. TypeOK' /\ RegistryPlaces'
      BY <1>3 DEF ToggleStore, TypeOK, RegistryPlaces, Goto, capVars, peerVars,
                  Away
    <2> QED  BY <1>3, <2>1, HandlerConn DEF ToggleStore, peerVars
  <1>4. CASE ToggleRelease(c)
    <2>1. out' \in [Conn -> Seq(Envelope)]
      BY <1>4, BroadcastType, MessageFacts DEF ToggleRelease
    <2>2. TypeOK' /\ RegistryPlaces'
      BY <1>4, <2>1 DEF ToggleRelease, TypeOK, RegistryPlaces, Goto, capVars,
                  peerVars, Away
    <2>3. UNCHANGED <<registry, session, held>> /\ Broadcast(ReleaseAll)
      BY <1>4 DEF ToggleRelease, peerVars
    <2>4. \A d \in Conn : /\ handler[d] \in Away <=> handler'[d] \in Away
                          /\ handler[d] = "away" <=> handler'[d] = "away"
      BY <1>4 DEF ToggleRelease, Goto, TypeOK, Away
    <2> QED  BY <2>2, <2>3, <2>4, BroadcastConn, MessageFacts
  <1>5. CASE ToggleAnnounce(c)
    <2>0. want[c] \in BOOLEAN  BY DEF TypeOK
    <2>1. out' \in [Conn -> Seq(Envelope)]
      BY <1>5, <2>0, BroadcastType, MessageFacts DEF ToggleAnnounce
    <2>2. TypeOK' /\ RegistryPlaces'
      BY <1>5, <2>1 DEF ToggleAnnounce, TypeOK, RegistryPlaces, Goto, capVars,
                  peerVars, Away
    <2>3. UNCHANGED <<registry, session, held>> /\ Broadcast(Toggle(want[c]))
      BY <1>5 DEF ToggleAnnounce, peerVars
    <2>4. \A d \in Conn : /\ handler[d] \in Away <=> handler'[d] \in Away
                          /\ handler[d] = "away" <=> handler'[d] = "away"
      BY <1>5 DEF ToggleAnnounce, Goto, TypeOK, Away
    <2> QED  BY <2>0, <2>2, <2>3, <2>4, BroadcastConn, MessageFacts
  <1>6. CASE AutoForwardOff(c)
    <2>1. TypeOK' /\ RegistryPlaces'
      BY <1>6 DEF AutoForwardOff, TypeOK, RegistryPlaces, Goto, capVars, peerVars,
                  Away
    <2> QED  BY <1>6, <2>1, HandlerConn DEF AutoForwardOff, peerVars
  <1>7. CASE SayGoodbye(c)
    <2>1. out' \in [Conn -> Seq(Envelope)]
          /\ EndedIsEmpty' /\ GoodbyeOnlyLast' /\ GoodbyeSent'
      BY <1>7, SendConn, MessageFacts DEF SayGoodbye, peerVars
    <2>2. TypeOK' /\ RegistryPlaces'
      BY <1>7, <2>1 DEF SayGoodbye, TypeOK, RegistryPlaces, Goto, capVars,
                  peerVars, Away
    <2> QED  BY <2>1, <2>2
  <1> QED  BY <1>1, <1>2, <1>3, <1>4, <1>5, <1>6, <1>7 DEF HandlerStep

\* Joining, a toggle request and leaving: the steps a handler takes because
\* of what its peer does.
LEMMA PeerType ==
  ASSUME ConnInv, NEW c \in Conn,
         \/ Join(c) \/ Leave(c)
         \/ \E b \in ToggleRequests : ToggleLoad(c, b)
  PROVE  ConnInv'
  <1> USE DEF ConnInv, HandlerPlaces
  <1>1. CASE Join(c)
    <2>1. TypeOK' /\ RegistryPlaces'
      BY <1>1 DEF Join, TypeOK, RegistryPlaces, Goto, capVars, Away
    <2>2. EndedIsEmpty' /\ GoodbyeOnlyLast' /\ GoodbyeSent'
      BY <1>1 DEF Join, TypeOK, Goto, EndedIsEmpty, GoodbyeOnlyLast, GoodbyeSent
    <2> QED  BY <2>1, <2>2
  <1>2. CASE Leave(c)
    <2>1. TypeOK' /\ RegistryPlaces'
      BY <1>2 DEF Leave, TypeOK, RegistryPlaces, Goto, capVars, peerVars, Away
    <2> QED  BY <1>2, <2>1, HandlerConn DEF Leave, peerVars
  <1>3. ASSUME NEW b \in ToggleRequests, ToggleLoad(c, b) PROVE ConnInv'
    <2>1. TypeOK' /\ RegistryPlaces'
      BY <1>3, SwitchAssumption
         DEF ToggleLoad, TypeOK, RegistryPlaces, Goto, capVars, peerVars, Away
    <2> QED  BY <1>3, <2>1, HandlerConn DEF ToggleLoad, peerVars
  <1> QED  BY <1>1, <1>2, <1>3

LEMMA HeldType ==
  ASSUME NEW h \in SUBSET Injected, NEW m \in Envelope, m # Goodbye
  PROVE  HeldAfter(h, m) \in SUBSET Injected
  <1>1. \A c \in Code : code_to_key(c) \in SUBSET Injected
    BY TableAssumption DEF code_to_key
  <1> QED  BY <1>1 DEF HeldAfter, Envelope, CaptureMsg, Input, Press, Release,
                       On, Off, ReleaseAll, Goodbye

LEMMA ClientType ==
  ASSUME ConnInv, NEW c \in Conn, ClientStep(c) \/ EndSession(c)
  PROVE  ConnInv'
  <1> USE DEF ConnInv
  <1>0. out[c] \in Seq(Envelope)  BY DEF TypeOK
  <1>1. CASE Receive(c)
    <2> DEFINE m == Head(out[c])
    <2>1. /\ m \in Envelope /\ m # Goodbye /\ m = out[c][1]
          /\ Tail(out[c]) \in Seq(Envelope)
      BY <1>0, <1>1, TailFacts DEF Receive
    <2>a. /\ \A i \in 1..Len(Tail(out[c])) :
               /\ i + 1 \in 1..Len(out[c]) /\ Tail(out[c])[i] = out[c][i + 1]
               /\ i + 1 = Len(out[c]) => i = Len(Tail(out[c]))
          /\ out[c][Len(out[c])] = Goodbye =>
               Tail(out[c]) # <<>> /\ Tail(out[c])[Len(Tail(out[c]))] = Goodbye
      BY <1>0, <1>1, BehindHead DEF Receive
    <2>2. TypeOK'
      <3>1. HeldAfter(held[c], m) \in SUBSET Injected
        BY <2>1, HeldType DEF TypeOK
      <3>2. NoticeAfter(notice[c], m) \in {"none", "on", "off"}
        BY DEF NoticeAfter, TypeOK
      <3> QED  BY <1>1, <2>1, <3>1, <3>2 DEF Receive, TypeOK, capVars, hubVars
    <2>3. /\ out'[c] = Tail(out[c])
          /\ \A d \in Conn \ {c} : out'[d] = out[d] /\ held'[d] = held[d]
          /\ c \in session
          /\ UNCHANGED <<registry, handler, session>>
      BY <1>1 DEF Receive, TypeOK, hubVars
    <2>4. RegistryPlaces' /\ EndedIsEmpty'
      BY <2>3 DEF RegistryPlaces, EndedIsEmpty
    <2>5. GoodbyeOnlyLast'
      <3> SUFFICES ASSUME NEW d \in Conn, NEW i \in 1..Len(out'[d]),
                          out'[d][i] = Goodbye
                   PROVE  handler'[d] = "away" /\ i = Len(out'[d])
        BY DEF GoodbyeOnlyLast
      <3>1. CASE d # c  BY <2>3, <3>1 DEF GoodbyeOnlyLast
      <3>2. CASE d = c
        <4>1. i \in 1..Len(Tail(out[c])) /\ Tail(out[c])[i] = Goodbye
          BY <2>3, <3>2
        <4>2. handler[c] = "away" /\ i + 1 = Len(out[c])
          BY <2>a, <4>1 DEF GoodbyeOnlyLast
        <4> QED  BY <2>a, <2>3, <3>2, <4>1, <4>2
      <3> QED  BY <3>1, <3>2
    <2>6. GoodbyeSent'
      <3> SUFFICES ASSUME NEW d \in session, handler[d] = "away"
                   PROVE  out'[d] # <<>> /\ out'[d][Len(out'[d])] = Goodbye
        BY <2>3 DEF GoodbyeSent
      <3>0. d \in Conn  BY DEF TypeOK
      <3>1. CASE d # c  BY <2>3, <3>0, <3>1 DEF GoodbyeSent
      <3>2. CASE d = c
        <4>1. out[c][Len(out[c])] = Goodbye  BY <3>2 DEF GoodbyeSent
        <4> QED  BY <2>a, <2>3, <3>2, <4>1
      <3> QED  BY <3>1, <3>2
    <2> QED  BY <2>2, <2>4, <2>5, <2>6
  <1>2. ASSUME CloseSession(c) PROVE ConnInv'
    <2>1. TypeOK'
      BY <1>2 DEF CloseSession, TypeOK, capVars, hubVars
    <2>2. RegistryPlaces' /\ EndedIsEmpty' /\ GoodbyeOnlyLast' /\ GoodbyeSent'
      BY <1>2 DEF CloseSession, TypeOK, hubVars, RegistryPlaces, EndedIsEmpty,
                  GoodbyeOnlyLast, GoodbyeSent
    <2> QED  BY <2>1, <2>2
  <1> QED  BY <1>1, <1>2 DEF ClientStep, ReceiveGoodbye, EndSession

-----------------------------------------------------------------------------
LEMMA ConnNext == ConnInv /\ [Next]_vars => ConnInv'
  <1> SUFFICES ASSUME ConnInv, [Next]_vars PROVE ConnInv'  OBVIOUS
  <1>1. CASE UNCHANGED vars
    <2>1. TypeOK'  BY <1>1 DEF ConnInv, TypeOK, vars, capVars, hubVars, peerVars
    <2> QED  BY <1>1, <2>1, CaptureConn DEF ConnInv, vars, hubVars, peerVars
  <1> QED
    BY <1>1, CaptureType, ForwarderType, HandlerType, PeerType, ClientType
       DEF Next

\* The relation of handlers, registry and queues holds along every behaviour.
THEOREM ConnInvariance == Spec => []ConnInv
  BY ConnInit, ConnNext, PTL DEF Spec

\* Type correctness of capture, forwarder, handlers and clients.
THEOREM TypeCorrect == Spec => []TypeOK
  <1>1. ConnInv => TypeOK  BY DEF ConnInv
  <1> QED  BY <1>1, ConnInvariance, PTL

\* No broadcast, by the forwarder or another client's handler, follows the
\* Goodbye of a departing handler.
THEOREM GoodbyeSafe == Spec => []GoodbyeIsLast
  <1>1. ConnInv => GoodbyeIsLast
    BY DEF ConnInv, TypeOK, GoodbyeOnlyLast, GoodbyeIsLast
  <1> QED  BY <1>1, ConnInvariance, PTL

-----------------------------------------------------------------------------
(* What the clients come to when only the hotkey toggles forwarding (no    *)
(* client asks for it and auto_forward is off).                            *)
(*                                                                         *)
(* The argument is one, used three times.  The capture thread stores the   *)
(* flag and then sends the toggle into the same FIFO channel as the keys,  *)
(* and the forwarder empties that channel into the clients' FIFO queues.   *)
(* So behind everything on its way to a client that must be answered (a    *)
(* press while the flag is down, a toggle that is no longer true, a press  *)
(* of a key that is up again) its answer is on its way too.                *)

HotkeyOnly == ToggleRequests = {} /\ ~AutoForward

-----------------------------------------------------------------------------
(* Questions and answers in a queue.                                       *)

\* One of A is in s after position i, and not after n.
Later(s, i, n, A) == \E j \in (i + 1)..n : s[j] \in A

\* In the first n of s every one of Q has one of A behind it, and so has what
\* came before the queue, if it was one of Q.
Answered(s, n, before, Q, A) ==
    \A i \in 0..n : (IF i = 0 THEN before ELSE s[i] \in Q) => Later(s, i, n, A)

\* The callback is about to send one of A; or one is in the channel; or the
\* forwarder has one to broadcast.
Sends(A) == cap.step = "send" /\ cap.msg \in A
InQueue(A) == Sends(A) \/ Later(capQ, 0, Len(capQ), A)
Coming(A) == InQueue(A) \/ (fwd = "announce" /\ Off \in A)

\* The pipeline answers Q with A; Open are the clients that one of Q has
\* reached, unanswered.
PipeAnswers(Q, A, Open) ==
    /\ Sends(A) \/ Answered(capQ, Len(capQ), FALSE, Q, A)
    /\ fwd = "announce" /\ Off \in Q => InQueue(A)
    /\ \A c \in registry \cap session :
          Coming(A) \/ Answered(out[c], Len(out[c]), c \in Open, Q, A)

\* What the argument asks of Q and A: an off toggle is one of them, and the
\* ReleaseAll broadcast before it asks for no answer.
Matched(Q, A) == Q \cap A = {} /\ ReleaseAll \notin Q /\ Off \in Q \cup A

-----------------------------------------------------------------------------
(* The invariants.                                                         *)

NoToggler ==
    \A c \in Conn : handler[c] \notin {"greet", "store", "release", "announce"}

Presses == {Press(c) : c \in Code}

\* The callback's view of the flag is current: nobody else stores to it.
CapAgrees ==
    /\ cap.step = "store" => cap.on = ~enabled
    /\ Sends({On, Off}) => cap.msg = Toggle(enabled)
    /\ Sends(Presses) => enabled

Clearing == {Off, ReleaseAll, Goodbye}
Holding  == {c \in Conn : held[c] # {}}

\* While the flag is down, what releases everything is behind every press.
OffReleases == ~enabled => PipeAnswers(Presses, Clearing, Holding)

PipeInv == NoToggler /\ CapAgrees /\ OffReleases

Told(b) == {c \in Conn : notice[c] = IF b THEN "on" ELSE "off"}

\* A client that ended its session starts anew.
EndedIsUntold == \A c \in Conn \ session : notice[c] = "none"

\* The truth is behind every toggle that is not true any more.
LieIsCorrected ==
    \A b \in BOOLEAN :
        enabled = b => PipeAnswers({Toggle(~b)}, {Toggle(b)}, Told(~b))

TruthInv == EndedIsUntold /\ LieIsCorrected

\* Every Off in the first n of s, and before s, has an On behind it.
OffIsOver(s, n, before) == Answered(s, n, before, {Off}, {On})

\* A press in the channel comes after the On that allowed it ...
QueueOrder ==
    \A k \in 1..Len(capQ) : capQ[k] \in Presses => OffIsOver(capQ, k - 1, FALSE)

\* ... or that On has already left the channel ...
OnHasPassed ==
    (\E k \in 1..Len(capQ) : capQ[k] \in Presses /\ ~Later(capQ, 0, k - 1, {On}))
        => /\ fwd = "idle"
           /\ \A c \in registry \cap session :
                 OffIsOver(out[c], Len(out[c]), c \in Told(FALSE))

\* ... and so does a press on its way to a client.
OutOrder ==
    \A c \in session : \A k \in 1..Len(out[c]) :
        out[c][k] \in Presses => OffIsOver(out[c], k - 1, c \in Told(FALSE))

OrderInv == QueueOrder /\ OnHasPassed /\ OutOrder

CodesOf(x) == {c \in Code : x \in code_to_key(c)}
Puts(x)    == {Press(c) : c \in CodesOf(x)}
LetsGo(x)  == Clearing \cup {Release(c) : c \in CodesOf(x)}
Holders(x) == {c \in Conn : x \in held[c]}

\* A key that stands for x is down on the server's keyboard and its release
\* will not be swallowed, or it is one of those the chord has eaten.
Supported(x) ==
    \E k \in (pressed \ swallowed) \cup eaten : x \in code_to_key(key_to_code(k))

\* A key a client holds, or will hold, is down or will be let go.
DownOrLetGo ==
    \A x \in Injected :
        \/ Supported(x)
        \/ ~Sends(Puts(x)) /\ PipeAnswers(Puts(x), LetsGo(x), Holders(x))

\* The key that can repeat, if its press was an ordinary one, is not the chord
\* now either: a modifier pressed since would be the one that repeats.
RepeatsAsPressed ==
    lastKey \in pressed \ swallowed => ~Chord(lastKey, pressed)

KeysInv == swallowed \subseteq pressed /\ RepeatsAsPressed /\ DownOrLetGo

-----------------------------------------------------------------------------
(* Queues that grow at one end and shrink at the other.                    *)

\* The answers in a prefix are those of the prefix.
LEMMA AnsweredPrefix ==
  ASSUME NEW n \in Nat, NEW s, NEW t, \A j \in 1..n : t[j] = s[j], NEW f, NEW Q, NEW A
  PROVE  /\ \A i \in 0..n : Later(t, i, n, A) <=> Later(s, i, n, A)
         /\ Answered(t, n, f, Q, A) <=> Answered(s, n, f, Q, A)
  <1>1. ASSUME NEW i \in 0..n PROVE Later(t, i, n, A) <=> Later(s, i, n, A)
    <2>1. \A j \in (i + 1)..n : j \in 1..n  OBVIOUS
    <2> QED  BY <2>1 DEF Later
  <1>2. \A i \in 0..n : i = 0 \/ i \in 1..n  OBVIOUS
  <1>3. \A i \in 0..n : i # 0 => (t[i] \in Q <=> s[i] \in Q)  BY <1>2
  <1> QED  BY <1>1, <1>3 DEF Answered

\* One more at the end: fine if it asks nothing, and if it answers.
LEMMA AnsweredGrows ==
  ASSUME NEW n \in Nat, NEW s, NEW t, \A j \in 1..n : t[j] = s[j], NEW f, NEW Q, NEW A,
         t[n + 1] \notin Q
  PROVE  /\ Later(s, 0, n, A) \/ t[n + 1] \in A => Later(t, 0, n + 1, A)
         /\ Answered(s, n, f, Q, A) \/ t[n + 1] \in A => Answered(t, n + 1, f, Q, A)
  <1>1. ASSUME NEW i \in 0..n, Later(s, i, n, A) \/ t[n + 1] \in A
        PROVE  Later(t, i, n + 1, A)
    <2>1. CASE Later(s, i, n, A)
      <3>1. PICK j \in (i + 1)..n : s[j] \in A  BY <2>1 DEF Later
      <3>2. j \in (i + 1)..(n + 1) /\ t[j] \in A  BY <3>1
      <3> QED  BY <3>2 DEF Later
    <2>2. CASE t[n + 1] \in A
      <3>1. n + 1 \in (i + 1)..(n + 1)  OBVIOUS
      <3> QED  BY <2>2, <3>1 DEF Later
    <2> QED  BY <1>1, <2>1, <2>2
  <1>2. 0 \in 0..n  OBVIOUS
  <1>3. ASSUME Answered(s, n, f, Q, A) \/ t[n + 1] \in A,
               NEW i \in 0..(n + 1), IF i = 0 THEN f ELSE t[i] \in Q
        PROVE  Later(t, i, n + 1, A)
    <2>1. i # n + 1  BY <1>3
    <2>2. i \in 0..n /\ (i # 0 => t[i] = s[i])  BY <2>1
    <2>3. Later(s, i, n, A) \/ t[n + 1] \in A  BY <1>3, <2>2 DEF Answered
    <2> QED  BY <1>1, <2>2, <2>3
  <1> QED  BY <1>1, <1>2, <1>3 DEF Answered

\* The first one leaves: it is now what came before the queue, unless it is
\* an answer.
LEMMA AnsweredShrinks ==
  ASSUME NEW n \in Nat, NEW s, NEW t, \A j \in 1..n : t[j] = s[j + 1], NEW f, NEW g,
         NEW Q, NEW A
  PROVE  /\ Later(s, 0, n + 1, A) => s[1] \in A \/ Later(t, 0, n, A)
         /\ Answered(s, n + 1, f, Q, A) /\ s[1] \in Q => Later(t, 0, n, A)
         /\ Answered(s, n + 1, f, Q, A) /\ (g => s[1] \in Q \/ (f /\ s[1] \notin A))
              => Answered(t, n, g, Q, A)
  <1>1. ASSUME NEW i \in 0..n, Later(s, i + 1, n + 1, A) PROVE Later(t, i, n, A)
    <2>1. PICK j \in (i + 1 + 1)..(n + 1) : s[j] \in A  BY <1>1 DEF Later
    <2>2. j - 1 \in (i + 1)..n /\ j - 1 \in 1..n /\ (j - 1) + 1 = j  BY <2>1
    <2>3. t[j - 1] \in A  BY <2>1, <2>2
    <2> QED  BY <2>2, <2>3 DEF Later
  <1>2. ASSUME Later(s, 0, n + 1, A) PROVE s[1] \in A \/ Later(t, 0, n, A)
    <2>1. PICK j \in (0 + 1)..(n + 1) : s[j] \in A  BY <1>2 DEF Later
    <2>2. CASE j = 1  BY <2>1, <2>2
    <2>3. CASE j # 1
      <3>1. j \in (0 + 1 + 1)..(n + 1) /\ 0 \in 0..n  BY <2>3
      <3>2. Later(s, 0 + 1, n + 1, A)  BY <2>1, <3>1 DEF Later
      <3> QED  BY <1>1, <3>1, <3>2
    <2> QED  BY <2>2, <2>3
  <1>3. ASSUME Answered(s, n + 1, f, Q, A), s[1] \in Q PROVE Later(t, 0, n, A)
    <2>1. 1 \in 0..(n + 1) /\ 0 + 1 = 1 /\ 0 \in 0..n  OBVIOUS
    <2>2. Later(s, 0 + 1, n + 1, A)  BY <1>3, <2>1 DEF Answered
    <2> QED  BY <1>1, <2>1, <2>2
  <1>4. ASSUME Answered(s, n + 1, f, Q, A), g => s[1] \in Q \/ (f /\ s[1] \notin A),
               NEW i \in 0..n, IF i = 0 THEN g ELSE t[i] \in Q
        PROVE  Later(t, i, n, A)
    <2>1. CASE i = 0
      <3>1. CASE s[1] \in Q  BY <1>3, <1>4, <2>1, <3>1
      <3>2. CASE f /\ s[1] \notin A
        <4>1. 0 \in 0..(n + 1)  OBVIOUS
        <4>2. Later(s, 0, n + 1, A)  BY <1>4, <3>2, <4>1 DEF Answered
        <4> QED  BY <1>2, <2>1, <3>2, <4>2
      <3> QED  BY <1>4, <2>1, <3>1, <3>2
    <2>2. CASE i # 0
      <3>1. i \in 1..n /\ i + 1 \in 0..(n + 1) /\ i + 1 # 0  BY <2>2
      <3>2. s[i + 1] \in Q  BY <1>4, <2>2, <3>1
      <3>3. Later(s, i + 1, n + 1, A)  BY <1>4, <3>1, <3>2 DEF Answered
      <3> QED  BY <1>1, <3>3
    <2> QED  BY <2>1, <2>2
  <1> QED  BY <1>2, <1>3, <1>4 DEF Answered

\* Fewer questions, more answers.
LEMMA AnsweredMore ==
  ASSUME NEW n, NEW s, NEW f, NEW g, g => f, NEW Q, NEW A, NEW R, NEW B,
         R \subseteq Q, A \subseteq B
  PROVE  /\ \A i : Later(s, i, n, A) => Later(s, i, n, B)
         /\ Answered(s, n, f, Q, A) => Answered(s, n, g, R, B)
  <1>1. \A i : Later(s, i, n, A) => Later(s, i, n, B)  BY DEF Later
  <1>2. ASSUME Answered(s, n, f, Q, A), NEW i \in 0..n,
               IF i = 0 THEN g ELSE s[i] \in R
        PROVE  Later(s, i, n, B)
    <2>1. IF i = 0 THEN f ELSE s[i] \in Q  BY <1>2
    <2> QED  BY <1>1, <1>2, <2>1 DEF Answered
  <1> QED  BY <1>1, <1>2 DEF Answered

\* Nothing is unanswered that has nothing behind it.
LEMMA AnsweredEmpty ==
  ASSUME NEW s, NEW f, NEW Q, NEW A
  PROVE  /\ \A i \in Nat : ~Later(s, i, 0, A)
         /\ Answered(s, 0, f, Q, A) <=> ~f
  <1>1. \A i \in Nat : ~Later(s, i, 0, A)  BY DEF Later
  <1>2. \A i \in 0..0 : i = 0  OBVIOUS
  <1>3. 0 \in 0..0 /\ 0 \in Nat  OBVIOUS
  <1> QED  BY <1>1, <1>2, <1>3 DEF Answered

-----------------------------------------------------------------------------
(* Messages.                                                               *)

LEMMA TagFacts ==
  /\ Toggle(FALSE) = Off /\ Toggle(TRUE) = On /\ On # Off
  /\ \A c \in Code : Press(c) \notin {On, Off, ReleaseAll, Goodbye}
                     /\ Release(c) \notin {On, Off, ReleaseAll, Goodbye}
  /\ \A c, d \in Code : Press(c) # Release(d) /\ (Press(c) = Press(d) => c = d)
  /\ On \notin {ReleaseAll, Goodbye} /\ Off \notin {ReleaseAll, Goodbye}
  /\ ReleaseAll # Goodbye
  <1> USE DEF Toggle, On, Off, ReleaseAll, Goodbye, Press, Release
  <1>1. /\ On.t = "toggle" /\ Off.t = "toggle" /\ On.on = TRUE /\ Off.on = FALSE
        /\ ReleaseAll.t = "releaseAll" /\ Goodbye.t = "goodbye"
        /\ \A c \in Code : Press(c).t = "press" /\ Release(c).t = "release"
        /\ \A c \in Code : Press(c).code = c
    OBVIOUS
  <1>2. Toggle(FALSE) = Off /\ Toggle(TRUE) = On  OBVIOUS
  <1> HIDE DEF Toggle, On, Off, ReleaseAll, Goodbye, Press, Release
  <1> QED  BY <1>1, <1>2

LEMMA StepFacts ==
  /\ \A m : Send(m).step = "send" /\ Send(m).msg = m
  /\ \A b : Store(b).step = "store" /\ Store(b).on = b
  /\ Idle.step = "idle"
  BY DEF Send, Store, Idle

\* The three pairs of questions and answers.
LEMMA Pairs ==
  /\ Matched(Presses, Clearing)
  /\ \A b \in BOOLEAN : Matched({Toggle(~b)}, {Toggle(b)})
  /\ \A x \in Injected : Matched(Puts(x), LetsGo(x))
  <1>1. Matched(Presses, Clearing)  BY TagFacts DEF Matched, Presses, Clearing
  <1>2. \A b \in BOOLEAN : Matched({Toggle(~b)}, {Toggle(b)})
    BY TagFacts DEF Matched
  <1>3. \A x \in Injected : Matched(Puts(x), LetsGo(x))
    BY TagFacts DEF Matched, Puts, LetsGo, Clearing, CodesOf
  <1> QED  BY <1>1, <1>2, <1>3

-----------------------------------------------------------------------------
(* The pipeline keeps its answers, whatever Q and A are.                   *)

\* The callback had nothing to send, and nothing else moves.
LEMMA AnswersIdle ==
  ASSUME NEW Q, NEW A, NEW Open, PipeAnswers(Q, A, Open), cap.step # "send",
         UNCHANGED <<capQ, fwd, registry, session, out>>
  PROVE  PipeAnswers(Q, A, Open)'
  <1>1. ~Sends(A)  BY DEF Sends
  <1>2. Coming(A) => Coming(A)'  BY <1>1 DEF Coming, InQueue
  <1> QED  BY <1>1, <1>2 DEF PipeAnswers, InQueue

LEMMA AnswersStutter ==
  ASSUME NEW Q, NEW A, NEW Open, PipeAnswers(Q, A, Open),
         UNCHANGED <<cap, capQ, fwd, registry, session, out>>
  PROVE  PipeAnswers(Q, A, Open)'
  BY DEF PipeAnswers, Sends, InQueue, Coming

\* The callback is about to send an answer: it is behind everything.
LEMMA AnswersAtOnce ==
  ASSUME NEW Q, NEW A, NEW Open, Sends(A)
  PROVE  PipeAnswers(Q, A, Open)
  BY DEF PipeAnswers, Coming, InQueue

\* Fewer questions, more answers.
LEMMA AnswersMore ==
  ASSUME NEW Q, NEW A, NEW R, NEW B, NEW Open, NEW Open2, PipeAnswers(Q, A, Open),
         R \subseteq Q, A \subseteq B, Open2 \subseteq Open
  PROVE  PipeAnswers(R, B, Open2)
  <1>1. Sends(A) => Sends(B)  BY DEF Sends
  <1>2. \A s, n : Later(s, 0, n, A) => Later(s, 0, n, B)  BY AnsweredMore
  <1>3. InQueue(A) => InQueue(B)  BY <1>1, <1>2 DEF InQueue
  <1>4. Coming(A) => Coming(B)  BY <1>3 DEF Coming
  <1>5. Answered(capQ, Len(capQ), FALSE, Q, A) => Answered(capQ, Len(capQ), FALSE, R, B)
    BY AnsweredMore
  <1>6. ASSUME NEW c \in registry \cap session,
               Answered(out[c], Len(out[c]), c \in Open, Q, A)
        PROVE  Answered(out[c], Len(out[c]), c \in Open2, R, B)
    <2>1. c \in Open2 => c \in Open  OBVIOUS
    <2> QED  BY <1>6, <2>1, AnsweredMore
  <1> QED  BY <1>1, <1>3, <1>4, <1>5, <1>6 DEF PipeAnswers

\* dispatch, of anything but a question.
LEMMA AnswersDispatch ==
  ASSUME NEW Q, NEW A, NEW Open, TypeOK, PipeAnswers(Q, A, Open), Dispatch,
         ~Sends(Q)
  PROVE  PipeAnswers(Q, A, Open)'
  <1> DEFINE n == Len(capQ)
  <1>1. cap.step = "send" /\ cap.msg \in CaptureMsg /\ capQ \in Seq(CaptureMsg)
    BY CapFacts DEF Dispatch, TypeOK
  <1>2. /\ UNCHANGED <<registry, session, out, fwd>>
        /\ cap' = Idle /\ capQ' = Append(capQ, cap.msg)
    BY DEF Dispatch, hubVars, peerVars
  <1>3. /\ n \in Nat /\ Len(capQ') = n + 1
        /\ \A j \in 1..n : capQ'[j] = capQ[j]
        /\ capQ'[n + 1] = cap.msg
    BY <1>1, <1>2, AppendFacts
  <1>4. capQ'[n + 1] \notin Q /\ (Sends(A) => capQ'[n + 1] \in A)
    BY <1>1, <1>3 DEF Sends
  <1>5. Later(capQ, 0, n, A) \/ Sends(A) => Later(capQ', 0, n + 1, A)
    BY <1>3, <1>4, AnsweredGrows
  <1>6. Answered(capQ, n, FALSE, Q, A) \/ Sends(A) => Answered(capQ', n + 1, FALSE, Q, A)
    BY <1>3, <1>4, AnsweredGrows
  <1>7. InQueue(A) => InQueue(A)'  BY <1>3, <1>5 DEF InQueue
  <1>8. Coming(A) => Coming(A)'  BY <1>2, <1>7 DEF Coming
  <1> QED  BY <1>2, <1>3, <1>6, <1>7, <1>8 DEF PipeAnswers

\* A broadcast: what was coming still is, or has been sent, and what asks
\* has its answer coming.
LEMMA AnswersBroadcast ==
  ASSUME NEW Q, NEW A, NEW Open, TypeOK, PipeAnswers(Q, A, Open), Q \cap A = {},
         NEW m \in Envelope, Broadcast(m), UNCHANGED <<registry, session>>,
         Coming(A) => Coming(A)' \/ m \in A,
         m \in Q => Coming(A)'
  PROVE  \A c \in registry' \cap session' :
           Coming(A)' \/ Answered(out'[c], Len(out'[c]), c \in Open, Q, A)
  <1> SUFFICES ASSUME NEW c \in registry \cap session, ~Coming(A)'
               PROVE  Answered(out'[c], Len(out'[c]), c \in Open, Q, A)
    OBVIOUS
  <1> DEFINE n == Len(out[c])
  <1>1. c \in Conn /\ out[c] \in Seq(Envelope)  BY DEF TypeOK
  <1>2. out'[c] = Append(out[c], m)  BY <1>1, BroadcastType
  <1>3. /\ n \in Nat /\ Len(out'[c]) = n + 1
        /\ \A j \in 1..n : out'[c][j] = out[c][j]
        /\ out'[c][n + 1] = m
    BY <1>1, <1>2, AppendFacts
  <1>4. m \notin Q  OBVIOUS
  <1>5. m \in A \/ Answered(out[c], n, c \in Open, Q, A)  BY DEF PipeAnswers
  <1> HIDE DEF n
  <1>6. out'[c][n + 1] \notin Q  BY <1>3, <1>4
  <1>7. Answered(out'[c], n + 1, c \in Open, Q, A)
    BY <1>3, <1>5, <1>6, AnsweredGrows, ZenonT(30)
  <1> QED  BY <1>3, <1>7

\* The forwarder moves the head of the channel into the queues.
LEMMA AnswersForward ==
  ASSUME NEW Q, NEW A, NEW Open, Matched(Q, A), TypeOK, PipeAnswers(Q, A, Open), Forward
  PROVE  PipeAnswers(Q, A, Open)'
  <1> DEFINE n == Len(capQ) - 1  h == Head(capQ)
  <1>1. capQ \in Seq(CaptureMsg) /\ capQ # <<>>  BY DEF TypeOK, Forward
  <1>2. /\ UNCHANGED <<cap, registry, session>>
        /\ capQ' = Tail(capQ) /\ fwd = "idle"
    BY DEF Forward, capVars, hubVars, peerVars
  <1>3. /\ h \in CaptureMsg /\ h = capQ[1] /\ n \in Nat /\ Len(capQ) = n + 1
        /\ Len(capQ') = n /\ \A j \in 1..n : capQ'[j] = capQ[j + 1]
    BY <1>1, <1>2, TailFacts
  <1> HIDE DEF n, h
  <1>4. Later(capQ, 0, n + 1, A) => h \in A \/ Later(capQ', 0, n, A)
    BY <1>3, AnsweredShrinks, ZenonT(30)
  <1>5. Answered(capQ, n + 1, FALSE, Q, A) /\ h \in Q => Later(capQ', 0, n, A)
    BY <1>3, AnsweredShrinks, ZenonT(30)
  <1>6. Answered(capQ, n + 1, FALSE, Q, A) => Answered(capQ', n, FALSE, Q, A)
    BY <1>3, AnsweredShrinks, ZenonT(30)
  <1>7. Sends(A)' = Sends(A)  BY <1>2 DEF Sends
  <1>8. InQueue(A) => h \in A \/ InQueue(A)'  BY <1>3, <1>4, <1>7 DEF InQueue
  <1>9. h \in Q => InQueue(A)'  BY <1>3, <1>5, <1>7 DEF InQueue, PipeAnswers
  <1>10. Sends(A)' \/ Answered(capQ', Len(capQ'), FALSE, Q, A)
    BY <1>3, <1>6, <1>7 DEF PipeAnswers
  <1>11. CASE h = Off
    <2>1. Broadcast(ReleaseAll) /\ fwd' = "announce"  BY <1>11 DEF Forward, h
    <2>2. Coming(A)'  BY <1>9, <1>11, <2>1 DEF Coming, Matched
    <2> QED  BY <1>9, <1>10, <1>11, <2>2 DEF PipeAnswers
  <1>12. CASE h # Off
    <2>1. Broadcast(h) /\ fwd' = "idle" /\ h \in Envelope
      BY <1>3, <1>12, MessageFacts DEF Forward, h
    <2>2. Coming(A) => Coming(A)' \/ h \in A  BY <1>2, <1>8 DEF Coming
    <2>3. h \in Q => Coming(A)'  BY <1>9 DEF Coming
    <2>4. \A c \in registry' \cap session' :
            Coming(A)' \/ Answered(out'[c], Len(out'[c]), c \in Open, Q, A)
      BY <1>2, <2>1, <2>2, <2>3, AnswersBroadcast DEF Matched
    <2> QED  BY <1>10, <2>1, <2>4 DEF PipeAnswers
  <1> QED  BY <1>11, <1>12

\* The second of the two broadcasts.
LEMMA AnswersAnnounce ==
  ASSUME NEW Q, NEW A, NEW Open, Matched(Q, A), TypeOK, PipeAnswers(Q, A, Open),
         ForwardAnnounce
  PROVE  PipeAnswers(Q, A, Open)'
  <1>1. /\ UNCHANGED <<cap, capQ, registry, session>>
        /\ fwd = "announce" /\ fwd' = "idle" /\ Broadcast(Off)
    BY DEF ForwardAnnounce, capVars, hubVars, peerVars
  <1>2. InQueue(A)' = InQueue(A) /\ Sends(A)' = Sends(A)
    BY <1>1 DEF InQueue, Sends
  <1>3. Coming(A) => Coming(A)' \/ Off \in A  BY <1>2 DEF Coming
  <1>4. Off \in Q => Coming(A)'  BY <1>1, <1>2 DEF Coming, PipeAnswers
  <1>5. Off \in Envelope  BY MessageFacts
  <1>6. \A c \in registry' \cap session' :
          Coming(A)' \/ Answered(out'[c], Len(out'[c]), c \in Open, Q, A)
    BY <1>1, <1>3, <1>4, <1>5, AnswersBroadcast DEF Matched
  <1> QED  BY <1>1, <1>2, <1>6 DEF PipeAnswers

-----------------------------------------------------------------------------
(* What each actor leaves alone.                                           *)

LEMMA ForwarderShape ==
  ASSUME ForwarderStep
  PROVE  UNCHANGED <<enabled, pressed, swallowed, lastKey, eaten, cap, registry, handler,
                     session, held, notice>>
  BY DEF ForwarderStep, Forward, ForwardAnnounce, capVars, hubVars, peerVars

\* Handlers, when no client toggles and auto_forward is off, only come and go;
\* none of them sends to a client that is registered.
LEMMA HandlerShape ==
  ASSUME HotkeyOnly, ConnInv, NoToggler, NEW c \in Conn,
         \/ HandlerStep(c) \/ Join(c) \/ Leave(c)
         \/ \E b \in ToggleRequests : ToggleLoad(c, b)
  PROVE  /\ UNCHANGED <<enabled, pressed, swallowed, lastKey, eaten, cap, capQ, fwd, held,
                        notice>>
         /\ NoToggler'
         /\ session \subseteq session'
         /\ \A d \in registry' \cap session' :
               /\ out'[d] = out[d]
               /\ d \in registry \cap session \/ (d \notin session /\ out[d] = <<>>)
         /\ \A d \in session' :
               \/ out'[d] = out[d] /\ (d \in session \/ out[d] = <<>>)
               \/ d \in session /\ out'[d] = Append(out[d], Goodbye)
  <1> USE DEF ConnInv
  <1>1. AutoForwardOn(c) \/ AutoForwardOff(c) \/ SayGoodbye(c) \/ Join(c) \/ Leave(c)
    BY DEF HotkeyOnly, HandlerStep, NoToggler, Greet, ToggleStore,
           ToggleRelease, ToggleAnnounce
  <1>2. enabled' = enabled
    <2>1. enabled \in BOOLEAN /\ ~AutoForward  BY DEF TypeOK, HotkeyOnly
    <2>2. (enabled \/ AutoForward) = enabled /\ (enabled /\ ~AutoForward) = enabled
      BY <2>1
    <2> QED  BY <1>1, <2>2 DEF AutoForwardOn, AutoForwardOff, SayGoodbye, Join, Leave
  <1>3. UNCHANGED <<pressed, swallowed, lastKey, eaten, cap, capQ, fwd, held, notice>>
    BY <1>1 DEF AutoForwardOn, AutoForwardOff, SayGoodbye, Join, Leave, capVars,
                peerVars
  <1>4. NoToggler'
    BY <1>1 DEF AutoForwardOn, AutoForwardOff, SayGoodbye, Join, Leave, Goto,
                HotkeyOnly, NoToggler, TypeOK
  <1>5. /\ \A d \in Conn \ {c} : out'[d] = out[d]
        /\ registry' \ {c} = registry \ {c}
        /\ session \subseteq session' /\ session' \ {c} = session \ {c}
    BY <1>1 DEF AutoForwardOn, AutoForwardOff, SayGoodbye, Join, Leave, TypeOK, peerVars
  <1>6. registry \subseteq Conn /\ session \subseteq Conn /\ session' \subseteq Conn
    BY <1>5 DEF TypeOK
  <1>7. /\ c \in registry' \cap session' =>
             /\ out'[c] = out[c]
             /\ c \in registry \cap session \/ (c \notin session /\ out[c] = <<>>)
        /\ c \in session' =>
             \/ out'[c] = out[c] /\ (c \in session \/ out[c] = <<>>)
             \/ c \in session /\ out'[c] = Append(out[c], Goodbye)
    <2>1. CASE Join(c)  BY <2>1 DEF Join, EndedIsEmpty
    <2>2. CASE AutoForwardOn(c)  BY <2>2 DEF AutoForwardOn, peerVars
    <2>3. CASE Leave(c)  BY <2>3 DEF Leave, peerVars
    <2>4. CASE AutoForwardOff(c)
      BY <2>4 DEF AutoForwardOff, peerVars, RegistryPlaces, Away
    <2>5. CASE SayGoodbye(c)
      <3>1. c \notin registry' /\ session' = session
        BY <2>5 DEF SayGoodbye, peerVars, RegistryPlaces, Away
      <3>2. c \in session => out'[c] = Append(out[c], Goodbye)
        BY <2>5 DEF SayGoodbye, TypeOK
      <3> QED  BY <3>1, <3>2
    <2> QED  BY <1>1, <2>1, <2>2, <2>3, <2>4, <2>5
  <1>8. ASSUME NEW d \in session', d # c PROVE d \in session /\ out'[d] = out[d]
    BY <1>5, <1>6, <1>8
  <1>9. ASSUME NEW d \in registry', d # c PROVE d \in registry
    BY <1>5, <1>9
  <1> QED  BY <1>2, <1>3, <1>4, <1>5, <1>7, <1>8, <1>9

\* A client takes the head of its queue, or ends its session.
LEMMA ClientShape ==
  ASSUME ConnInv, NEW c \in Conn, ClientStep(c) \/ EndSession(c)
  PROVE  /\ UNCHANGED <<enabled, pressed, swallowed, lastKey, eaten, cap, capQ, fwd,
                        registry, handler>>
         /\ session' \subseteq session
         /\ \A d \in session' :
               \/ UNCHANGED <<out[d], held[d], notice[d]>>
               \/ /\ out[d] # <<>> /\ Head(out[d]) \in Envelope \ {Goodbye}
                  /\ out'[d] = Tail(out[d])
                  /\ held'[d] = HeldAfter(held[d], Head(out[d]))
                  /\ notice'[d] = NoticeAfter(notice[d], Head(out[d]))
         /\ \A d \in Conn \ session' :
               \/ d \in session /\ held'[d] = {} /\ notice'[d] = "none"
               \/ d \notin session /\ UNCHANGED <<held[d], notice[d]>>
  <1> USE DEF ConnInv
  <1>1. UNCHANGED <<enabled, pressed, swallowed, lastKey, eaten, cap, capQ, fwd, registry,
                    handler>>
    BY DEF ClientStep, Receive, ReceiveGoodbye, EndSession, CloseSession, capVars,
           hubVars
  <1>2. \A d \in Conn \ {c} : UNCHANGED <<out[d], held[d], notice[d]>>
    BY DEF ClientStep, Receive, ReceiveGoodbye, EndSession, CloseSession, TypeOK
  <1>3. CASE Receive(c)
    <2>1. /\ session' = session /\ c \in session /\ session \subseteq Conn
          /\ out[c] # <<>> /\ Head(out[c]) # Goodbye
          /\ out'[c] = Tail(out[c])
          /\ held'[c] = HeldAfter(held[c], Head(out[c]))
          /\ notice'[c] = NoticeAfter(notice[c], Head(out[c]))
      BY <1>3 DEF Receive, TypeOK
    <2>2. Head(out[c]) \in Envelope  BY <2>1, TailFacts DEF TypeOK
    <2> QED  BY <1>1, <1>2, <2>1, <2>2
  <1>4. CASE c \in session /\ CloseSession(c)
    <2>1. /\ session' = session \ {c} /\ session \subseteq Conn
          /\ held'[c] = {} /\ notice'[c] = "none"
      BY <1>4 DEF CloseSession, TypeOK
    <2> QED  BY <1>1, <1>2, <1>4, <2>1
  <1> QED  BY <1>3, <1>4 DEF ClientStep, ReceiveGoodbye, EndSession

\* Forwarder and handlers keep the answers.
LEMMA AnswersServer ==
  ASSUME NEW Q, NEW A, NEW Open, Matched(Q, A), HotkeyOnly, ConnInv, NoToggler,
         PipeAnswers(Q, A, Open), Open \subseteq session,
         \/ ForwarderStep
         \/ \E c \in Conn : \/ HandlerStep(c) \/ Join(c) \/ Leave(c)
                            \/ \E b \in ToggleRequests : ToggleLoad(c, b)
  PROVE  PipeAnswers(Q, A, Open)'
  <1>1. CASE ForwarderStep
    BY <1>1, AnswersForward, AnswersAnnounce DEF ForwarderStep, ConnInv
  <1>2. ASSUME NEW c \in Conn,
               \/ HandlerStep(c) \/ Join(c) \/ Leave(c)
               \/ \E b \in ToggleRequests : ToggleLoad(c, b)
        PROVE  PipeAnswers(Q, A, Open)'
    <2>1. /\ UNCHANGED <<cap, capQ, fwd>>
          /\ \A d \in registry' \cap session' :
                /\ out'[d] = out[d]
                /\ d \in registry \cap session \/ (d \notin session /\ out[d] = <<>>)
      BY <1>2, HandlerShape
    <2>2. /\ Sends(A)' = Sends(A) /\ InQueue(A)' = InQueue(A) /\ Coming(A)' = Coming(A)
      BY <2>1 DEF Sends, InQueue, Coming
    <2>3. ASSUME NEW d \in registry' \cap session', ~Coming(A)
          PROVE  Answered(out'[d], Len(out'[d]), d \in Open, Q, A)
      <3>1. CASE d \in registry \cap session  BY <2>1, <2>3, <3>1 DEF PipeAnswers
      <3>2. CASE d \notin session /\ out[d] = <<>>
        <4>1. Len(<<>>) = 0  OBVIOUS
        <4>2. Len(out'[d]) = 0 /\ d \notin Open  BY <2>1, <3>2, <4>1
        <4>3. Answered(out'[d], 0, d \in Open, Q, A)  BY <4>2, AnsweredEmpty
        <4> QED  BY <4>2, <4>3
      <3> QED  BY <2>1, <3>1, <3>2
    <2> QED  BY <2>1, <2>2, <2>3 DEF PipeAnswers
  <1> QED  BY <1>1, <1>2

\* So do the clients: one that takes a question from its queue stays to be
\* answered, one that takes an answer does not.
LEMMA AnswersClient ==
  ASSUME NEW Q, NEW A, NEW Open, NEW Open2, ConnInv, PipeAnswers(Q, A, Open),
         NEW c \in Conn, ClientStep(c) \/ EndSession(c),
         \A d \in session' :
            \/ out'[d] = out[d] /\ (d \in Open2 => d \in Open)
            \/ /\ out[d] # <<>> /\ out'[d] = Tail(out[d])
               /\ d \in Open2 => \/ Head(out[d]) \in Q
                                 \/ d \in Open /\ Head(out[d]) \notin A
  PROVE  PipeAnswers(Q, A, Open2)'
  <1>1. UNCHANGED <<cap, capQ, fwd, registry>> /\ session' \subseteq session
    BY ClientShape
  <1>2. /\ Sends(A)' = Sends(A) /\ InQueue(A)' = InQueue(A) /\ Coming(A)' = Coming(A)
    BY <1>1 DEF Sends, InQueue, Coming
  <1>3. ASSUME NEW d \in registry' \cap session', ~Coming(A)
        PROVE  Answered(out'[d], Len(out'[d]), d \in Open2, Q, A)
    <2>1. d \in Conn /\ out[d] \in Seq(Envelope)  BY <1>1 DEF ConnInv, TypeOK
    <2>2. Answered(out[d], Len(out[d]), d \in Open, Q, A)
      BY <1>1, <1>3 DEF PipeAnswers
    <2>3. CASE out'[d] = out[d] /\ (d \in Open2 => d \in Open)
      <3>1. Q \subseteq Q /\ A \subseteq A  OBVIOUS
      <3> QED  BY <2>2, <2>3, <3>1, AnsweredMore, ZenonT(30)
    <2>4. CASE /\ out[d] # <<>> /\ out'[d] = Tail(out[d])
               /\ d \in Open2 => \/ Head(out[d]) \in Q
                                 \/ d \in Open /\ Head(out[d]) \notin A
      <3> DEFINE n == Len(out[d]) - 1
      <3>1. /\ Head(out[d]) = out[d][1] /\ n \in Nat /\ Len(out[d]) = n + 1
            /\ Len(out'[d]) = n /\ \A j \in 1..n : out'[d][j] = out[d][j + 1]
        BY <2>1, <2>4, TailFacts
      <3> HIDE DEF n
      <3>2. d \in Open2 => out[d][1] \in Q \/ (d \in Open /\ out[d][1] \notin A)
        BY <2>4, <3>1
      <3>3. Answered(out[d], n + 1, d \in Open, Q, A)  BY <2>2, <3>1
      <3>4. n \in Nat /\ \A j \in 1..n : out'[d][j] = out[d][j + 1]  BY <3>1
      <3>5. Answered(out'[d], n, d \in Open2, Q, A)
        BY <3>2, <3>3, <3>4, AnsweredShrinks, ZenonT(30)
      <3> QED  BY <3>1, <3>5
    <2> QED  BY <2>3, <2>4
  <1> QED  BY <1>1, <1>2, <1>3 DEF PipeAnswers

LEMMA KeysShape ==
  ASSUME NEW k \in Key, ChordPress(k) \/ KeyPress(k) \/ KeyRelease(k)
  PROVE  /\ UNCHANGED <<enabled, capQ, fwd, registry, handler, session, held, notice,
                        out>>
         /\ cap = Idle /\ cap.step = "idle"
         /\ \/ cap' = Idle
            \/ cap' = Store(~enabled)
            \/ enabled /\ \E c \in Code : cap' = Send(Press(c)) \/ cap' = Send(Release(c))
  BY MessageFacts, StepFacts
     DEF ChordPress, KeyPress, KeyRelease, hubVars, peerVars

LEMMA StoreShape ==
  ASSUME TypeOK, HotkeyStore
  PROVE  /\ UNCHANGED <<pressed, swallowed, lastKey, capQ, fwd, registry, handler, session,
                        held, notice, out>>
         /\ cap.on => eaten' = eaten
         /\ cap.step = "store" /\ cap.on \in BOOLEAN
         /\ enabled' = cap.on /\ cap' = Send(Toggle(cap.on))
  BY CapFacts DEF HotkeyStore, hubVars, peerVars

LEMMA DispatchShape ==
  ASSUME Dispatch
  PROVE  /\ UNCHANGED <<enabled, pressed, swallowed, lastKey, eaten, fwd, registry, handler,
                        session, held, notice, out>>
         /\ cap.step = "send" /\ cap' = Idle
  BY DEF Dispatch, hubVars, peerVars

\* What an envelope does to the keys a client holds, and to what it believes.
LEMMA HeldFacts ==
  ASSUME NEW h \in SUBSET Injected, NEW m \in Envelope \ {Goodbye}
  PROVE  /\ m \notin Presses => HeldAfter(h, m) \subseteq h
         /\ HeldAfter(h, m) # {} => m \in Presses \/ (h # {} /\ m \notin Clearing)
         /\ \A x \in Injected :
               x \in HeldAfter(h, m) => m \in Puts(x) \/ (x \in h /\ m \notin LetsGo(x))
  <1> USE DEF HeldAfter
  <1>1. CASE m \in Presses
    <2>1. PICK c \in Code : m = Press(c)  BY <1>1 DEF Presses
    <2>2. HeldAfter(h, m) = h \cup code_to_key(c)  BY <2>1 DEF Press
    <2>3. m \notin Clearing /\ \A x : m \notin LetsGo(x)
      BY <2>1, TagFacts DEF Clearing, LetsGo, CodesOf
    <2>4. \A x : x \in code_to_key(c) => m \in Puts(x)  BY <2>1 DEF Puts, CodesOf
    <2> QED  BY <1>1, <2>2, <2>3, <2>4
  <1>2. CASE \E c \in Code : m = Release(c)
    <2>1. PICK c \in Code : m = Release(c)  BY <1>2
    <2>2. HeldAfter(h, m) = h \ code_to_key(c)  BY <2>1 DEF Release
    <2>3. m \notin Clearing  BY <2>1, TagFacts DEF Clearing
    <2>4. \A x : m \in LetsGo(x) => x \in code_to_key(c)
      <3>1. \A d \in Code : Release(d) = Release(c) => d = c
        <4>1. \A d \in Code : Release(d).code = d  BY DEF Release
        <4> QED  BY <4>1
      <3> QED  BY <2>1, <2>3, <3>1 DEF LetsGo, CodesOf
    <2> QED  BY <2>2, <2>3, <2>4
  <1>3. CASE m = On
    <2>1. HeldAfter(h, m) = h  BY <1>3 DEF On
    <2>2. m \notin Clearing /\ \A x : m \notin LetsGo(x)
      BY <1>3, TagFacts DEF Clearing, LetsGo, CodesOf
    <2> QED  BY <2>1, <2>2
  <1>4. CASE m = Off \/ m = ReleaseAll
    <2>1. HeldAfter(h, m) = {}  BY <1>4 DEF Off, ReleaseAll
    <2> QED  BY <2>1
  <1> QED  BY <1>1, <1>2, <1>3, <1>4 DEF Envelope, CaptureMsg, Input, Presses

LEMMA NoticeFacts ==
  ASSUME NEW n, NEW m \in Envelope, NEW b \in BOOLEAN
  PROVE  NoticeAfter(n, m) = (IF b THEN "on" ELSE "off")
           => \/ m = Toggle(b)
              \/ n = (IF b THEN "on" ELSE "off") /\ m # Toggle(~b)
  <1>1. m.t = "toggle" => m \in {On, Off}
    BY DEF Envelope, CaptureMsg, Input, Press, Release, ReleaseAll, Goodbye
  <1>2. On.t = "toggle" /\ On.on = TRUE /\ Off.t = "toggle" /\ Off.on = FALSE
    BY DEF On, Off
  <1>3. CASE m = On  BY <1>2, <1>3, TagFacts DEF NoticeAfter
  <1>4. CASE m = Off  BY <1>2, <1>4, TagFacts DEF NoticeAfter
  <1>5. CASE m # On /\ m # Off
    <2>1. NoticeAfter(n, m) = n  BY <1>1, <1>5 DEF NoticeAfter
    <2>2. m # Toggle(~b)  BY <1>5, TagFacts
    <2> QED  BY <2>1, <2>2
  <1> QED  BY <1>3, <1>4, <1>5

-----------------------------------------------------------------------------
(* With the flag down, everything is released.                             *)

LEMMA PipeInit == Init => PipeInv
  <1> SUFFICES ASSUME Init PROVE PipeInv  OBVIOUS
  <1> USE DEF Init
  <1>1. NoToggler  BY DEF NoToggler
  <1>2. CapAgrees  BY StepFacts DEF CapAgrees, Sends
  <1>3. Len(capQ) = 0  OBVIOUS
  <1>4. Answered(capQ, Len(capQ), FALSE, Presses, Clearing)  BY <1>3, AnsweredEmpty
  <1>5. OffReleases  BY <1>4 DEF OffReleases, PipeAnswers
  <1> QED  BY <1>1, <1>2, <1>5 DEF PipeInv

LEMMA CapNext ==
  ASSUME HotkeyOnly, ConnInv, PipeInv, [Next]_vars
  PROVE  NoToggler' /\ CapAgrees'
  <1> USE DEF ConnInv, PipeInv
  <1>1. ASSUME NEW k \in Key, ChordPress(k) \/ KeyPress(k) \/ KeyRelease(k)
        PROVE  NoToggler' /\ CapAgrees'
    <2>1. NoToggler' /\ enabled' = enabled  BY <1>1, KeysShape DEF NoToggler
    <2>2. CASE cap' = Idle  BY <2>1, <2>2, StepFacts DEF CapAgrees, Sends
    <2>3. CASE cap' = Store(~enabled)  BY <2>1, <2>3, StepFacts DEF CapAgrees, Sends
    <2>4. ASSUME enabled, NEW c \in Code, cap' = Send(Press(c)) \/ cap' = Send(Release(c))
          PROVE  CapAgrees'
      <3>1. cap'.step = "send" /\ cap'.msg \in {Press(c), Release(c)}
        BY <2>4, StepFacts
      <3>2. cap'.step # "store" /\ cap'.msg \notin {On, Off}  BY <3>1, TagFacts
      <3> QED  BY <2>1, <2>4, <3>2 DEF CapAgrees, Sends
    <2> QED  BY <1>1, <2>1, <2>2, <2>3, <2>4, KeysShape
  <1>2. CASE HotkeyStore
    <2>1. cap' = Send(Toggle(enabled')) /\ NoToggler' /\ enabled' \in BOOLEAN
      BY <1>2, StoreShape DEF NoToggler
    <2>2. cap'.step = "send" /\ cap'.msg = Toggle(enabled')  BY <2>1, StepFacts
    <2>3. cap'.msg \notin Presses
      <3>1. cap'.msg \in {On, Off}  BY <2>1, <2>2, TagFacts
      <3> QED  BY <3>1, TagFacts DEF Presses
    <2> QED  BY <2>1, <2>2, <2>3 DEF CapAgrees, Sends
  <1>3. CASE Dispatch
    BY <1>3, DispatchShape, StepFacts DEF NoToggler, CapAgrees, Sends
  <1>4. CASE ForwarderStep
    BY <1>4, ForwarderShape DEF NoToggler, CapAgrees, Sends
  <1>5. ASSUME NEW c \in Conn,
               \/ HandlerStep(c) \/ Join(c) \/ Leave(c)
               \/ \E b \in ToggleRequests : ToggleLoad(c, b)
        PROVE  NoToggler' /\ CapAgrees'
    BY <1>5, HandlerShape DEF CapAgrees, Sends
  <1>6. ASSUME NEW c \in Conn, ClientStep(c) \/ EndSession(c)
        PROVE  NoToggler' /\ CapAgrees'
    BY <1>6, ClientShape DEF NoToggler, CapAgrees, Sends
  <1>7. CASE UNCHANGED vars
    BY <1>7 DEF NoToggler, CapAgrees, Sends, vars, capVars, hubVars
  <1> QED
    BY <1>1, <1>2, <1>3, <1>4, <1>5, <1>6, <1>7 DEF Next, CaptureStep

LEMMA ReleasesNext ==
  ASSUME HotkeyOnly, ConnInv, PipeInv, [Next]_vars
  PROVE  OffReleases'
  <1> USE DEF ConnInv, PipeInv
  <1> DEFINE Q == Presses  A == Clearing
  <1>0. Matched(Q, A)  BY Pairs
  <1>1. PICK Open : Open = Holding  OBVIOUS
  <1>2. Open \subseteq session  BY <1>1 DEF Holding, EndedIsEmpty
  <1>3. ~enabled => PipeAnswers(Q, A, Open)  BY <1>1 DEF OffReleases
  <1> HIDE DEF Q, A
  <1>4. ASSUME held' = held, PipeAnswers(Q, A, Open)' PROVE OffReleases'
    <2>1. Holding' = Open  BY <1>1, <1>4 DEF Holding
    <2> QED  BY <1>4, <2>1 DEF OffReleases, Q, A
  <1>5. ASSUME NEW k \in Key, ChordPress(k) \/ KeyPress(k) \/ KeyRelease(k)
        PROVE  OffReleases'
    <2>1. /\ UNCHANGED <<enabled, capQ, fwd, registry, session, held, out>>
          /\ cap.step # "send"
      BY <1>5, KeysShape
    <2>2. CASE ~enabled  BY <1>3, <1>4, <2>1, <2>2, AnswersIdle
    <2> QED  BY <2>1, <2>2 DEF OffReleases
  <1>6. CASE HotkeyStore
    <2>1. /\ held' = held /\ enabled' \in BOOLEAN /\ cap' = Send(Toggle(enabled'))
      BY <1>6, StoreShape
    <2>2. CASE enabled' = FALSE
      <3>1. cap'.step = "send" /\ cap'.msg = Off  BY <2>1, <2>2, StepFacts, TagFacts
      <3>2. Sends(A)'  BY <3>1 DEF Sends, A, Clearing
      <3>3. PipeAnswers(Q, A, Open)'  BY <3>2 DEF PipeAnswers, Coming, InQueue
      <3> QED  BY <1>4, <2>1, <3>3
    <2> QED  BY <2>1, <2>2 DEF OffReleases
  <1>7. CASE Dispatch
    <2>1. enabled' = enabled /\ held' = held  BY <1>7, DispatchShape
    <2>2. CASE ~enabled
      <3>1. ~Sends(Q)  BY <2>2 DEF CapAgrees, Q
      <3> QED  BY <1>3, <1>4, <1>7, <2>1, <2>2, <3>1, AnswersDispatch
    <2> QED  BY <2>1, <2>2 DEF OffReleases
  <1>8. CASE \/ ForwarderStep
             \/ \E c \in Conn : \/ HandlerStep(c) \/ Join(c) \/ Leave(c)
                                \/ \E b \in ToggleRequests : ToggleLoad(c, b)
    <2>1. enabled' = enabled /\ held' = held  BY <1>8, ForwarderShape, HandlerShape
    <2>2. CASE ~enabled
      BY <1>0, <1>2, <1>3, <1>4, <1>8, <2>1, <2>2, AnswersServer
    <2> QED  BY <2>1, <2>2 DEF OffReleases
  <1>9. ASSUME NEW c \in Conn, ClientStep(c) \/ EndSession(c) PROVE OffReleases'
    <2>1. enabled' = enabled /\ session' \subseteq session  BY <1>9, ClientShape
    <2> SUFFICES ASSUME ~enabled PROVE OffReleases'  BY <2>1 DEF OffReleases
    <2>2. PICK Open2 : Open2 = Holding'  OBVIOUS
    <2>3. ASSUME NEW d \in session'
          PROVE  \/ out'[d] = out[d] /\ (d \in Open2 => d \in Open)
                 \/ /\ out[d] # <<>> /\ out'[d] = Tail(out[d])
                    /\ d \in Open2 => \/ Head(out[d]) \in Q
                                      \/ d \in Open /\ Head(out[d]) \notin A
      <3>1. d \in Conn /\ held[d] \in SUBSET Injected  BY <2>1 DEF TypeOK
      <3>2. CASE UNCHANGED <<out[d], held[d], notice[d]>>
        BY <1>1, <2>2, <3>1, <3>2 DEF Holding
      <3>3. CASE /\ out[d] # <<>> /\ Head(out[d]) \in Envelope \ {Goodbye}
                 /\ out'[d] = Tail(out[d])
                 /\ held'[d] = HeldAfter(held[d], Head(out[d]))
        <4>1. held'[d] # {} => \/ Head(out[d]) \in Presses
                               \/ held[d] # {} /\ Head(out[d]) \notin Clearing
          BY <3>1, <3>3, HeldFacts
        <4>2. d \in Open2 <=> held'[d] # {}  BY <2>2, <3>1 DEF Holding
        <4>3. d \in Open <=> held[d] # {}  BY <1>1, <3>1 DEF Holding
        <4> QED  BY <3>3, <4>1, <4>2, <4>3 DEF Q, A
      <3> QED  BY <1>9, <3>2, <3>3, ClientShape
    <2>4. PipeAnswers(Q, A, Open2)'
      BY <1>3, <1>9, <2>3, AnswersClient
    <2> QED  BY <2>2, <2>4 DEF OffReleases, Q, A
  <1>10. CASE UNCHANGED vars
    <2>1. UNCHANGED <<enabled, cap, capQ, fwd, registry, session, held, out>>
      BY <1>10 DEF vars, capVars, hubVars, peerVars
    <2>2. CASE ~enabled  BY <1>3, <1>4, <2>1, <2>2, AnswersStutter
    <2> QED  BY <2>1, <2>2 DEF OffReleases
  <1> QED
    BY <1>5, <1>6, <1>7, <1>8, <1>9, <1>10 DEF Next, CaptureStep

LEMMA PipeNext ==
  ASSUME HotkeyOnly, ConnInv, PipeInv, [Next]_vars
  PROVE  PipeInv'
  BY CapNext, ReleasesNext DEF PipeInv

-----------------------------------------------------------------------------
(* What a client was told, once everything has arrived, is the flag.       *)

LEMMA TruthInit == Init => TruthInv
  <1> SUFFICES ASSUME Init PROVE TruthInv  OBVIOUS
  <1> USE DEF Init
  <1>1. Len(capQ) = 0 /\ fwd # "announce" /\ registry = {}  OBVIOUS
  <1>2. \A b \in BOOLEAN :
          Answered(capQ, Len(capQ), FALSE, {Toggle(~b)}, {Toggle(b)})
    BY <1>1, AnsweredEmpty
  <1>3. LieIsCorrected  BY <1>1, <1>2 DEF LieIsCorrected, PipeAnswers
  <1> QED  BY <1>3 DEF TruthInv, EndedIsUntold

LEMMA EndedNext ==
  ASSUME HotkeyOnly, ConnInv, PipeInv, EndedIsUntold, [Next]_vars
  PROVE  EndedIsUntold'
  <1> USE DEF ConnInv, PipeInv
  <1>1. ASSUME notice' = notice, session \subseteq session' PROVE EndedIsUntold'
    BY <1>1 DEF EndedIsUntold
  <1>2. CASE \E k \in Key : ChordPress(k) \/ KeyPress(k) \/ KeyRelease(k)
    BY <1>1, <1>2, KeysShape
  <1>3. CASE HotkeyStore \/ Dispatch  BY <1>1, <1>3, StoreShape, DispatchShape
  <1>4. CASE ForwarderStep  BY <1>1, <1>4, ForwarderShape
  <1>5. ASSUME NEW c \in Conn,
               \/ HandlerStep(c) \/ Join(c) \/ Leave(c)
               \/ \E b \in ToggleRequests : ToggleLoad(c, b)
        PROVE  EndedIsUntold'
    BY <1>1, <1>5, HandlerShape
  <1>6. ASSUME NEW c \in Conn, ClientStep(c) \/ EndSession(c) PROVE EndedIsUntold'
    <2>1. \A d \in Conn \ session' :
             \/ d \in session /\ held'[d] = {} /\ notice'[d] = "none"
             \/ d \notin session /\ UNCHANGED <<held[d], notice[d]>>
      BY <1>6, ClientShape
    <2> QED  BY <2>1 DEF EndedIsUntold
  <1>7. CASE UNCHANGED vars  BY <1>1, <1>7 DEF vars, peerVars
  <1> QED
    BY <1>2, <1>3, <1>4, <1>5, <1>6, <1>7 DEF Next, CaptureStep

LEMMA LieNext ==
  ASSUME HotkeyOnly, ConnInv, PipeInv, TruthInv, [Next]_vars
  PROVE  LieIsCorrected'
  <1> USE DEF ConnInv, PipeInv
  <1> SUFFICES ASSUME NEW b \in BOOLEAN, enabled' = b
               PROVE  PipeAnswers({Toggle(~b)}, {Toggle(b)}, Told(~b))'
    BY DEF LieIsCorrected
  <1> DEFINE Q == {Toggle(~b)}  A == {Toggle(b)}
  <1>0. Matched(Q, A)  BY Pairs
  <1>1. PICK Open : Open = Told(~b)  OBVIOUS
  <1>2. Open \subseteq session
    BY <1>1 DEF Told, TruthInv, EndedIsUntold
  <1>3. enabled = b => PipeAnswers(Q, A, Open)
    BY <1>1 DEF TruthInv, LieIsCorrected
  <1>4. Q \subseteq {On, Off} /\ A \subseteq {On, Off} /\ Toggle(~b) # Toggle(b)
    BY TagFacts
  <1> SUFFICES PipeAnswers(Q, A, Told(~b))'  OBVIOUS
  <1> HIDE DEF Q, A
  <1>5. ASSUME notice' = notice, PipeAnswers(Q, A, Open)'
        PROVE  PipeAnswers(Q, A, Told(~b))'
    <2>1. Told(~b)' = Open  BY <1>1, <1>5 DEF Told
    <2> QED  BY <1>5, <2>1
  <1>6. ASSUME NEW k \in Key, ChordPress(k) \/ KeyPress(k) \/ KeyRelease(k)
        PROVE  PipeAnswers(Q, A, Told(~b))'
    <2>1. /\ UNCHANGED <<enabled, capQ, fwd, registry, session, notice, out>>
          /\ cap.step # "send"
      BY <1>6, KeysShape
    <2> QED  BY <1>3, <1>5, <2>1, AnswersIdle
  <1>7. CASE HotkeyStore
    <2>1. notice' = notice /\ cap' = Send(Toggle(b))  BY <1>7, StoreShape
    <2>2. Sends(A)'  BY <2>1, StepFacts DEF Sends, A
    <2>3. PipeAnswers(Q, A, Open)'  BY <2>2 DEF PipeAnswers, Coming, InQueue
    <2> QED  BY <1>5, <2>1, <2>3
  <1>8. CASE Dispatch
    <2>1. enabled' = enabled /\ notice' = notice  BY <1>8, DispatchShape
    <2>2. ~Sends(Q)  BY <1>4, <2>1 DEF CapAgrees, Sends, Q
    <2> QED  BY <1>3, <1>5, <1>8, <2>1, <2>2, AnswersDispatch
  <1>9. CASE \/ ForwarderStep
             \/ \E c \in Conn : \/ HandlerStep(c) \/ Join(c) \/ Leave(c)
                                \/ \E r \in ToggleRequests : ToggleLoad(c, r)
    <2>1. enabled' = enabled /\ notice' = notice  BY <1>9, ForwarderShape, HandlerShape
    <2> QED  BY <1>0, <1>2, <1>3, <1>5, <1>9, <2>1, AnswersServer
  <1>10. ASSUME NEW c \in Conn, ClientStep(c) \/ EndSession(c)
         PROVE  PipeAnswers(Q, A, Told(~b))'
    <2>1. enabled' = enabled /\ session' \subseteq session  BY <1>10, ClientShape
    <2>2. PICK Open2 : Open2 = Told(~b)'  OBVIOUS
    <2>3. ASSUME NEW d \in session'
          PROVE  \/ out'[d] = out[d] /\ (d \in Open2 => d \in Open)
                 \/ /\ out[d] # <<>> /\ out'[d] = Tail(out[d])
                    /\ d \in Open2 => \/ Head(out[d]) \in Q
                                      \/ d \in Open /\ Head(out[d]) \notin A
      <3>1. d \in Conn  BY <2>1 DEF TypeOK
      <3>2. CASE UNCHANGED <<out[d], held[d], notice[d]>>
        BY <1>1, <2>2, <3>1, <3>2 DEF Told
      <3>3. CASE /\ out[d] # <<>> /\ Head(out[d]) \in Envelope \ {Goodbye}
                 /\ out'[d] = Tail(out[d])
                 /\ notice'[d] = NoticeAfter(notice[d], Head(out[d]))
        <4>1. (~b) \in BOOLEAN /\ (~~b) = b  OBVIOUS
        <4>2. NoticeAfter(notice[d], Head(out[d])) = (IF ~b THEN "on" ELSE "off")
                => \/ Head(out[d]) = Toggle(~b)
                   \/ /\ notice[d] = (IF ~b THEN "on" ELSE "off")
                      /\ Head(out[d]) # Toggle(~~b)
          BY <3>3, <4>1, NoticeFacts
        <4>3. d \in Open2 <=> notice'[d] = (IF ~b THEN "on" ELSE "off")
          BY <2>2, <3>1 DEF Told
        <4>4. d \in Open <=> notice[d] = (IF ~b THEN "on" ELSE "off")
          BY <1>1, <3>1 DEF Told
        <4> QED  BY <3>3, <4>1, <4>2, <4>3, <4>4 DEF Q, A
      <3> QED  BY <1>10, <3>2, <3>3, ClientShape
    <2>4. PipeAnswers(Q, A, Open2)'
      BY <1>3, <1>10, <2>1, <2>3, AnswersClient
    <2> QED  BY <2>2, <2>4
  <1>11. CASE UNCHANGED vars
    <2>1. UNCHANGED <<enabled, cap, capQ, fwd, registry, session, notice, out>>
      BY <1>11 DEF vars, capVars, hubVars, peerVars
    <2> QED  BY <1>3, <1>5, <2>1, AnswersStutter
  <1> QED
    BY <1>6, <1>7, <1>8, <1>9, <1>10, <1>11 DEF Next, CaptureStep

LEMMA TruthNext ==
  ASSUME HotkeyOnly, ConnInv, PipeInv, TruthInv, [Next]_vars
  PROVE  TruthInv'
  BY EndedNext, LieNext DEF TruthInv

-----------------------------------------------------------------------------
(* No press follows an Off without an On between them.                     *)

LEMMA OrderInit == Init => OrderInv
  <1> SUFFICES ASSUME Init PROVE OrderInv  OBVIOUS
  <1>1. Len(capQ) = 0 /\ session = {}  BY DEF Init
  <1> QED  BY <1>1 DEF OrderInv, QueueOrder, OnHasPassed, OutOrder

LEMMA OrderKept ==
  ASSUME OrderInv, UNCHANGED <<capQ, fwd, registry, session, notice, out>>
  PROVE  OrderInv'
  BY DEF OrderInv, QueueOrder, OnHasPassed, OutOrder, Told

\* A press is sent with the flag up, and then the On is behind every Off.
LEMMA OrderDispatch ==
  ASSUME ConnInv, PipeInv, TruthInv, OrderInv, Dispatch
  PROVE  OrderInv'
  <1> DEFINE n == Len(capQ)
  <1> USE DEF ConnInv, PipeInv, OrderInv
  <1>1. cap.step = "send" /\ cap.msg \in CaptureMsg /\ capQ \in Seq(CaptureMsg)
    BY CapFacts DEF Dispatch, TypeOK
  <1>2. /\ UNCHANGED <<enabled, fwd, registry, session, notice, out>>
        /\ capQ' = Append(capQ, cap.msg)
    BY DispatchShape DEF Dispatch
  <1>3. /\ n \in Nat /\ Len(capQ') = n + 1
        /\ \A j \in 1..n : capQ'[j] = capQ[j]
        /\ capQ'[n + 1] = cap.msg
    BY <1>1, <1>2, AppendFacts
  <1> HIDE DEF n
  <1>4. ASSUME NEW k \in 0..n
        PROVE  /\ OffIsOver(capQ', k, FALSE) <=> OffIsOver(capQ, k, FALSE)
               /\ Later(capQ', 0, k, {On}) <=> Later(capQ, 0, k, {On})
    <2>1. k \in Nat /\ 0 \in 0..k /\ \A j \in 1..k : capQ'[j] = capQ[j]  BY <1>3
    <2>2. \A i \in 0..k : Later(capQ', i, k, {On}) <=> Later(capQ, i, k, {On})
      BY <2>1, AnsweredPrefix
    <2>3. Answered(capQ', k, FALSE, {Off}, {On}) <=> Answered(capQ, k, FALSE, {Off}, {On})
      BY <2>1, AnsweredPrefix
    <2> QED  BY <2>1, <2>2, <2>3 DEF OffIsOver
  <1>5. ASSUME cap.msg \in Presses
        PROVE  /\ OffIsOver(capQ, n, FALSE)
               /\ ~Later(capQ, 0, n, {On}) =>
                    /\ fwd = "idle"
                    /\ \A c \in registry \cap session :
                          OffIsOver(out[c], Len(out[c]), c \in Told(FALSE))
    <2>1. enabled /\ enabled \in BOOLEAN  BY <1>1, <1>5 DEF CapAgrees, Sends, TypeOK
    <2>2. PipeAnswers({Toggle(~TRUE)}, {Toggle(TRUE)}, Told(~TRUE))
      BY <2>1 DEF TruthInv, LieIsCorrected
    <2>3. (~TRUE) = FALSE  OBVIOUS
    <2>4. PipeAnswers({Off}, {On}, Told(FALSE))  BY <2>2, <2>3, TagFacts
    <2>5. ~Sends({On})  BY <1>5, TagFacts DEF Sends, Presses
    <2>6. Coming({On}) => Later(capQ, 0, n, {On})
      BY <2>5, TagFacts DEF Coming, InQueue, n
    <2>7. fwd = "announce" => Later(capQ, 0, n, {On})
      BY <2>4, <2>5 DEF PipeAnswers, InQueue, n
    <2>8. fwd \in {"idle", "announce"}  BY DEF TypeOK
    <2> QED  BY <2>4, <2>5, <2>6, <2>7, <2>8 DEF PipeAnswers, OffIsOver, n
  <1>6. QueueOrder'
    <2> SUFFICES ASSUME NEW k \in 1..(n + 1), capQ'[k] \in Presses
                 PROVE  OffIsOver(capQ', k - 1, FALSE)
      BY <1>3 DEF QueueOrder
    <2>1. k - 1 \in 0..n  BY <1>3
    <2>2. CASE k = n + 1
      <3>1. k - 1 = n  BY <1>3, <2>2
      <3> QED  BY <1>3, <1>4, <1>5, <2>1, <2>2, <3>1
    <2>3. CASE k # n + 1
      <3>1. k \in 1..n /\ capQ'[k] = capQ[k]  BY <1>3, <2>3
      <3>2. OffIsOver(capQ, k - 1, FALSE)  BY <3>1 DEF QueueOrder, n
      <3> QED  BY <1>4, <2>1, <3>2
    <2> QED  BY <2>2, <2>3
  <1>7. OnHasPassed'
    <2> SUFFICES ASSUME NEW k \in 1..(n + 1), capQ'[k] \in Presses,
                        ~Later(capQ', 0, k - 1, {On})
                 PROVE  /\ fwd = "idle"
                        /\ \A c \in registry \cap session :
                              OffIsOver(out[c], Len(out[c]), c \in Told(FALSE))
      BY <1>2, <1>3 DEF OnHasPassed, Told
    <2>1. k - 1 \in 0..n  BY <1>3
    <2>2. ~Later(capQ, 0, k - 1, {On})  BY <1>4, <2>1
    <2>3. CASE k = n + 1
      <3>1. k - 1 = n  BY <1>3, <2>3
      <3> QED  BY <1>3, <1>5, <2>2, <2>3, <3>1
    <2>4. CASE k # n + 1
      <3>1. k \in 1..n /\ capQ'[k] = capQ[k]  BY <1>3, <2>4
      <3> QED  BY <2>2, <3>1 DEF OnHasPassed, n
    <2> QED  BY <2>3, <2>4
  <1>8. OutOrder'  BY <1>2 DEF OutOrder, Told
  <1> QED  BY <1>6, <1>7, <1>8

\* Whether e is in S is a truth value.
LEMMA Membership ==
  ASSUME NEW e, NEW S PROVE \E f \in BOOLEAN : f = (e \in S)
  <1>1. CASE e \in S
    <2>1. TRUE \in BOOLEAN /\ TRUE = (e \in S)  BY <1>1
    <2> QED  BY <2>1
  <1>2. CASE e \notin S
    <2>1. FALSE \in BOOLEAN /\ FALSE = (e \in S)  BY <1>2
    <2> QED  BY <2>1
  <1> QED  BY <1>1, <1>2

\* A queue that grows by m.
LEMMA OrderAppend ==
  ASSUME NEW s \in Seq(Envelope), NEW m \in Envelope, NEW f \in BOOLEAN
  PROVE  /\ Len(s) \in Nat /\ Len(Append(s, m)) = Len(s) + 1
         /\ Append(s, m)[Len(s) + 1] = m
         /\ \A k \in 1..Len(s) : Append(s, m)[k] = s[k]
         /\ \A k \in 0..Len(s) : OffIsOver(Append(s, m), k, f) <=> OffIsOver(s, k, f)
         /\ m # Off /\ (m = On \/ OffIsOver(s, Len(s), f))
              => OffIsOver(Append(s, m), Len(s) + 1, f)
  <1> DEFINE n == Len(s)  t == Append(s, m)
  <1>1. /\ n \in Nat /\ Len(t) = n + 1 /\ t[n + 1] = m /\ \A k \in 1..n : t[k] = s[k]
    BY AppendFacts
  <1> HIDE DEF n, t
  <1>2. ASSUME NEW k \in 0..n PROVE OffIsOver(t, k, f) <=> OffIsOver(s, k, f)
    <2>1. k \in Nat /\ \A j \in 1..k : t[j] = s[j]  BY <1>1
    <2> QED  BY <2>1, AnsweredPrefix DEF OffIsOver
  <1>3. ASSUME m # Off, m = On \/ OffIsOver(s, n, f) PROVE OffIsOver(t, n + 1, f)
    <2>1. t[n + 1] \notin {Off} /\ (m = On => t[n + 1] \in {On})  BY <1>1, <1>3
    <2>2. Answered(s, n, f, {Off}, {On}) \/ t[n + 1] \in {On}
      BY <1>3, <2>1 DEF OffIsOver
    <2>3. Answered(t, n + 1, f, {Off}, {On})
      BY <1>1, <2>1, <2>2, AnsweredGrows, ZenonT(30)
    <2> QED  BY <2>3 DEF OffIsOver
  <1> QED  BY <1>1, <1>2, <1>3 DEF n, t

\* A broadcast keeps the order if a press finds no Off unanswered.
LEMMA OrderBroadcast ==
  ASSUME TypeOK, OutOrder, NEW m \in Envelope, Broadcast(m),
         UNCHANGED <<registry, session, notice>>,
         m \in Presses => \A c \in registry \cap session :
                             OffIsOver(out[c], Len(out[c]), c \in Told(FALSE))
  PROVE  /\ OutOrder'
         /\ \A c \in registry \cap session :
               m # Off /\ (m = On \/ OffIsOver(out[c], Len(out[c]), c \in Told(FALSE)))
                  => OffIsOver(out'[c], Len(out'[c]), c \in Told(FALSE))
  <1>0. Told(FALSE)' = Told(FALSE)  BY DEF Told
  <1>1. \A c \in session :
          /\ c \in Conn /\ out[c] \in Seq(Envelope)
          /\ out'[c] = IF c \in registry THEN Append(out[c], m) ELSE out[c]
    BY BroadcastType DEF TypeOK
  <1>2. ASSUME NEW c \in session, NEW k \in 1..Len(out'[c]), out'[c][k] \in Presses
        PROVE  OffIsOver(out'[c], k - 1, c \in Told(FALSE))
    <2> DEFINE n == Len(out[c])
    <2>0. PICK f \in BOOLEAN : f = (c \in Told(FALSE))  BY Membership
    <2>1. CASE c \notin registry  BY <1>1, <1>2, <2>1 DEF OutOrder
    <2>2. CASE c \in registry
      <3>1. /\ n \in Nat /\ Len(out'[c]) = n + 1 /\ out'[c][n + 1] = m
            /\ \A j \in 1..n : out'[c][j] = out[c][j]
            /\ \A j \in 0..n : OffIsOver(out'[c], j, f) <=> OffIsOver(out[c], j, f)
        <4>1. out[c] \in Seq(Envelope) /\ out'[c] = Append(out[c], m)  BY <1>1, <2>2
        <4> QED  BY <4>1, OrderAppend
      <3>2. k - 1 \in 0..n  BY <3>1
      <3>3. CASE k = n + 1
        <4>1. k - 1 = n /\ m \in Presses  BY <1>2, <3>1, <3>3
        <4>2. OffIsOver(out[c], n, f)  BY <2>0, <2>2, <4>1
        <4> QED  BY <2>0, <3>1, <3>2, <4>1, <4>2
      <3>4. CASE k # n + 1
        <4>1. k \in 1..n  BY <3>1, <3>4
        <4>2. OffIsOver(out[c], k - 1, f)  BY <1>2, <2>0, <3>1, <4>1 DEF OutOrder
        <4> QED  BY <2>0, <3>1, <3>2, <4>2
      <3> QED  BY <3>3, <3>4
    <2> QED  BY <2>1, <2>2
  <1>3. OutOrder'  BY <1>0, <1>2 DEF OutOrder
  <1>4. ASSUME NEW c \in registry \cap session, m # Off,
               m = On \/ OffIsOver(out[c], Len(out[c]), c \in Told(FALSE))
        PROVE  OffIsOver(out'[c], Len(out'[c]), c \in Told(FALSE))
    <2>0. PICK f \in BOOLEAN : f = (c \in Told(FALSE))  BY Membership
    <2>1. m = On \/ OffIsOver(out[c], Len(out[c]), f)  BY <1>4, <2>0
    <2>2. out'[c] = Append(out[c], m) /\ out[c] \in Seq(Envelope)  BY <1>1
    <2>3. /\ Len(out'[c]) = Len(out[c]) + 1
          /\ OffIsOver(Append(out[c], m), Len(out[c]) + 1, f)
      <3>1. m # Off  BY <1>4
      <3> QED  BY <2>1, <2>2, <3>1, OrderAppend
    <2> QED  BY <2>0, <2>2, <2>3
  <1> QED  BY <1>3, <1>4

\* A queue whose head is taken.
LEMMA OrderTail ==
  ASSUME NEW S, NEW s \in Seq(S), s # <<>>, NEW f \in BOOLEAN, NEW g \in BOOLEAN,
         g => s[1] = Off \/ (f /\ s[1] # On)
  PROVE  /\ Len(s) \in Nat /\ Len(s) > 0 /\ Len(Tail(s)) = Len(s) - 1
         /\ \A k \in 1..Len(Tail(s)) : Tail(s)[k] = s[k + 1]
         /\ \A k \in 0..Len(Tail(s)) :
               /\ OffIsOver(s, k + 1, f) => OffIsOver(Tail(s), k, g)
               /\ OffIsOver(s, k + 1, f) /\ s[1] = Off => Later(Tail(s), 0, k, {On})
               /\ Later(s, 0, k + 1, {On}) => s[1] = On \/ Later(Tail(s), 0, k, {On})
  <1> DEFINE t == Tail(s)
  <1>1. /\ Len(s) \in Nat /\ Len(s) > 0 /\ Len(t) = Len(s) - 1
        /\ \A k \in 1..Len(t) : t[k] = s[k + 1]
    BY TailFacts
  <1> HIDE DEF t
  <1>2. ASSUME NEW k \in 0..Len(t)
        PROVE  /\ OffIsOver(s, k + 1, f) => OffIsOver(t, k, g)
               /\ OffIsOver(s, k + 1, f) /\ s[1] = Off => Later(t, 0, k, {On})
               /\ Later(s, 0, k + 1, {On}) => s[1] = On \/ Later(t, 0, k, {On})
    <2>1. k \in Nat /\ \A j \in 1..k : t[j] = s[j + 1]  BY <1>1
    <2>2. g => s[1] \in {Off} \/ (f /\ s[1] \notin {On})  OBVIOUS
    <2>3. /\ Later(s, 0, k + 1, {On}) => s[1] \in {On} \/ Later(t, 0, k, {On})
          /\ Answered(s, k + 1, f, {Off}, {On}) /\ s[1] \in {Off} => Later(t, 0, k, {On})
          /\ Answered(s, k + 1, f, {Off}, {On}) => Answered(t, k, g, {Off}, {On})
      BY <2>1, <2>2, AnsweredShrinks
    <2> QED  BY <2>3 DEF OffIsOver
  <1> QED  BY <1>1, <1>2 DEF t

LEMMA OrderForward ==
  ASSUME TypeOK, OrderInv, Forward
  PROVE  OrderInv'
  <1> USE DEF OrderInv
  <1> DEFINE n == Len(capQ')  h == Head(capQ)
  <1>1. capQ \in Seq(CaptureMsg) /\ capQ # <<>>  BY DEF TypeOK, Forward
  <1>2. /\ UNCHANGED <<registry, session, notice>>
        /\ capQ' = Tail(capQ) /\ fwd = "idle"
    BY DEF Forward, hubVars, peerVars
  <1>3. h \in CaptureMsg /\ h = capQ[1]  BY <1>1, TailFacts
  <1>4. /\ n \in Nat /\ Len(capQ) = n + 1
        /\ \A k \in 1..n : capQ'[k] = capQ[k + 1]
        /\ \A k \in 0..n :
              /\ OffIsOver(capQ, k + 1, FALSE) => OffIsOver(capQ', k, FALSE)
              /\ OffIsOver(capQ, k + 1, FALSE) /\ h = Off => Later(capQ', 0, k, {On})
              /\ Later(capQ, 0, k + 1, {On}) => h = On \/ Later(capQ', 0, k, {On})
    <2>1. FALSE \in BOOLEAN  OBVIOUS
    <2>2. /\ Len(capQ) \in Nat /\ Len(capQ) > 0 /\ Len(capQ') = Len(capQ) - 1
          /\ \A k \in 1..n : capQ'[k] = capQ[k + 1]
          /\ \A k \in 0..n :
                /\ OffIsOver(capQ, k + 1, FALSE) => OffIsOver(capQ', k, FALSE)
                /\ OffIsOver(capQ, k + 1, FALSE) /\ capQ[1] = Off
                     => Later(capQ', 0, k, {On})
                /\ Later(capQ, 0, k + 1, {On})
                     => capQ[1] = On \/ Later(capQ', 0, k, {On})
      BY <1>1, <1>2, <2>1, OrderTail
    <2>3. Len(capQ') = n  OBVIOUS
    <2> HIDE DEF n, h
    <2>4. n \in Nat /\ Len(capQ) = n + 1  BY <2>2, <2>3
    <2> QED  BY <1>3, <2>2, <2>4, ZenonT(30)
  <1> HIDE DEF n, h
  <1>5. ASSUME NEW k \in 1..n, capQ'[k] \in Presses
        PROVE  /\ k + 1 \in 1..Len(capQ) /\ capQ[k + 1] \in Presses
               /\ k - 1 \in 0..n /\ (k - 1) + 1 = k /\ (k + 1) - 1 = k
               /\ OffIsOver(capQ, k, FALSE)
    <2>1. k + 1 \in 1..Len(capQ) /\ k - 1 \in 0..n /\ (k - 1) + 1 = k /\ (k + 1) - 1 = k
      BY <1>4
    <2>2. capQ[k + 1] \in Presses  BY <1>4, <1>5
    <2>3. OffIsOver(capQ, (k + 1) - 1, FALSE)  BY <2>1, <2>2 DEF QueueOrder
    <2> QED  BY <2>1, <2>2, <2>3
  <1>6. QueueOrder'  BY <1>4, <1>5 DEF QueueOrder, n
  <1>7. Told(FALSE)' = Told(FALSE)  BY <1>2 DEF Told
  <1>8. CASE h = Off
    <2>1. Broadcast(ReleaseAll) /\ ReleaseAll \in Envelope /\ ReleaseAll \notin Presses
      BY <1>8, MessageFacts, TagFacts DEF Forward, Presses, h
    <2>2. OutOrder'  BY <1>2, <2>1, OrderBroadcast
    <2>3. \A k \in 1..n : capQ'[k] \in Presses => Later(capQ', 0, k - 1, {On})
      BY <1>4, <1>5, <1>8
    <2>4. OnHasPassed'  BY <2>3 DEF OnHasPassed, n
    <2> QED  BY <1>6, <2>2, <2>4
  <1>9. CASE h # Off
    <2>1. Broadcast(h) /\ h \in Envelope /\ fwd' = "idle"
      BY <1>3, <1>9, MessageFacts DEF Forward, h
    <2>2. ASSUME h \in Presses
          PROVE  \A c \in registry \cap session :
                    OffIsOver(out[c], Len(out[c]), c \in Told(FALSE))
      <3>1. 1 \in 1..Len(capQ) /\ capQ[1] \in Presses  BY <1>3, <1>4, <2>2
      <3>2. 1 - 1 = 0 /\ 0 \in Nat  OBVIOUS
      <3>3. ~Later(capQ, 0, 1 - 1, {On})  BY <3>2, AnsweredEmpty
      <3> QED  BY <3>1, <3>3 DEF OnHasPassed
    <2>3. /\ OutOrder'
          /\ \A c \in registry \cap session :
                h = On \/ OffIsOver(out[c], Len(out[c]), c \in Told(FALSE))
                  => OffIsOver(out'[c], Len(out'[c]), c \in Told(FALSE))
      BY <1>2, <1>9, <2>1, <2>2, OrderBroadcast
    <2>4. OnHasPassed'
      <3> SUFFICES ASSUME NEW k \in 1..n, capQ'[k] \in Presses,
                          ~Later(capQ', 0, k - 1, {On}), NEW c \in registry \cap session
                   PROVE  OffIsOver(out'[c], Len(out'[c]), c \in Told(FALSE))
        BY <1>2, <1>7, <2>1 DEF OnHasPassed, n
      <3>1. CASE h = On  BY <2>3, <3>1
      <3>2. CASE h # On
        <4>1. ~Later(capQ, 0, (k + 1) - 1, {On})  BY <1>4, <1>5, <3>2
        <4>2. OffIsOver(out[c], Len(out[c]), c \in Told(FALSE))
          BY <1>5, <4>1 DEF OnHasPassed
        <4> QED  BY <2>3, <4>2
      <3> QED  BY <3>1, <3>2
    <2> QED  BY <1>6, <2>3, <2>4
  <1> QED  BY <1>8, <1>9

LEMMA OrderAnnounce ==
  ASSUME TypeOK, OrderInv, ForwardAnnounce
  PROVE  OrderInv'
  <1> USE DEF OrderInv
  <1>1. /\ UNCHANGED <<capQ, registry, session, notice>>
        /\ fwd = "announce" /\ Broadcast(Off)
    BY DEF ForwardAnnounce, hubVars, peerVars
  <1>2. Off \in Envelope /\ Off \notin Presses  BY MessageFacts, TagFacts DEF Presses
  <1>3. OutOrder'  BY <1>1, <1>2, OrderBroadcast
  <1>4. QueueOrder'  BY <1>1 DEF QueueOrder
  <1>5. \A k \in 1..Len(capQ) : capQ[k] \in Presses => Later(capQ, 0, k - 1, {On})
    BY <1>1 DEF OnHasPassed
  <1>6. OnHasPassed'  BY <1>1, <1>5 DEF OnHasPassed
  <1> QED  BY <1>3, <1>4, <1>6

LEMMA OrderHandler ==
  ASSUME HotkeyOnly, ConnInv, NoToggler, EndedIsUntold, OrderInv, NEW c \in Conn,
         \/ HandlerStep(c) \/ Join(c) \/ Leave(c)
         \/ \E b \in ToggleRequests : ToggleLoad(c, b)
  PROVE  OrderInv'
  <1> USE DEF OrderInv
  <1>1. /\ UNCHANGED <<capQ, fwd, notice>>
        /\ \A d \in registry' \cap session' :
              /\ out'[d] = out[d]
              /\ d \in registry \cap session \/ (d \notin session /\ out[d] = <<>>)
        /\ \A d \in session' :
              \/ out'[d] = out[d] /\ (d \in session \/ out[d] = <<>>)
              \/ d \in session /\ out'[d] = Append(out[d], Goodbye)
    BY HandlerShape
  <1>2. QueueOrder'  BY <1>1 DEF QueueOrder
  <1>3. Told(FALSE)' = Told(FALSE)  BY <1>1 DEF Told
  <1>4. OnHasPassed'
    <2> SUFFICES ASSUME fwd = "idle",
                        \A d \in registry \cap session :
                           OffIsOver(out[d], Len(out[d]), d \in Told(FALSE)),
                        NEW d \in registry' \cap session'
                 PROVE  OffIsOver(out'[d], Len(out'[d]), d \in Told(FALSE))
      BY <1>1, <1>3 DEF OnHasPassed
    <2>1. CASE d \in registry \cap session  BY <1>1, <2>1
    <2>2. CASE d \notin session /\ out[d] = <<>>
      <3>1. Len(<<>>) = 0  OBVIOUS
      <3>2. Len(out'[d]) = 0  BY <1>1, <2>2, <3>1
      <3>3. d \notin Told(FALSE)  BY <2>2 DEF Told, EndedIsUntold
      <3>4. Answered(out'[d], 0, d \in Told(FALSE), {Off}, {On})
        BY <3>3, AnsweredEmpty
      <3> QED  BY <3>2, <3>4 DEF OffIsOver
    <2> QED  BY <1>1, <2>1, <2>2
  <1>5. OutOrder'
    <2> SUFFICES ASSUME NEW d \in session', NEW k \in 1..Len(out'[d]),
                        out'[d][k] \in Presses
                 PROVE  OffIsOver(out'[d], k - 1, d \in Told(FALSE))
      BY <1>3 DEF OutOrder
    <2>1. CASE out'[d] = out[d] /\ d \in session  BY <2>1 DEF OutOrder
    <2>2. CASE out'[d] = <<>>
      <3>1. Len(<<>>) = 0  OBVIOUS
      <3> QED  BY <2>2, <3>1
    <2>3. CASE d \in session /\ out'[d] = Append(out[d], Goodbye)
      <3> DEFINE n == Len(out[d])
      <3>0. PICK f \in BOOLEAN : f = (d \in Told(FALSE))  BY Membership
      <3>1. out[d] \in Seq(Envelope) /\ Goodbye \in Envelope /\ Goodbye \notin Presses
        BY <2>3, MessageFacts, TagFacts DEF ConnInv, TypeOK, Presses
      <3>2. /\ n \in Nat /\ Len(out'[d]) = n + 1 /\ out'[d][n + 1] = Goodbye
            /\ \A j \in 1..n : out'[d][j] = out[d][j]
            /\ \A j \in 0..n : OffIsOver(out'[d], j, f) <=> OffIsOver(out[d], j, f)
        BY <2>3, <3>1, OrderAppend
      <3>3. k \in 1..n /\ k - 1 \in 0..n  BY <3>1, <3>2
      <3>4. OffIsOver(out[d], k - 1, f)  BY <2>3, <3>0, <3>2, <3>3 DEF OutOrder
      <3> QED  BY <3>0, <3>2, <3>3, <3>4
    <2> QED  BY <1>1, <2>1, <2>2, <2>3
  <1> QED  BY <1>2, <1>4, <1>5

LEMMA OrderClient ==
  ASSUME ConnInv, OrderInv, NEW c \in Conn, ClientStep(c) \/ EndSession(c)
  PROVE  OrderInv'
  <1> USE DEF OrderInv
  <1>1. /\ UNCHANGED <<capQ, fwd, registry>> /\ session' \subseteq session
        /\ \A d \in session' :
              \/ UNCHANGED <<out[d], held[d], notice[d]>>
              \/ /\ out[d] # <<>> /\ Head(out[d]) \in Envelope \ {Goodbye}
                 /\ out'[d] = Tail(out[d])
                 /\ notice'[d] = NoticeAfter(notice[d], Head(out[d]))
    BY ClientShape
  <1>2. QueueOrder'  BY <1>1 DEF QueueOrder
  <1>3. ASSUME NEW d \in session'
        PROVE  \/ out'[d] = out[d] /\ (d \in Told(FALSE)') = (d \in Told(FALSE))
               \/ /\ Len(out[d]) \in Nat /\ Len(out[d]) = Len(out'[d]) + 1
                  /\ Len(out'[d]) \in Nat
                  /\ \A k \in 1..Len(out'[d]) : out'[d][k] = out[d][k + 1]
                  /\ \A k \in 0..Len(out'[d]) :
                        OffIsOver(out[d], k + 1, d \in Told(FALSE))
                          => OffIsOver(out'[d], k, d \in Told(FALSE)')
    <2>1. d \in Conn /\ out[d] \in Seq(Envelope)  BY <1>1 DEF ConnInv, TypeOK
    <2>2. CASE UNCHANGED <<out[d], held[d], notice[d]>>  BY <2>1, <2>2 DEF Told
    <2>3. CASE /\ out[d] # <<>> /\ Head(out[d]) \in Envelope \ {Goodbye}
               /\ out'[d] = Tail(out[d])
               /\ notice'[d] = NoticeAfter(notice[d], Head(out[d]))
      <3>1. PICK f \in BOOLEAN : f = (d \in Told(FALSE))  BY Membership
      <3>2. PICK g \in BOOLEAN : g = (d \in Told(FALSE)')  BY Membership
      <3>3. Head(out[d]) = out[d][1]  BY <2>1, <2>3, TailFacts
      <3>4. g => out[d][1] = Off \/ (f /\ out[d][1] # On)
        <4>1. FALSE \in BOOLEAN /\ (~FALSE) = TRUE  OBVIOUS
        <4>2. NoticeAfter(notice[d], Head(out[d])) = "off"
                => Head(out[d]) = Off \/ (notice[d] = "off" /\ Head(out[d]) # On)
          BY <2>3, <4>1, NoticeFacts, TagFacts
        <4>3. (g <=> notice'[d] = "off") /\ (f <=> notice[d] = "off")
          BY <2>1, <3>1, <3>2 DEF Told
        <4> QED  BY <2>3, <3>3, <4>2, <4>3
      <3>5. /\ Len(out[d]) \in Nat /\ Len(out[d]) > 0 /\ Len(out'[d]) = Len(out[d]) - 1
            /\ \A k \in 1..Len(out'[d]) : out'[d][k] = out[d][k + 1]
            /\ \A k \in 0..Len(out'[d]) :
                  OffIsOver(out[d], k + 1, f) => OffIsOver(out'[d], k, g)
        BY <2>1, <2>3, <3>4, OrderTail
      <3>6. Len(out[d]) = Len(out'[d]) + 1 /\ Len(out'[d]) \in Nat  BY <3>5
      <3> QED  BY <3>1, <3>2, <3>5, <3>6
    <2> QED  BY <1>1, <2>2, <2>3
  <1>4. ASSUME NEW d \in session',
               OffIsOver(out[d], Len(out[d]), d \in Told(FALSE))
        PROVE  OffIsOver(out'[d], Len(out'[d]), d \in Told(FALSE)')
    <2>1. CASE out'[d] = out[d] /\ (d \in Told(FALSE)') = (d \in Told(FALSE))
      BY <1>4, <2>1
    <2>2. CASE /\ Len(out[d]) = Len(out'[d]) + 1 /\ Len(out'[d]) \in Nat
               /\ \A k \in 0..Len(out'[d]) :
                     OffIsOver(out[d], k + 1, d \in Told(FALSE))
                       => OffIsOver(out'[d], k, d \in Told(FALSE)')
      <3>1. Len(out'[d]) \in 0..Len(out'[d])  BY <2>2
      <3> QED  BY <1>4, <2>2, <3>1
    <2> QED  BY <1>3, <2>1, <2>2
  <1>5. OnHasPassed'  BY <1>1, <1>4 DEF OnHasPassed
  <1>6. OutOrder'
    <2> SUFFICES ASSUME NEW d \in session', NEW k \in 1..Len(out'[d]),
                        out'[d][k] \in Presses
                 PROVE  OffIsOver(out'[d], k - 1, d \in Told(FALSE)')
      BY DEF OutOrder
    <2>1. CASE out'[d] = out[d] /\ (d \in Told(FALSE)') = (d \in Told(FALSE))
      BY <1>1, <2>1 DEF OutOrder
    <2>2. CASE /\ Len(out[d]) = Len(out'[d]) + 1 /\ Len(out'[d]) \in Nat
               /\ \A j \in 1..Len(out'[d]) : out'[d][j] = out[d][j + 1]
               /\ \A j \in 0..Len(out'[d]) :
                     OffIsOver(out[d], j + 1, d \in Told(FALSE))
                       => OffIsOver(out'[d], j, d \in Told(FALSE)')
      <3>1. /\ k + 1 \in 1..Len(out[d]) /\ k - 1 \in 0..Len(out'[d])
            /\ (k + 1) - 1 = (k - 1) + 1
        BY <2>2
      <3>2. OffIsOver(out[d], (k + 1) - 1, d \in Told(FALSE))
        BY <1>1, <2>2, <3>1 DEF OutOrder
      <3>3. OffIsOver(out[d], (k - 1) + 1, d \in Told(FALSE))  BY <3>1, <3>2
      <3> QED  BY <2>2, <3>1, <3>3
    <2> QED  BY <1>3, <2>1, <2>2
  <1> QED  BY <1>2, <1>5, <1>6

LEMMA OrderNext ==
  ASSUME HotkeyOnly, ConnInv, PipeInv, TruthInv, OrderInv, [Next]_vars
  PROVE  OrderInv'
  <1>1. ASSUME NEW k \in Key, ChordPress(k) \/ KeyPress(k) \/ KeyRelease(k)
        PROVE  OrderInv'
    BY <1>1, KeysShape, OrderKept
  <1>2. CASE HotkeyStore  BY <1>2, StoreShape, OrderKept DEF ConnInv
  <1>3. CASE Dispatch  BY <1>3, OrderDispatch
  <1>4. CASE ForwarderStep
    BY <1>4, OrderForward, OrderAnnounce DEF ForwarderStep, ConnInv
  <1>5. CASE UNCHANGED vars
    BY <1>5, OrderKept DEF vars, hubVars, peerVars
  <1> QED
    BY <1>1, <1>2, <1>3, <1>4, <1>5, OrderHandler, OrderClient
       DEF Next, CaptureStep, PipeInv, TruthInv

-----------------------------------------------------------------------------
(* A key held on a client is down on the keyboard, or will be let go.      *)

LEMMA KeysInit == Init => KeysInv
  <1> SUFFICES ASSUME Init PROVE KeysInv  OBVIOUS
  <1> USE DEF Init
  <1>1. Len(capQ) = 0 /\ fwd # "announce" /\ registry = {} /\ cap.step # "send"
    BY StepFacts
  <1>2. \A x : Answered(capQ, Len(capQ), FALSE, Puts(x), LetsGo(x))
    BY <1>1, AnsweredEmpty
  <1>3. DownOrLetGo  BY <1>1, <1>2 DEF DownOrLetGo, PipeAnswers, Sends
  <1> QED  BY <1>3 DEF KeysInv, RepeatsAsPressed

\* With the flag down, everything will be let go.
LEMMA OffLetsGo ==
  ASSUME PipeInv, ~enabled, NEW x \in Injected
  PROVE  PipeAnswers(Puts(x), LetsGo(x), Holders(x))
  <1>1. PipeAnswers(Presses, Clearing, Holding)  BY DEF PipeInv, OffReleases
  <1>2. /\ Puts(x) \subseteq Presses /\ Clearing \subseteq LetsGo(x)
        /\ Holders(x) \subseteq Holding
    BY DEF Puts, Presses, CodesOf, LetsGo, Holders, Holding
  <1> QED  BY <1>1, <1>2, AnswersMore

\* A key goes down or up.  The chord never takes over a key whose press was
\* forwarded; a repeat that is forwarded although the chord took its press is
\* one of the eaten.
LEMMA KeysKeys ==
  ASSUME ConnInv, PipeInv, KeysInv, NEW k \in Key,
         ChordPress(k) \/ KeyPress(k) \/ KeyRelease(k)
  PROVE  KeysInv'
  <1> USE DEF ConnInv, PipeInv, KeysInv
  <1>1. /\ UNCHANGED <<enabled, capQ, fwd, registry, session, held, out>>
        /\ cap = Idle /\ cap.step # "send"
    BY KeysShape
  <1>2. ChordPress(k) => k \notin pressed \ swallowed
    <2> SUFFICES ASSUME ChordPress(k), k \in pressed \ swallowed PROVE FALSE  OBVIOUS
    <2>1. k = lastKey /\ pressed \cup {k} = pressed  BY DEF ChordPress, CanPress
    <2> QED  BY <2>1 DEF ChordPress, RepeatsAsPressed
  <1>3. swallowed' \subseteq pressed'  BY DEF ChordPress, KeyPress, KeyRelease
  <1>r. RepeatsAsPressed'
    <2>1. CASE ChordPress(k)  BY <2>1 DEF ChordPress, RepeatsAsPressed
    <2>2. CASE KeyPress(k)  BY <2>2 DEF KeyPress, RepeatsAsPressed
    <2>3. CASE KeyRelease(k)
      <3> SUFFICES ASSUME lastKey' \in pressed' \ swallowed' PROVE ~Chord(lastKey', pressed')
        BY DEF RepeatsAsPressed
      <3>1. /\ lastKey' = lastKey /\ pressed' = pressed \ {k}
            /\ swallowed' = swallowed \ {k}
        BY <2>3 DEF KeyRelease
      <3>2. lastKey \in pressed \ swallowed  BY <3>1
      <3>3. ~Chord(lastKey, pressed)  BY <3>2 DEF RepeatsAsPressed
      <3> QED  BY <3>1, <3>3 DEF Chord
    <2> QED  BY <2>1, <2>2, <2>3
  <1>4. ASSUME NEW x \in Injected
        PROVE  \/ Supported(x)'
               \/ ~Sends(Puts(x))' /\ PipeAnswers(Puts(x), LetsGo(x), Holders(x))'
    <2>1. PICK Open : Open = Holders(x)  OBVIOUS
    <2>2. Holders(x)' = Open  BY <1>1, <2>1 DEF Holders
    <2>3. ASSUME PipeAnswers(Puts(x), LetsGo(x), Holders(x))
          PROVE  PipeAnswers(Puts(x), LetsGo(x), Holders(x))'
      <3>1. PipeAnswers(Puts(x), LetsGo(x), Open)  BY <2>1, <2>3
      <3> QED  BY <1>1, <2>2, <3>1, AnswersIdle
    <2>4. Supported(x) \/ PipeAnswers(Puts(x), LetsGo(x), Holders(x))
      BY DEF DownOrLetGo
    <2>5. CASE ChordPress(k)
      <3>1. cap' = Idle \/ cap' = Store(~enabled)  BY <2>5 DEF ChordPress
      <3>2. ~Sends(Puts(x))'  BY <3>1, StepFacts DEF Sends
      <3>3. Supported(x) => Supported(x)'
        BY <1>2, <2>5 DEF Supported, ChordPress
      <3> QED  BY <2>3, <2>4, <3>2, <3>3
    <2>6. CASE KeyPress(k)
      <3>1. /\ pressed' = pressed \cup {k} /\ swallowed' = swallowed
            /\ eaten \subseteq eaten'
        BY <2>6 DEF KeyPress
      <3>2. Supported(x) => Supported(x)'  BY <3>1 DEF Supported
      <3>3. CASE cap' = Idle
        <4>1. ~Sends(Puts(x))'  BY <3>3, StepFacts DEF Sends
        <4> QED  BY <2>3, <2>4, <3>2, <4>1
      <3>4. CASE cap' = Send(Press(key_to_code(k)))
        <4>1. key_to_code(k) \in Code  BY MessageFacts
        <4>2. Sends(Puts(x))' => x \in code_to_key(key_to_code(k))
          <5>1. cap'.msg = Press(key_to_code(k))  BY <3>4, StepFacts
          <5> QED  BY <4>1, <5>1, TagFacts DEF Sends, Puts, CodesOf
        <4>3. k \in (pressed' \ swallowed') \cup eaten'
          <5>1. enabled  BY <2>6, <3>4, StepFacts DEF KeyPress
          <5> QED  BY <2>6, <3>1, <5>1 DEF KeyPress
        <4>4. Sends(Puts(x))' => Supported(x)'  BY <4>2, <4>3 DEF Supported
        <4> QED  BY <2>3, <2>4, <3>2, <4>4
      <3> QED  BY <2>6, <3>3, <3>4 DEF KeyPress
    <2>7. CASE KeyRelease(k)
      <3>1. /\ pressed' = pressed \ {k} /\ swallowed' = swallowed \ {k}
            /\ cap' = IF enabled /\ k \notin swallowed
                      THEN Send(Release(key_to_code(k))) ELSE Idle
            /\ eaten \ {k} \subseteq eaten' /\ (k \in swallowed => eaten' = eaten)
        BY <2>7 DEF KeyRelease
      <3>2. CASE ~enabled
        <4>1. ~Sends(Puts(x))'  BY <3>1, <3>2, StepFacts DEF Sends
        <4> QED  BY <2>3, <3>2, <4>1, OffLetsGo
      <3>3. CASE k \in swallowed
        <4>1. ~Sends(Puts(x))'  BY <3>1, <3>3, StepFacts DEF Sends
        <4>2. Supported(x) => Supported(x)'  BY <3>1, <3>3 DEF Supported
        <4> QED  BY <2>3, <2>4, <4>1, <4>2
      <3>4. CASE enabled /\ k \notin swallowed
        <4>0. key_to_code(k) \in Code  BY MessageFacts
        <4>1. cap'.step = "send" /\ cap'.msg = Release(key_to_code(k))
          BY <3>1, <3>4, StepFacts
        <4>2. ~Sends(Puts(x))'  BY <4>0, <4>1, TagFacts DEF Sends, Puts, CodesOf
        <4>3. CASE x \in code_to_key(key_to_code(k))
          <5>1. Sends(LetsGo(x))'  BY <4>0, <4>1, <4>3 DEF Sends, LetsGo, CodesOf
          <5>2. PipeAnswers(Puts(x), LetsGo(x), Holders(x))'
            BY <5>1 DEF PipeAnswers, Coming, InQueue
          <5> QED  BY <4>2, <5>2
        <4>4. CASE x \notin code_to_key(key_to_code(k))
          <5>1. Supported(x) => Supported(x)'  BY <3>1, <4>4 DEF Supported
          <5> QED  BY <2>3, <2>4, <4>2, <5>1
        <4> QED  BY <4>3, <4>4
      <3> QED  BY <3>2, <3>3, <3>4
    <2> QED  BY <2>5, <2>6, <2>7
  <1> QED  BY <1>3, <1>r, <1>4 DEF DownOrLetGo

\* The hotkey switches forwarding off: the Off that will let everything go is
\* about to be sent behind all that was.
LEMMA KeysOff ==
  ASSUME ConnInv, KeysInv, HotkeyStore, ~cap.on
  PROVE  KeysInv'
  <1> USE DEF ConnInv, KeysInv
  <1>1. UNCHANGED <<pressed, swallowed, lastKey>> /\ cap' = Send(Off)
    BY StoreShape, TagFacts
  <1>2. cap'.step = "send" /\ cap'.msg = Off  BY <1>1, StepFacts
  <1>3. \A x \in Injected : ~Sends(Puts(x))' /\ Sends(LetsGo(x))'
    BY <1>2, TagFacts DEF Sends, Puts, CodesOf, LetsGo, Clearing
  <1>4. \A x \in Injected : PipeAnswers(Puts(x), LetsGo(x), Holders(x))'
    BY <1>3 DEF PipeAnswers, Coming, InQueue
  <1> QED  BY <1>1, <1>3, <1>4 DEF DownOrLetGo, RepeatsAsPressed

\* No other step presses or releases a key.
LEMMA KeysElse ==
  ASSUME HotkeyOnly, ConnInv, PipeInv, KeysInv, HotkeyStore => cap.on,
         ~\E k \in Key : ChordPress(k) \/ KeyPress(k) \/ KeyRelease(k), [Next]_vars
  PROVE  KeysInv'
  <1> USE DEF ConnInv, PipeInv, KeysInv
  <1>1. UNCHANGED <<pressed, swallowed, lastKey>>
    <2>1. CASE CaptureStep  BY <2>1, StoreShape, DispatchShape DEF CaptureStep
    <2>2. CASE ForwarderStep  BY <2>2, ForwarderShape
    <2>3. CASE UNCHANGED vars  BY <2>3 DEF vars, capVars
    <2> QED  BY <2>1, <2>2, <2>3, HandlerShape, ClientShape DEF Next
  <1>b. RepeatsAsPressed'  BY <1>1 DEF RepeatsAsPressed
  <1>c. eaten' = eaten
    <2>1. CASE CaptureStep
      <3>1. HotkeyStore => eaten' = eaten  BY StoreShape
      <3> QED  BY <2>1, <3>1, DispatchShape DEF CaptureStep
    <2>2. CASE ForwarderStep  BY <2>2, ForwarderShape
    <2>3. CASE UNCHANGED vars  BY <2>3 DEF vars, capVars
    <2> QED  BY <2>1, <2>2, <2>3, HandlerShape, ClientShape DEF Next
  <1> SUFFICES ASSUME NEW x \in Injected, ~Supported(x)
               PROVE  ~Sends(Puts(x))' /\ PipeAnswers(Puts(x), LetsGo(x), Holders(x))'
    BY <1>1, <1>b, <1>c DEF DownOrLetGo, Supported
  <1> DEFINE Q == Puts(x)  A == LetsGo(x)
  <1>2. PICK Open : Open = Holders(x)  OBVIOUS
  <1>3. ~Sends(Q) /\ PipeAnswers(Q, A, Open)  BY <1>2 DEF DownOrLetGo
  <1>4. Open \subseteq session  BY <1>2 DEF Holders, EndedIsEmpty
  <1>5. Matched(Q, A)  BY Pairs
  <1>6. Q \subseteq Presses  BY DEF Puts, Presses, CodesOf
  <1> SUFFICES ~Sends(Q)' /\ PipeAnswers(Q, A, Holders(x))'  OBVIOUS
  <1>7. ASSUME held' = held, PipeAnswers(Q, A, Open)'
        PROVE  PipeAnswers(Q, A, Holders(x))'
    <2>1. Holders(x)' = Open  BY <1>2, <1>7 DEF Holders
    <2> QED  BY <1>7, <2>1
  <1>8. ASSUME cap' = cap PROVE ~Sends(Q)'  BY <1>3, <1>8 DEF Sends
  <1>a. \A m \in Envelope \ {Goodbye} : \A h \in SUBSET Injected :
           x \in HeldAfter(h, m) => m \in Q \/ (x \in h /\ m \notin A)
    BY HeldFacts
  <1> HIDE DEF Q, A
  <1>9. CASE HotkeyStore
    <2>1. /\ UNCHANGED <<capQ, fwd, registry, session, held, out>>
          /\ cap.step # "send" /\ cap' = Send(Toggle(cap.on)) /\ cap.on \in BOOLEAN
      BY <1>9, StoreShape
    <2>2. cap'.msg \in {On, Off}  BY <2>1, StepFacts, TagFacts
    <2>3. ~Sends(Q)'  BY <1>6, <2>2, TagFacts DEF Sends, Presses
    <2> QED  BY <1>3, <1>7, <2>1, <2>3, AnswersIdle
  <1>10. CASE Dispatch
    <2>1. held' = held /\ cap' = Idle  BY <1>10, DispatchShape
    <2>2. ~Sends(Q)'  BY <2>1, StepFacts DEF Sends
    <2> QED  BY <1>3, <1>7, <1>10, <2>1, <2>2, AnswersDispatch
  <1>11. CASE \/ ForwarderStep
              \/ \E c \in Conn : \/ HandlerStep(c) \/ Join(c) \/ Leave(c)
                                 \/ \E b \in ToggleRequests : ToggleLoad(c, b)
    <2>1. cap' = cap /\ held' = held  BY <1>11, ForwarderShape, HandlerShape
    <2> QED  BY <1>3, <1>4, <1>5, <1>7, <1>8, <1>11, <2>1, AnswersServer
  <1>12. ASSUME NEW c \in Conn, ClientStep(c) \/ EndSession(c)
         PROVE  ~Sends(Q)' /\ PipeAnswers(Q, A, Holders(x))'
    <2>1. cap' = cap /\ session' \subseteq session  BY <1>12, ClientShape
    <2>2. PICK Open2 : Open2 = Holders(x)'  OBVIOUS
    <2>3. ASSUME NEW d \in session'
          PROVE  \/ out'[d] = out[d] /\ (d \in Open2 => d \in Open)
                 \/ /\ out[d] # <<>> /\ out'[d] = Tail(out[d])
                    /\ d \in Open2 => \/ Head(out[d]) \in Q
                                      \/ d \in Open /\ Head(out[d]) \notin A
      <3>1. d \in Conn /\ held[d] \in SUBSET Injected  BY <2>1 DEF TypeOK
      <3>2. CASE UNCHANGED <<out[d], held[d], notice[d]>>
        BY <1>2, <2>2, <3>1, <3>2 DEF Holders
      <3>3. CASE /\ out[d] # <<>> /\ Head(out[d]) \in Envelope \ {Goodbye}
                 /\ out'[d] = Tail(out[d])
                 /\ held'[d] = HeldAfter(held[d], Head(out[d]))
        <4>1. x \in held'[d] => \/ Head(out[d]) \in Q
                                \/ x \in held[d] /\ Head(out[d]) \notin A
          BY <1>a, <3>1, <3>3
        <4>2. d \in Open2 <=> x \in held'[d]  BY <2>2, <3>1 DEF Holders
        <4>3. d \in Open <=> x \in held[d]  BY <1>2, <3>1 DEF Holders
        <4> QED  BY <3>3, <4>1, <4>2, <4>3
      <3> QED  BY <1>12, <3>2, <3>3, ClientShape
    <2>4. PipeAnswers(Q, A, Open2)'
      BY <1>3, <1>12, <2>3, AnswersClient
    <2> QED  BY <1>8, <2>1, <2>2, <2>4
  <1>13. CASE UNCHANGED vars
    <2>1. UNCHANGED <<cap, capQ, fwd, registry, session, held, out>>
      BY <1>13 DEF vars, capVars, hubVars, peerVars
    <2> QED  BY <1>3, <1>7, <1>8, <2>1, AnswersStutter
  <1> QED
    BY <1>9, <1>10, <1>11, <1>12, <1>13 DEF Next, CaptureStep

LEMMA KeysNext ==
  ASSUME HotkeyOnly, ConnInv, PipeInv, KeysInv, [Next]_vars
  PROVE  KeysInv'
  BY KeysKeys, KeysOff, KeysElse

-----------------------------------------------------------------------------
(* The theorems.                                                           *)

\* While only the hotkey moves the flag, the answer is behind everything that
\* must be answered, and every press behind the On that allowed it.
THEOREM PipeInvariance == Spec => [](HotkeyOnly => PipeInv /\ TruthInv /\ OrderInv)
  <1> DEFINE Inv == HotkeyOnly => PipeInv /\ TruthInv /\ OrderInv
  <1>1. Init => Inv  BY PipeInit, TruthInit, OrderInit
  <1>2. ConnInv /\ Inv /\ [Next]_vars => Inv'
    <2> SUFFICES ASSUME ConnInv, Inv, [Next]_vars, HotkeyOnly'
                 PROVE  PipeInv' /\ TruthInv' /\ OrderInv'
      OBVIOUS
    <2>1. HotkeyOnly  BY DEF HotkeyOnly
    <2> QED  BY <2>1, PipeNext, TruthNext, OrderNext
  <1> HIDE DEF Inv
  <1>3. Spec => []Inv  BY <1>1, <1>2, ConnInvariance, PTL DEF Spec
  <1> QED  BY <1>3 DEF Inv

\* A key on a client is down on the server's keyboard, was eaten by the chord
\* or will be let go.
THEOREM KeysInvariance == Spec => [](HotkeyOnly => KeysInv)
  <1> DEFINE Inv == HotkeyOnly => KeysInv
             Pre == HotkeyOnly => PipeInv /\ TruthInv /\ OrderInv
  <1>1. Init => Inv  BY KeysInit
  <1>2. ConnInv /\ Pre /\ Inv /\ [Next]_vars => Inv'
    <2> SUFFICES ASSUME ConnInv, Pre, Inv, [Next]_vars, HotkeyOnly'
                 PROVE  KeysInv'
      OBVIOUS
    <2>1. HotkeyOnly  BY DEF HotkeyOnly
    <2> QED  BY <2>1, KeysNext
  <1>3. Spec => []Pre  BY PipeInvariance
  <1> HIDE DEF Inv, Pre
  <1>4. Spec => []Inv  BY <1>1, <1>2, <1>3, ConnInvariance, PTL DEF Spec
  <1> QED  BY <1>4 DEF Inv

\* Nothing is coming once everything has arrived.
LEMMA QuietFacts ==
  ASSUME ConnInv, Quiet, NEW c \in Conn, NEW Q, NEW A, NEW Open,
         PipeAnswers(Q, A, Open)
  PROVE  /\ c \in registry \cap session => c \notin Open
         /\ c \in session => c \in registry
  <1>1. cap.step # "send" /\ capQ = <<>> /\ fwd = "idle" /\ out[c] = <<>>
        /\ handler[c] \in {"away", "loop"}
    BY StepFacts DEF Quiet
  <1>2. Len(<<>>) = 0 /\ 0 \in Nat  OBVIOUS
  <1>3. Len(capQ) = 0 /\ Len(out[c]) = 0  BY <1>1, <1>2
  <1>4. ~Later(capQ, 0, Len(capQ), A)  BY <1>2, <1>3, AnsweredEmpty
  <1>5. ~Coming(A)  BY <1>1, <1>4 DEF Coming, InQueue, Sends
  <1>6. ASSUME c \in registry \cap session PROVE c \notin Open
    <2>1. Answered(out[c], 0, c \in Open, Q, A)
      BY <1>3, <1>5, <1>6 DEF PipeAnswers
    <2> QED  BY <2>1, AnsweredEmpty
  <1>7. ASSUME c \in session PROVE c \in registry
    <2>1. handler[c] # "away"  BY <1>1, <1>7 DEF ConnInv, GoodbyeSent
    <2> QED  BY <1>1, <2>1 DEF ConnInv, RegistryPlaces, Away
  <1> QED  BY <1>6, <1>7

\* If only the hotkey toggles forwarding, then however keys, toggles, joins
\* and departures interleave, no client holds a key once forwarding is off
\* and everything sent has arrived.
THEOREM HotkeySafe == Spec => [](HotkeyOnly => NothingStuckWhenOff)
  <1>1. ConnInv /\ (HotkeyOnly => PipeInv /\ TruthInv /\ OrderInv)
          => (HotkeyOnly => NothingStuckWhenOff)
    <2> SUFFICES ASSUME ConnInv, PipeInv, Quiet, ~enabled, NEW c \in Conn
                 PROVE  held[c] = {}
      BY DEF NothingStuckWhenOff
    <2>1. CASE c \notin session  BY <2>1 DEF ConnInv, EndedIsEmpty
    <2>2. CASE c \in session
      <3>1. PipeAnswers(Presses, Clearing, Holding)  BY DEF PipeInv, OffReleases
      <3>2. c \notin Holding  BY <2>2, <3>1, QuietFacts
      <3> QED  BY <3>2 DEF Holding
    <2> QED  BY <2>1, <2>2
  <1> QED  BY <1>1, ConnInvariance, PipeInvariance, PTL

\* If only the hotkey toggles forwarding, what a connected client was told
\* last is the flag, once everything sent has arrived.
THEOREM NoticesAreTrue == Spec => [](HotkeyOnly => NoticeIsTruth)
  <1>1. ConnInv /\ (HotkeyOnly => PipeInv /\ TruthInv /\ OrderInv)
          => (HotkeyOnly => NoticeIsTruth)
    <2> SUFFICES ASSUME ConnInv, TruthInv, Quiet, NEW c \in registry \cap session,
                        notice[c] # "none"
                 PROVE  (notice[c] = "on") = enabled
      BY DEF NoticeIsTruth
    <2>1. /\ c \in Conn /\ enabled \in BOOLEAN /\ notice[c] \in {"none", "on", "off"}
      BY DEF ConnInv, TypeOK
    <2>2. PipeAnswers({Toggle(~enabled)}, {Toggle(enabled)}, Told(~enabled))
      BY <2>1 DEF TruthInv, LieIsCorrected
    <2>3. c \notin Told(~enabled)  BY <2>1, <2>2, QuietFacts
    <2>4. CASE enabled = TRUE  BY <2>1, <2>3, <2>4 DEF Told
    <2>5. CASE enabled = FALSE  BY <2>1, <2>3, <2>5 DEF Told
    <2> QED  BY <2>1, <2>4, <2>5
  <1> QED  BY <1>1, ConnInvariance, PipeInvariance, PTL

\* If only the hotkey toggles forwarding, then on any keyboard, one that repeats
\* included, while forwarding is on and everything sent has arrived, a client
\* holds only keys that stand for one that is down on the server's keyboard or
\* for the hotkey's own key, swallowed by its press and forwarded by a repeat.
THEOREM HeldAreDown == Spec => [](HotkeyOnly => HeldKeysAreDown)
  <1>1. ConnInv /\ (HotkeyOnly => KeysInv)
          => (HotkeyOnly => HeldKeysAreDown)
    <2> SUFFICES ASSUME ConnInv, KeysInv, Quiet, NEW c \in Conn, NEW x \in held[c]
                 PROVE  x \in UNION {code_to_key(key_to_code(k)) : k \in pressed \cup eaten}
      BY DEF HeldKeysAreDown
    <2>1. x \in Injected /\ c \in session  BY DEF ConnInv, TypeOK, EndedIsEmpty
    <2>2. ~PipeAnswers(Puts(x), LetsGo(x), Holders(x))
      <3>1. c \in Holders(x)  BY DEF Holders
      <3> QED  BY <2>1, <3>1, QuietFacts
    <2>3. Supported(x)  BY <2>1, <2>2 DEF KeysInv, DownOrLetGo
    <2> QED  BY <2>3 DEF Supported
  <1> QED  BY <1>1, ConnInvariance, KeysInvariance, PTL

\* If only the hotkey toggles forwarding, a client that was told it is off
\* gets no key pressed until it is told otherwise.
THEOREM NoPressWhileOff == HotkeyOnly /\ Spec => NoPressAfterOff
  <1>1. ASSUME HotkeyOnly, ConnInv, HotkeyOnly => PipeInv /\ TruthInv /\ OrderInv,
               [Next]_vars, NEW c \in Conn, notice[c] = "off"
        PROVE  held'[c] \subseteq held[c]
    <2> USE <1>1 DEF ConnInv
    <2>1. CASE held' = held  BY <2>1
    <2>2. ASSUME NEW d \in Conn, ClientStep(d) \/ EndSession(d)
          PROVE  held'[c] \subseteq held[c]
      <3>1. CASE c \notin session'
        <4>1. held'[c] = {} \/ held'[c] = held[c]  BY <2>2, <3>1, ClientShape
        <4> QED  BY <4>1
      <3>2. CASE c \in session' /\ UNCHANGED <<out[c], held[c], notice[c]>>
        BY <3>2
      <3>3. CASE /\ c \in session' /\ out[c] # <<>>
                 /\ Head(out[c]) \in Envelope \ {Goodbye}
                 /\ held'[c] = HeldAfter(held[c], Head(out[c]))
        <4>1. c \in session /\ held[c] \in SUBSET Injected
          BY <2>2, <3>3, ClientShape DEF TypeOK
        <4>2. Head(out[c]) = out[c][1] /\ 1 \in 1..Len(out[c])
          BY <3>3, TailFacts DEF TypeOK
        <4>3. Head(out[c]) \notin Presses
          <5> SUFFICES ASSUME out[c][1] \in Presses PROVE FALSE  BY <4>2
          <5>1. 1 - 1 = 0  OBVIOUS
          <5>2. Answered(out[c], 0, c \in Told(FALSE), {Off}, {On})
            BY <4>1, <4>2, <5>1 DEF OrderInv, OutOrder, OffIsOver
          <5>3. c \in Told(FALSE)  BY DEF Told
          <5> QED  BY <5>2, <5>3, AnsweredEmpty
        <4> QED  BY <3>3, <4>1, <4>3, HeldFacts
      <3> QED  BY <2>2, <3>1, <3>2, <3>3, ClientShape
    <2>3. CASE \/ \E k \in Key : ChordPress(k) \/ KeyPress(k) \/ KeyRelease(k)
               \/ CaptureStep \/ ForwarderStep \/ UNCHANGED vars
      BY <2>1, <2>3, KeysShape, StoreShape, DispatchShape, ForwarderShape
         DEF CaptureStep, vars, peerVars
    <2>4. CASE \E d \in Conn : \/ HandlerStep(d) \/ Join(d) \/ Leave(d)
                               \/ \E b \in ToggleRequests : ToggleLoad(d, b)
      BY <2>1, <2>4, HandlerShape DEF PipeInv
    <2> QED  BY <2>2, <2>3, <2>4 DEF Next
  <1>2. ASSUME HotkeyOnly, ConnInv, HotkeyOnly => PipeInv /\ TruthInv /\ OrderInv,
               [Next]_vars
        PROVE  \A c \in Conn : notice[c] = "off" => held'[c] \subseteq held[c]
    BY <1>1, <1>2
  <1>3. HotkeyOnly => HotkeyOnly'
    BY DEF HotkeyOnly
  <1> QED
    BY <1>2, <1>3, ConnInvariance, PipeInvariance, PTL DEF Spec, NoPressAfterOff
=============================================================================
