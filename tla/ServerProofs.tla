---------------------------- MODULE ServerProofs ----------------------------
(***************************************************************************)
(* The safety of the connection life cycle, for any number of connections  *)
(* and devices and any MaxPending.  The invariants of Server are proved    *)
(* together: conservation of permits bounds their number, DeviceKnown ties *)
(* a task's place to the paired list, and the registry tells which task    *)
(* may touch the flag.                                                     *)
(***************************************************************************)
EXTENDS Server, FiniteSetTheorems, TLAPS

\* A connection past its PairRequest has named a device, and one about to be
\* accepted has it on the paired list.
DeviceKnown ==
    \A c \in Conn :
        /\ pc[c] \in Deciding => dev[c] \in Device
        /\ pc[c] = "accept" => dev[c] \in paired

IndInv ==
    /\ TypeOK
    /\ DeviceKnown
    /\ PermitsConserved
    /\ RegistryIsServing
    /\ RegisteredArePaired
    /\ IdleMeansOff

-----------------------------------------------------------------------------
(* What moving one task does to the set of permit holders.                 *)

\* The holders are finitely many, so their number is a natural number.
LEMMA HoldersFinite == IsFiniteSet(Holders) /\ Cardinality(Holders) \in Nat
  <1>1. Holders \in SUBSET Conn  BY DEF Holders
  <1>2. IsFiniteSet(Holders)  BY <1>1, ConnAssumption, FS_Subset
  <1> QED  BY <1>2, FS_CardinalityType

\* try_acquire_owned: a task enters a place that holds a permit.
LEMMA HoldersGrow ==
  ASSUME TypeOK, NEW c \in Conn, NEW p \in Pending,
         pc[c] \notin Pending, Goto(c, p)
  PROVE  Cardinality(Holders') = Cardinality(Holders) + 1
  <1>1. Holders' = Holders \cup {c}  BY DEF TypeOK, Goto, Holders
  <1>2. c \notin Holders  BY DEF Holders
  <1> QED  BY <1>1, <1>2, HoldersFinite, FS_AddElement

\* drop(permit): a task leaves the places that hold one.
LEMMA HoldersShrink ==
  ASSUME TypeOK, NEW c \in Conn, NEW p \in Places \ Pending,
         pc[c] \in Pending, Goto(c, p)
  PROVE  Cardinality(Holders') = Cardinality(Holders) - 1
  <1>1. Holders' = Holders \ {c}  BY DEF TypeOK, Goto, Holders
  <1>2. c \in Holders  BY DEF Holders
  <1> QED  BY <1>1, <1>2, HoldersFinite, FS_RemoveElement

\* Any other move leaves the holders alone.
LEMMA HoldersKeep ==
  ASSUME TypeOK, NEW c \in Conn, NEW p \in Places,
         pc[c] \in Pending <=> p \in Pending, Goto(c, p)
  PROVE  Holders' = Holders
  BY DEF TypeOK, Goto, Holders

-----------------------------------------------------------------------------
LEMMA InitInv == Init => IndInv
  <1> SUFFICES ASSUME Init PROVE IndInv  OBVIOUS
  <1> USE DEF Init
  <1>1. TypeOK
    <2>1. pc \in [Conn -> Places] /\ dev \in [Conn -> Device \cup {NoDevice}]
      BY DEF Places
    <2>2. permits \in 0..MaxPending  BY PendingAssumption
    <2>3. want \in [Conn -> BOOLEAN] /\ forwarding \in BOOLEAN /\ up \in BOOLEAN
      OBVIOUS
    <2> QED  BY <2>1, <2>2, <2>3 DEF TypeOK
  <1>2. PermitsConserved
    <2>1. Holders = {}
      BY DEF Holders, Pending, Handshaking, Deciding, Entering
    <2> QED  BY <2>1, FS_EmptySet, PendingAssumption DEF PermitsConserved
  <1>3. RegistryIsServing  BY DEF RegistryIsServing, Entering, Serving
  <1>4. DeviceKnown /\ RegisteredArePaired /\ IdleMeansOff
    BY DEF DeviceKnown, Deciding, RegisteredArePaired, IdleMeansOff
  <1> QED  BY <1>1, <1>2, <1>3, <1>4 DEF IndInv

\* The accounting of permits alone: what a step does to the number of
\* holders it undoes in the semaphore.
LEMMA PermitsStep ==
  ASSUME TypeOK, PermitsConserved, [Next]_vars
  PROVE  PermitsConserved' /\ permits' \in 0..MaxPending
  <1> USE PendingAssumption, HoldersFinite
  <1> DEFINE Same == Holders' = Holders /\ permits' = permits
             Taken == /\ permits > 0 /\ permits' = permits - 1
                      /\ Cardinality(Holders') = Cardinality(Holders) + 1
             Given == /\ permits' = permits + 1
                      /\ Cardinality(Holders') = Cardinality(Holders) - 1
  <1> USE DEF Pending, Handshaking, Deciding, Entering, Serving, Places
  <1>0. Cardinality(Holders') \in Nat
    <2>1. Holders' \in SUBSET Conn  BY DEF Holders
    <2> QED  BY <2>1, ConnAssumption, FS_Subset, FS_CardinalityType
  <1>1. ASSUME NEW c \in Conn, Accept(c) PROVE Taken
    BY <1>1, HoldersGrow DEF Accept
  <1>2. ASSUME NEW c \in Conn, HandshakeRefused(c) \/ HandshakeTimeout(c)
                               \/ ProofFails(c) \/ AcceptUnsent(c)
        PROVE Given
    BY <1>2, HoldersShrink
       DEF HandshakeRefused, HandshakeTimeout, ProofFails, AcceptUnsent,
           CloseWithPermit
  <1>3. ASSUME NEW c \in Conn, EnterFirst(c) \/ EnterJoined(c) PROVE Given
    BY <1>3, HoldersShrink DEF EnterFirst, EnterJoined
  <1>4. ASSUME NEW c \in Conn, TooManyPending(c) \/ TlsAccepted(c) \/ RecvHello(c)
        PROVE Same
    BY <1>4, HoldersKeep DEF TooManyPending, TlsAccepted, RecvHello
  <1>5. ASSUME NEW c \in Conn, NEW d \in Device, RecvPairRequest(c, d) PROVE Same
    BY <1>5, HoldersKeep DEF RecvPairRequest
  <1>6. ASSUME NEW c \in Conn, LookupPaired(c) \/ ProofMatches(c) PROVE Same
    BY <1>6, HoldersKeep DEF LookupPaired, ProofMatches
  <1>7. ASSUME NEW c \in Conn, Register(c) PROVE Same
    BY <1>7, HoldersKeep DEF Register
  <1>8. ASSUME NEW c \in Conn, PeerLeaves(c) \/ Watchdog(c) PROVE Same
    BY <1>8, HoldersKeep DEF PeerLeaves, Watchdog, Unregister
  <1>9. ASSUME NEW c \in Conn, ToggleStore(c) \/ AutoForwardOff(c) PROVE Same
    BY <1>9, HoldersKeep DEF ToggleStore, AutoForwardOff
  <1>10. ASSUME NEW c \in Conn, NEW b \in ToggleRequests, ToggleLoad(c, b)
         PROVE Same
    BY <1>10, HoldersKeep DEF ToggleLoad
  <1>11. ASSUME NEW c \in Conn, PeerSilent(c) \/ PeerReturns(c) PROVE Same
    BY <1>11 DEF PeerSilent, PeerReturns, Holders
  <1>12. ASSUME HotkeyLoad \/ HotkeyStore \/ Shutdown \/ UNCHANGED vars
         PROVE Same
    BY <1>12 DEF HotkeyLoad, HotkeyStore, Shutdown, vars, Holders
  <1>13. Same \/ Taken \/ Given
    BY <1>1, <1>2, <1>3, <1>4, <1>5, <1>6, <1>7, <1>8, <1>9, <1>10, <1>11,
       <1>12 DEF Next, ConnStep, TaskStep
  <1> QED
    BY <1>0, <1>13 DEF TypeOK, PermitsConserved

\* One step from IndInv, one case per action, for the parts of the
\* invariant that do not count permits.
LEMMA NextInv == IndInv /\ [Next]_vars => IndInv'
  <1> SUFFICES ASSUME IndInv, [Next]_vars PROVE IndInv'  OBVIOUS
  <1>1. PermitsConserved' /\ permits' \in 0..MaxPending
    BY PermitsStep DEF IndInv
  <1> DEFINE Rest == /\ TypeOK' /\ DeviceKnown' /\ RegistryIsServing' /\ RegisteredArePaired'
                     /\ IdleMeansOff'
  <1> USE <1>1, ConfigAssumption DEF IndInv, TypeOK, DeviceKnown, RegistryIsServing,
          RegisteredArePaired, IdleMeansOff,
          Goto, CloseWithPermit,
          Pending, Handshaking, Deciding, Entering, Serving, Places
  <1>2. ASSUME NEW c \in Conn, Accept(c) PROVE Rest
    BY <1>2 DEF Accept
  <1>3. ASSUME NEW c \in Conn, TooManyPending(c) PROVE Rest
    BY <1>3 DEF TooManyPending
  <1>4. ASSUME NEW c \in Conn, TlsAccepted(c) \/ RecvHello(c) PROVE Rest
    BY <1>4 DEF TlsAccepted, RecvHello
  <1>5. ASSUME NEW c \in Conn, NEW d \in Device, RecvPairRequest(c, d) PROVE Rest
    BY <1>5 DEF RecvPairRequest
  <1>6. ASSUME NEW c \in Conn, HandshakeRefused(c) \/ HandshakeTimeout(c)
        PROVE Rest
    BY <1>6 DEF HandshakeRefused, HandshakeTimeout
  <1>7. ASSUME NEW c \in Conn, LookupPaired(c) PROVE Rest
    BY <1>7 DEF LookupPaired
  <1>8. ASSUME NEW c \in Conn, ProofMatches(c) PROVE Rest
    BY <1>8 DEF ProofMatches
  <1>9. ASSUME NEW c \in Conn, ProofFails(c) \/ AcceptUnsent(c) PROVE Rest
    BY <1>9 DEF ProofFails, AcceptUnsent
  <1>10. ASSUME NEW c \in Conn, Register(c) PROVE Rest
    BY <1>10 DEF Register
  <1>11. ASSUME NEW c \in Conn, EnterFirst(c) PROVE Rest
    BY <1>11 DEF EnterFirst
  <1>12. ASSUME NEW c \in Conn, EnterJoined(c) PROVE Rest
    BY <1>12 DEF EnterJoined
  <1>13. ASSUME NEW c \in Conn, NEW b \in ToggleRequests, ToggleLoad(c, b)
         PROVE Rest
    BY <1>13 DEF ToggleLoad
  <1>14. ASSUME NEW c \in Conn, ToggleStore(c) PROVE Rest
    BY <1>14 DEF ToggleStore
  <1>15. ASSUME NEW c \in Conn, PeerLeaves(c) \/ Watchdog(c) PROVE Rest
    BY <1>15 DEF PeerLeaves, Watchdog, Unregister
  <1>16. ASSUME NEW c \in Conn, AutoForwardOff(c) PROVE Rest
    BY <1>16 DEF AutoForwardOff
  <1>17. ASSUME NEW c \in Conn, PeerSilent(c) \/ PeerReturns(c) PROVE Rest
    BY <1>17 DEF PeerSilent, PeerReturns
  <1>18. ASSUME HotkeyLoad \/ HotkeyStore PROVE Rest
    BY <1>18 DEF HotkeyLoad, HotkeyStore
  <1>19. ASSUME Shutdown PROVE Rest
    BY <1>19 DEF Shutdown
  <1>20. ASSUME UNCHANGED vars PROVE Rest
    BY <1>20 DEF vars
  <1> HIDE DEF Rest
  <1>21. Rest
    BY <1>2, <1>3, <1>4, <1>5, <1>6, <1>7, <1>8, <1>9, <1>10, <1>11, <1>12,
       <1>13, <1>14, <1>15, <1>16, <1>17, <1>18, <1>19, <1>20
       DEF Next, ConnStep, TaskStep
  <1> QED  BY <1>21 DEF Rest

\* handle_client and the accept loop keep IndInv along every behaviour.
THEOREM Invariance == Spec => []IndInv
  BY InitInv, NextInv, PTL DEF Spec

\* Type correctness of the server's shared state.
THEOREM TypeCorrect == Spec => []TypeOK
  <1>1. IndInv => TypeOK  BY DEF IndInv
  <1> QED  BY <1>1, Invariance, PTL

\* No early return of a connection task leaks or duplicates a permit.
THEOREM PermitsSafe == Spec => []PermitsConserved
  <1>1. IndInv => PermitsConserved  BY DEF IndInv
  <1> QED  BY <1>1, Invariance, PTL

\* The registry is exactly the set of handlers being served.
THEOREM RegistrySafe == Spec => []RegistryIsServing
  <1>1. IndInv => RegistryIsServing  BY DEF IndInv
  <1> QED  BY <1>1, Invariance, PTL

\* Only paired devices are ever in the registry.
THEOREM PairingSafe == Spec => []RegisteredArePaired
  <1>1. IndInv => RegisteredArePaired  BY DEF IndInv
  <1> QED  BY <1>1, Invariance, PTL

\* With auto_forward and no hotkey, an idle server does not capture.
THEOREM IdleSafe == Spec => []IdleMeansOff
  <1>1. IndInv => IdleMeansOff  BY DEF IndInv
  <1> QED  BY <1>1, Invariance, PTL
=============================================================================
