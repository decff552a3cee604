------------------------- MODULE ServerStoreProofs --------------------------
(***************************************************************************)
(* What survives on the server's disk, for any devices and any supply of   *)
(* key pairs.  Four arguments share one invariant: the key pair that was   *)
(* shown is on disk and no start goes on to generate another; a file that  *)
(* does not parse is the work of a torn write; no copy of the paired list, *)
(* in memory or on file, holds a device that was revoked; and as long as   *)
(* no write was torn and the processes took turns, every copy holds the    *)
(* devices that were confirmed.                                            *)
(***************************************************************************)
EXTENDS ServerStore, FiniteSetTheorems, TLAPS

\* The devices that a process which loads server.toml now would know.
OnFile == IF toml \in {Missing, Empty, Garbled} THEN {} ELSE toml

\* What the server and the administrator are saving: a device just added, a
\* device just removed.
TargetIsSaved ==
    /\ pc["server"] \in {"save", "write"} /\ existed["server"]
         => target["server"] \in mem["server"]
    /\ pc["server"] = "accept" => target["server"] \in mem["server"]
    /\ pc["admin"] \in {"save", "write"} /\ existed["admin"]
         => target["admin"] \in Device \ mem["admin"]
    /\ pc["admin"] \notin {"crt", "crtWrite", "key", "keyWrite", "tls", "serving",
                          "accept"}

\* The two files of the key pair, at each place of setup_tls_server.
KeyPairFiles ==
    /\ pc["server"] \in {"crtWrite", "key", "keyWrite"} => fresh \in Cert
    /\ pc["server"] \in {"key", "keyWrite", "tls"} => crt # Missing
    /\ pc["server"] = "tls" => key # Missing
    /\ ~torn => /\ crt \in Cert \cup {Missing} \/ pc["server"] = "crtWrite"
                /\ key \in Cert \cup {Missing} \/ pc["server"] = "keyWrite"

\* A key pair that was shown is still there, and is not being replaced.
ShownIsOnDisk ==
    served # None => /\ served = crt /\ crt \in Cert /\ key \in Cert
                     /\ pc["server"] \notin {"crt", "crtWrite", "key", "keyWrite"}

\* A file or a process in ruins means that a write was torn.
RuinsAreTorn == toml = Garbled \/ (\E p \in Proc : pc[p] = "failed") => torn

\* No copy of the list holds a revoked device.
NoCopyOfRevoked ==
    /\ OnFile \cap revoked = {}
    /\ \A p \in Proc : pc[p] \in Loaded => mem[p] \cap revoked = {}
    /\ alone => pc["server"] \in Down

\* Every copy of the list holds the confirmed devices.
CopiesHoldConfirmed ==
    ~torn /\ ~mixed =>
        /\ \E p \in Proc : pc[p] \in Down
        /\ (\A p \in Proc : pc[p] # "write") => confirmed \subseteq OnFile
        /\ \A p \in Proc : pc[p] \in Loaded => confirmed \subseteq mem[p]
        /\ pc["server"] = "accept" => target["server"] \in OnFile

IndInv ==
    /\ TypeOK
    /\ TargetIsSaved
    /\ KeyPairFiles
    /\ ShownIsOnDisk
    /\ RuinsAreTorn
    /\ NoCopyOfRevoked
    /\ CopiesHoldConfirmed

-----------------------------------------------------------------------------
\* The marks of a file that is not there, empty or in ruins differ from each
\* other, and none of them is a list of devices or a key pair.
LEMMA Marks ==
  /\ Missing # Empty /\ Missing # Garbled /\ Empty # Garbled
  /\ \A v \in {Missing, Empty, Garbled, None} : v \notin Device /\ v \notin Cert
  /\ \A S \in SUBSET Device : S \notin {Missing, Empty, Garbled}
  <1>1. ASSUME NEW a, NEW b, NEW c PROVE Cardinality({a, b, c}) <= 3
    <2>1. IsFiniteSet({a}) /\ Cardinality({a}) = 1  BY FS_Singleton
    <2>2. /\ IsFiniteSet({a} \cup {b})
          /\ Cardinality({a} \cup {b}) \in {1, 2}
      BY <2>1, FS_AddElement
    <2>3. Cardinality(({a} \cup {b}) \cup {c}) \in {1, 2, 3}
      BY <2>2, FS_AddElement
    <2>4. ({a} \cup {b}) \cup {c} = {a, b, c}  OBVIOUS
    <2> QED  BY <2>3, <2>4
  <1>2. ASSUME Missing = Empty \/ Missing = Garbled \/ Empty = Garbled PROVE FALSE
    <2>1. {Missing, Empty, Garbled, None} \in
            {{Missing, Garbled, None}, {Missing, Empty, None}}
      BY <1>2
    <2>2. Cardinality({Missing, Empty, Garbled, None}) <= 3  BY <1>1, <2>1
    <2> QED  BY <2>2, ValueAssumption
  <1> QED  BY <1>2, ValueAssumption

LEMMA InitInv == Init => IndInv
  <1> USE Marks DEF Init, Proc, Down, Loaded
  <1>1. Init => TypeOK  BY DEF TypeOK
  <1>2. Init => TargetIsSaved /\ KeyPairFiles /\ ShownIsOnDisk /\ RuinsAreTorn
    BY DEF TargetIsSaved, KeyPairFiles, ShownIsOnDisk, RuinsAreTorn
  <1>3. Init => NoCopyOfRevoked /\ CopiesHoldConfirmed
    BY DEF NoCopyOfRevoked, CopiesHoldConfirmed, OnFile
  <1> QED  BY <1>1, <1>2, <1>3 DEF IndInv

-----------------------------------------------------------------------------
(* One step, one part of the invariant at a time.                          *)

\* Types: what is written to the disk is a list or a key pair of its owner.
LEMMA TypeStep ==
  ASSUME TypeOK, TargetIsSaved, KeyPairFiles, [Next]_vars
  PROVE  TypeOK'
  <1> USE DEF TypeOK, files, hist, Goto, Proc, Down, Loaded
  <1>1. ASSUME NEW p \in Proc, NEW d \in Device \cup {None}, Start(p, d)
        PROVE TypeOK'
    BY <1>1 DEF Start
  <1>2. ASSUME NEW p \in Proc, Load(p) \/ LoadFails(p) PROVE TypeOK'
    BY <1>2 DEF Load, LoadFails
  <1>3. ASSUME NEW p \in Proc, SaveTruncate(p) \/ SaveFails(p) PROVE TypeOK'
    <2>1. CASE SaveTruncate(p)  BY <2>1 DEF SaveTruncate
    <2>2. CASE SaveFails(p)
      <3>1. PICK q \in {"main", "serving", "accept", "off"} : Goto(p, q)
        BY <2>2 DEF SaveFails, AfterFailure, AfterSave
      <3> QED  BY <2>2, <3>1 DEF SaveFails
    <2> QED  BY <1>3, <2>1, <2>2
  <1>4. ASSUME NEW p \in Proc, SaveWrite(p) PROVE TypeOK'
    BY <1>4 DEF SaveWrite, AfterSave, TargetIsSaved
  <1>5. ASSUME NEW p \in Proc, Stop(p) \/ CrashWriting(p) \/ WriteFails(p) PROVE TypeOK'
    <2>1. CASE Stop(p) \/ CrashWriting(p)  BY <1>5, <2>1 DEF Stop, CrashWriting, Remains
    <2>2. CASE WriteFails(p)
      <3>1. AfterFailure(p) \in Down \cup Loaded  BY DEF AfterFailure, AfterSave
      <3>2. toml' \in {Missing, Empty, Garbled} \/ toml' \subseteq Device
        BY <2>2 DEF WriteFails, Remains
      <3> QED  BY <2>2, <3>1, <3>2 DEF WriteFails
    <2> QED  BY <1>5, <2>1, <2>2
  <1>6. ASSUME Revoke \/ NothingToRevoke PROVE TypeOK'
    BY <1>6 DEF Revoke, NothingToRevoke
  <1>7. ASSUME CertCheck \/ CrtTruncate \/ CrtWrite PROVE TypeOK'
    BY <1>7 DEF CertCheck, CrtTruncate, CrtWrite, KeyPairFiles
  <1>8. ASSUME KeyTruncate \/ KeyWrite PROVE TypeOK'
    BY <1>8 DEF KeyTruncate, KeyWrite, KeyPairFiles
  <1>9. ASSUME LoadTls \/ LoadTlsFails PROVE TypeOK'
    BY <1>9 DEF LoadTls, LoadTlsFails
  <1>10. ASSUME NEW d \in Device, Pair(d) PROVE TypeOK'
    BY <1>10 DEF Pair
  <1>11. ASSUME Accept \/ UNCHANGED vars PROVE TypeOK'
    BY <1>11 DEF Accept, vars, TargetIsSaved
  <1> QED
    BY <1>1, <1>2, <1>3, <1>4, <1>5, <1>6, <1>7, <1>8, <1>9, <1>10, <1>11 DEF Next

\* What each process is saving.
LEMMA TargetStep ==
  ASSUME TypeOK, TargetIsSaved, [Next]_vars
  PROVE  TargetIsSaved'
  <1> USE Marks DEF TypeOK, files, hist, Goto, Proc, Down, Loaded,
          TargetIsSaved
  <1>1. ASSUME NEW p \in Proc, NEW d \in Device \cup {None}, Start(p, d)
        PROVE TargetIsSaved'
    BY <1>1 DEF Start
  <1>2. ASSUME NEW p \in Proc, Load(p) \/ LoadFails(p) PROVE TargetIsSaved'
    BY <1>2 DEF Load, LoadFails
  <1>3. ASSUME NEW p \in Proc, SaveTruncate(p) \/ SaveFails(p) PROVE TargetIsSaved'
    BY <1>3 DEF SaveTruncate, SaveFails, AfterFailure, AfterSave
  <1>4. ASSUME NEW p \in Proc, SaveWrite(p) PROVE TargetIsSaved'
    BY <1>4 DEF SaveWrite, AfterSave
  <1>5. ASSUME NEW p \in Proc, Stop(p) \/ CrashWriting(p) \/ WriteFails(p) PROVE TargetIsSaved'
    BY <1>5 DEF Stop, CrashWriting, WriteFails, Remains, AfterFailure, AfterSave
  <1>6. ASSUME Revoke \/ NothingToRevoke PROVE TargetIsSaved'
    BY <1>6 DEF Revoke, NothingToRevoke
  <1>7. ASSUME CertCheck \/ CrtTruncate \/ CrtWrite PROVE TargetIsSaved'
    BY <1>7 DEF CertCheck, CrtTruncate, CrtWrite
  <1>8. ASSUME KeyTruncate \/ KeyWrite PROVE TargetIsSaved'
    BY <1>8 DEF KeyTruncate, KeyWrite
  <1>9. ASSUME LoadTls \/ LoadTlsFails PROVE TargetIsSaved'
    BY <1>9 DEF LoadTls, LoadTlsFails
  <1>10. ASSUME NEW d \in Device, Pair(d) PROVE TargetIsSaved'
    BY <1>10 DEF Pair
  <1>11. ASSUME Accept \/ UNCHANGED vars PROVE TargetIsSaved'
    BY <1>11 DEF Accept, vars
  <1> QED
    BY <1>1, <1>2, <1>3, <1>4, <1>5, <1>6, <1>7, <1>8, <1>9, <1>10, <1>11 DEF Next

\* The two files of the key pair, and the one that clients have seen.
LEMMA KeyPairStep ==
  ASSUME TypeOK, TargetIsSaved, KeyPairFiles, ShownIsOnDisk, [Next]_vars
  PROVE  KeyPairFiles' /\ ShownIsOnDisk'
  <1> USE Marks DEF TypeOK, files, hist, Goto, Proc, Down, Loaded,
          TargetIsSaved, KeyPairFiles, ShownIsOnDisk
  <1>1. ASSUME NEW p \in Proc, NEW d \in Device \cup {None}, Start(p, d)
        PROVE KeyPairFiles' /\ ShownIsOnDisk'
    BY <1>1 DEF Start
  <1>2. ASSUME NEW p \in Proc, Load(p) \/ LoadFails(p)
        PROVE KeyPairFiles' /\ ShownIsOnDisk'
    BY <1>2 DEF Load, LoadFails
  <1>3. ASSUME NEW p \in Proc, SaveTruncate(p) \/ SaveFails(p)
        PROVE KeyPairFiles' /\ ShownIsOnDisk'
    BY <1>3 DEF SaveTruncate, SaveFails, AfterFailure, AfterSave
  <1>4. ASSUME NEW p \in Proc, SaveWrite(p) PROVE KeyPairFiles' /\ ShownIsOnDisk'
    BY <1>4 DEF SaveWrite, AfterSave
  <1>5. ASSUME NEW p \in Proc, Stop(p) \/ CrashWriting(p) \/ WriteFails(p)
        PROVE KeyPairFiles' /\ ShownIsOnDisk'
    BY <1>5 DEF Stop, CrashWriting, WriteFails, Remains, AfterFailure, AfterSave
  <1>6. ASSUME Revoke \/ NothingToRevoke PROVE KeyPairFiles' /\ ShownIsOnDisk'
    BY <1>6 DEF Revoke, NothingToRevoke
  <1>7. ASSUME CertCheck \/ CrtTruncate \/ CrtWrite
        PROVE KeyPairFiles' /\ ShownIsOnDisk'
    BY <1>7 DEF CertCheck, CrtTruncate, CrtWrite
  <1>8. ASSUME KeyTruncate \/ KeyWrite PROVE KeyPairFiles' /\ ShownIsOnDisk'
    BY <1>8 DEF KeyTruncate, KeyWrite
  <1>9. ASSUME LoadTls \/ LoadTlsFails PROVE KeyPairFiles' /\ ShownIsOnDisk'
    BY <1>9 DEF LoadTls, LoadTlsFails
  <1>10. ASSUME NEW d \in Device, Pair(d) PROVE KeyPairFiles' /\ ShownIsOnDisk'
    BY <1>10 DEF Pair
  <1>11. ASSUME Accept \/ UNCHANGED vars PROVE KeyPairFiles' /\ ShownIsOnDisk'
    BY <1>11 DEF Accept, vars
  <1> QED
    BY <1>1, <1>2, <1>3, <1>4, <1>5, <1>6, <1>7, <1>8, <1>9, <1>10, <1>11 DEF Next

\* Who fails to start.
LEMMA RuinsStep ==
  ASSUME TypeOK, KeyPairFiles, RuinsAreTorn, [Next]_vars
  PROVE  RuinsAreTorn'
  <1> USE Marks DEF TypeOK, files, hist, Goto, Proc, Down, Loaded,
          KeyPairFiles, RuinsAreTorn
  <1>1. ASSUME NEW p \in Proc, NEW d \in Device \cup {None}, Start(p, d)
        PROVE RuinsAreTorn'
    BY <1>1 DEF Start
  <1>2. ASSUME NEW p \in Proc, Load(p) \/ LoadFails(p) PROVE RuinsAreTorn'
    BY <1>2 DEF Load, LoadFails
  <1>3. ASSUME NEW p \in Proc, SaveTruncate(p) \/ SaveFails(p) PROVE RuinsAreTorn'
    BY <1>3 DEF SaveTruncate, SaveFails, AfterFailure, AfterSave
  <1>4. ASSUME NEW p \in Proc, SaveWrite(p) PROVE RuinsAreTorn'
    BY <1>4 DEF SaveWrite, AfterSave
  <1>5. ASSUME NEW p \in Proc, Stop(p) \/ CrashWriting(p) \/ WriteFails(p) PROVE RuinsAreTorn'
    BY <1>5 DEF Stop, CrashWriting, WriteFails, Remains, AfterFailure, AfterSave
  <1>6. ASSUME Revoke \/ NothingToRevoke PROVE RuinsAreTorn'
    BY <1>6 DEF Revoke, NothingToRevoke
  <1>7. ASSUME CertCheck \/ CrtTruncate \/ CrtWrite PROVE RuinsAreTorn'
    BY <1>7 DEF CertCheck, CrtTruncate, CrtWrite
  <1>8. ASSUME KeyTruncate \/ KeyWrite PROVE RuinsAreTorn'
    BY <1>8 DEF KeyTruncate, KeyWrite
  <1>9. ASSUME LoadTls \/ LoadTlsFails PROVE RuinsAreTorn'
    BY <1>9 DEF LoadTls, LoadTlsFails
  <1>10. ASSUME NEW d \in Device, Pair(d) PROVE RuinsAreTorn'
    BY <1>10 DEF Pair
  <1>11. ASSUME Accept \/ UNCHANGED vars PROVE RuinsAreTorn'
    BY <1>11 DEF Accept, vars
  <1> QED
    BY <1>1, <1>2, <1>3, <1>4, <1>5, <1>6, <1>7, <1>8, <1>9, <1>10, <1>11 DEF Next

\* Copies of the list and revoked devices.
LEMMA RevokedStep ==
  ASSUME TypeOK, TargetIsSaved, NoCopyOfRevoked, [Next]_vars
  PROVE  NoCopyOfRevoked'
  <1> USE Marks DEF TypeOK, files, hist, Goto, Proc, Down, Loaded,
          TargetIsSaved, NoCopyOfRevoked, OnFile
  <1>1. ASSUME NEW p \in Proc, NEW d \in Device \cup {None}, Start(p, d)
        PROVE NoCopyOfRevoked'
    BY <1>1 DEF Start
  <1>2. ASSUME NEW p \in Proc, Load(p) \/ LoadFails(p) PROVE NoCopyOfRevoked'
    BY <1>2 DEF Load, LoadFails
  <1>3. ASSUME NEW p \in Proc, SaveTruncate(p) \/ SaveFails(p)
        PROVE NoCopyOfRevoked'
    BY <1>3 DEF SaveTruncate, SaveFails, AfterFailure, AfterSave
  <1>4. ASSUME NEW p \in Proc, SaveWrite(p) PROVE NoCopyOfRevoked'
    BY <1>4 DEF SaveWrite, AfterSave
  <1>5. ASSUME NEW p \in Proc, Stop(p) \/ CrashWriting(p) \/ WriteFails(p) PROVE NoCopyOfRevoked'
    BY <1>5 DEF Stop, CrashWriting, WriteFails, Remains, AfterFailure, AfterSave
  <1>6. ASSUME Revoke \/ NothingToRevoke PROVE NoCopyOfRevoked'
    BY <1>6 DEF Revoke, NothingToRevoke
  <1>7. ASSUME CertCheck \/ CrtTruncate \/ CrtWrite PROVE NoCopyOfRevoked'
    BY <1>7 DEF CertCheck, CrtTruncate, CrtWrite
  <1>8. ASSUME KeyTruncate \/ KeyWrite PROVE NoCopyOfRevoked'
    BY <1>8 DEF KeyTruncate, KeyWrite
  <1>9. ASSUME LoadTls \/ LoadTlsFails PROVE NoCopyOfRevoked'
    BY <1>9 DEF LoadTls, LoadTlsFails
  <1>10. ASSUME NEW d \in Device, Pair(d) PROVE NoCopyOfRevoked'
    BY <1>10 DEF Pair
  <1>11. ASSUME Accept \/ UNCHANGED vars PROVE NoCopyOfRevoked'
    BY <1>11 DEF Accept, vars
  <1> QED
    BY <1>1, <1>2, <1>3, <1>4, <1>5, <1>6, <1>7, <1>8, <1>9, <1>10, <1>11 DEF Next

\* Copies of the list and confirmed devices.
LEMMA ConfirmedStep ==
  ASSUME TypeOK, TargetIsSaved, RuinsAreTorn, CopiesHoldConfirmed, [Next]_vars
  PROVE  CopiesHoldConfirmed'
  <1> USE Marks DEF TypeOK, files, hist, Goto, Proc, Down, Loaded,
          TargetIsSaved, RuinsAreTorn, CopiesHoldConfirmed, OnFile
  <1>1. ASSUME NEW p \in Proc, NEW d \in Device \cup {None}, Start(p, d)
        PROVE CopiesHoldConfirmed'
    BY <1>1 DEF Start
  <1>2. ASSUME NEW p \in Proc, Load(p) \/ LoadFails(p) PROVE CopiesHoldConfirmed'
    BY <1>2 DEF Load, LoadFails
  <1>3. ASSUME NEW p \in Proc, SaveTruncate(p) \/ SaveFails(p)
        PROVE CopiesHoldConfirmed'
    BY <1>3 DEF SaveTruncate, SaveFails, AfterFailure, AfterSave
  <1>4. ASSUME NEW p \in Proc, SaveWrite(p) PROVE CopiesHoldConfirmed'
    BY <1>4 DEF SaveWrite, AfterSave
  <1>5. ASSUME NEW p \in Proc, Stop(p) \/ CrashWriting(p) \/ WriteFails(p)
        PROVE CopiesHoldConfirmed'
    BY <1>5 DEF Stop, CrashWriting, WriteFails, Remains, AfterFailure, AfterSave
  <1>6. ASSUME Revoke \/ NothingToRevoke PROVE CopiesHoldConfirmed'
    BY <1>6 DEF Revoke, NothingToRevoke
  <1>7. ASSUME CertCheck \/ CrtTruncate \/ CrtWrite PROVE CopiesHoldConfirmed'
    BY <1>7 DEF CertCheck, CrtTruncate, CrtWrite
  <1>8. ASSUME KeyTruncate \/ KeyWrite PROVE CopiesHoldConfirmed'
    BY <1>8 DEF KeyTruncate, KeyWrite
  <1>9. ASSUME LoadTls \/ LoadTlsFails PROVE CopiesHoldConfirmed'
    BY <1>9 DEF LoadTls, LoadTlsFails
  <1>10. ASSUME NEW d \in Device, Pair(d) PROVE CopiesHoldConfirmed'
    BY <1>10 DEF Pair
  <1>11. ASSUME Accept \/ UNCHANGED vars PROVE CopiesHoldConfirmed'
    BY <1>11 DEF Accept, vars
  <1> QED
    BY <1>1, <1>2, <1>3, <1>4, <1>5, <1>6, <1>7, <1>8, <1>9, <1>10, <1>11 DEF Next

LEMMA NextInv == IndInv /\ [Next]_vars => IndInv'
  BY TypeStep, TargetStep, KeyPairStep, RuinsStep, RevokedStep, ConfirmedStep
     DEF IndInv

LEMMA Safety == Spec => []IndInv
  BY InitInv, NextInv, PTL DEF Spec

-----------------------------------------------------------------------------
(* The theorems.                                                           *)

\* Every variable keeps its type.
THEOREM TypeCorrect == Spec => []TypeOK
  <1>1. IndInv => TypeOK  BY DEF IndInv
  <1> QED  BY <1>1, Safety, PTL

\* A device that --revoke removed while no server ran is unknown to every
\* later server, through crashes, failed and torn saves.
THEOREM RevocationHolds == Spec => []RevokedNeedsPin
  <1>1. IndInv => RevokedNeedsPin
    BY DEF IndInv, NoCopyOfRevoked, RevokedNeedsPin, Proc
  <1> QED  BY <1>1, Safety, PTL

\* A device told PairAccept after a save is known to every later server, as
\* long as no write was torn and the two processes never ran at once.
THEOREM PairingHolds == Spec => []PairingsSurvive
  <1>1. IndInv => PairingsSurvive
    BY DEF IndInv, CopiesHoldConfirmed, PairingsSurvive, Proc
  <1> QED  BY <1>1, Safety, PTL

\* The program fails to start only if some fs::write was torn.
THEOREM StartSurvivesCrashes == Spec => []StartFailsOnlyTorn
  <1>1. IndInv => StartFailsOnlyTorn
    BY DEF IndInv, RuinsAreTorn, StartFailsOnlyTorn
  <1> QED  BY <1>1, Safety, PTL

\* A certificate that clients have seen is never replaced: setup_tls_server
\* generates a key pair only while none was shown.
THEOREM PinnedCertIsKept == Spec => CertKept
  <1>1. IndInv /\ [Next]_vars => [served # None => served' = served]_vars
    <2> SUFFICES ASSUME IndInv, Next, served # None PROVE served' = served
      BY DEF vars, hist
    <2>1. CASE LoadTls
      BY <2>1 DEF LoadTls, IndInv, ShownIsOnDisk
    <2>2. CASE ~LoadTls
      BY <2>2 DEF Next, hist, Start, Load, LoadFails, SaveTruncate, SaveWrite,
         SaveFails, WriteFails, Stop, CrashWriting, Revoke, NothingToRevoke, CertCheck, CrtTruncate,
         CrtWrite, KeyTruncate, KeyWrite, LoadTlsFails, Pair, Accept
    <2> QED  BY <2>1, <2>2
  <1> QED  BY <1>1, Safety, PTL DEF Spec, CertKept
=============================================================================
