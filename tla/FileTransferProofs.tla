------------------------- MODULE FileTransferProofs -------------------------
(***************************************************************************)
(* Completed transfers are in the downloads directory, whole, and stay     *)
(* there: for any number of transfers, files, paths and permits.  Nothing  *)
(* is proved about what a handler writes: what it delivers is what Verify  *)
(* read, and the argument is that nobody else can touch the inode between  *)
(* that read and the rename, or later.  It rests on where an open file     *)
(* descriptor may point: at the .part path of its own handler, or at       *)
(* nothing a lone transfer delivered.                                      *)
(***************************************************************************)
EXTENDS FileTransfer, FiniteSetTheorems, TLAPS

\* The candidates of unique_dest_path for f.
Dests(f) == {DestPaths[f][i] : i \in 1..Len(DestPaths[f])}

\* No final name is somebody's .part, and files with different names have no
\* candidate in common ("a" and "a (1)" do).
NamesApart ==
    \A f \in File, g \in File :
        /\ PartPath[f] \notin Dests(g)
        /\ PartPath[f] # PartPath[g] => Dests(f) \cap Dests(g) = {}

\* No .part of an offered file was there before the server was started.
NoPartBefore == \A f \in File : PartPath[f] \notin Existing

-----------------------------------------------------------------------------
(* The inductive invariant.                                                *)

BeforeOpen == {"new", "handshake", "offer", "exists", "stat", "append", "create"}
AfterOpen  == {"receive", "starved", "verify", "pick", "rename", "discard"}
Named      == {"rename", "done"}

PermitHolders == {t \in Transfer : pc[t] \in Busy}

\* Each busy handler holds one permit.
PermitsConserved == permits + Cardinality(PermitHolders) = MaxPending

\* A handler past the FileOffer knows its file.
OfferKnown == \A t \in Transfer : pc[t] \in Receiving \cup {"done"} => offer[t] \in File

\* A handler has a file open from OpenAppend or CreatePart to its end.
OpenIsPlaced == \A t \in Transfer : fd[t] # None <=> pc[t] \in AfterOpen

\* No inode has two paths: there are no hard links.
OnePath == \A p \in Path, q \in Path : dir[p] = dir[q] /\ dir[p] # None => p = q

\* The inode a handler would create is not there yet.
InodeIsFresh ==
    \A t \in Transfer : pc[t] \in BeforeOpen =>
        /\ \A p \in Path : dir[p] # t
        /\ \A u \in Transfer : fd[u] # t

\* An open file at a .part path is at that of the handler that opened it.
HandleAtPart ==
    \A u \in Transfer, f \in File :
        fd[u] # None /\ dir[PartPath[f]] = fd[u] => Part(u) = PartPath[f]

\* Two handlers that work on one .part are both crowded.
MatesAreCrowded ==
    \A t \in Transfer, u \in Transfer :
        t # u /\ pc[t] \in Receiving /\ pc[u] \in Receiving /\ Part(t) = Part(u)
            => t \in crowded

\* A destination is a candidate of the handler's file ...
DestIsCandidate == \A t \in Transfer : pc[t] \in Named => dest[t] \in Dests(offer[t])

\* ... and something stays at that of a completed transfer.
DoneIsThere == \A t \in Transfer : pc[t] = "done" => dir[dest[t]] # None

\* What a lone handler has verified is still at its .part when it is renamed.
VerifiedStays ==
    \A t \in Alone : pc[t] \in {"pick", "rename"} =>
        /\ dir[Part(t)] # None
        /\ data[dir[Part(t)]] = Content[offer[t]]

\* The destination of a lone transfer is no other's.
DestIsOwn ==
    \A t \in Alone, u \in Transfer :
        t # u /\ pc[t] \in Named /\ pc[u] \in Named => dest[t] # dest[u]

\* What a lone transfer delivered is whole, and no handler has it open.
DeliveredStays ==
    \A t \in Alone : pc[t] = "done" =>
        /\ data[dir[dest[t]]] = Content[offer[t]]
        /\ \A u \in Transfer : fd[u] # dir[dest[t]]

PlaceInv == TypeOK /\ PermitsConserved /\ OfferKnown /\ OpenIsPlaced
DirInv   == OnePath /\ InodeIsFresh /\ HandleAtPart
AloneInv == /\ MatesAreCrowded /\ DestIsCandidate /\ DoneIsThere
            /\ VerifiedStays /\ DestIsOwn /\ DeliveredStays

-----------------------------------------------------------------------------
(* Types and permits.                                                      *)

LEMMA HoldersFinite ==
  IsFiniteSet(PermitHolders) /\ Cardinality(PermitHolders) \in Nat
  <1>1. PermitHolders \in SUBSET Transfer  BY DEF PermitHolders
  <1>2. IsFiniteSet(PermitHolders)  BY <1>1, BoundAssumption, FS_Subset
  <1> QED  BY <1>2, FS_CardinalityType

\* A connection is accepted.
LEMMA HoldersGrow ==
  ASSUME TypeOK, PermitsConserved, NEW t \in Transfer, NEW place \in Busy,
         pc[t] \notin Busy, permits > 0, permits' = permits - 1, Goto(t, place)
  PROVE  permits' \in 0..MaxPending /\ PermitsConserved'
  <1>1. PermitHolders' = PermitHolders \cup {t}  BY DEF TypeOK, Goto, PermitHolders
  <1>2. t \notin PermitHolders  BY DEF PermitHolders
  <1>3. Cardinality(PermitHolders') = Cardinality(PermitHolders) + 1
    BY <1>1, <1>2, HoldersFinite, FS_AddElement
  <1> QED  BY <1>3, HoldersFinite, BoundAssumption DEF TypeOK, PermitsConserved

\* A handler ends.
LEMMA HoldersShrink ==
  ASSUME TypeOK, PermitsConserved, NEW t \in Transfer, NEW place \in Places \ Busy,
         pc[t] \in Busy, permits' = permits + 1, Goto(t, place)
  PROVE  permits' \in 0..MaxPending /\ PermitsConserved'
  <1>1. PermitHolders' = PermitHolders \ {t}  BY DEF TypeOK, Goto, PermitHolders
  <1>2. t \in PermitHolders  BY DEF PermitHolders
  <1>3. Cardinality(PermitHolders') = Cardinality(PermitHolders) - 1
    BY <1>1, <1>2, HoldersFinite, FS_RemoveElement
  <1>4. Cardinality(PermitHolders') \in Nat
    <2>1. IsFiniteSet(PermitHolders')  BY <1>1, HoldersFinite, FS_RemoveElement
    <2> QED  BY <2>1, FS_CardinalityType
  <1> QED
    BY <1>3, <1>4, HoldersFinite, BoundAssumption DEF TypeOK, PermitsConserved

\* Any other step moves a handler between places that hold one, or neither.
LEMMA HoldersKeep ==
  ASSUME TypeOK, PermitsConserved, NEW t \in Transfer, NEW place \in Places,
         pc[t] \in Busy <=> place \in Busy, permits' = permits, Goto(t, place)
  PROVE  permits' \in 0..MaxPending /\ PermitsConserved'
  <1>1. PermitHolders' = PermitHolders  BY DEF TypeOK, Goto, PermitHolders
  <1> QED  BY <1>1 DEF TypeOK, PermitsConserved

\* The chunks of a file that is offered.
LEMMA ContentType ==
  ASSUME NEW f \in File
  PROVE  /\ Content[f] \in Seq(Chunk) /\ Len(Content[f]) \in Nat
         /\ \A i \in 1..Len(Content[f]) : Content[f][i] \in Chunk
  BY FileAssumption

\* write_all at an offset makes a file of a file.
LEMMA WriteAtType ==
  ASSUME NEW s \in Seq(Chunk \cup {Hole}), NEW pos \in Nat, NEW b \in Chunk
  PROVE  WriteAt(s, pos, b) \in Seq(Chunk \cup {Hole})
  <1> DEFINE n == IF pos < Len(s) THEN Len(s) ELSE pos + 1
  <1>1. n \in Nat  OBVIOUS
  <1>2. \A i \in 1..n :
          (IF i = pos + 1 THEN b ELSE IF i <= Len(s) THEN s[i] ELSE Hole)
            \in Chunk \cup {Hole}
    OBVIOUS
  <1>3. WriteAt(s, pos, b) \in [1..n -> Chunk \cup {Hole}]
    BY <1>2 DEF WriteAt
  <1> QED  BY <1>1, <1>3

\* The types other than that of permits, after the end of a handler.
LEMMA EndTypes ==
  ASSUME TypeOK, NEW t \in Transfer, NEW place \in {"closed", "done"}, End(t, place)
  PROVE  /\ pc' \in [Transfer -> Places]
         /\ offer' \in [Transfer -> File \cup {None}]
         /\ fd' \in [Transfer -> Inode \cup {None}]
         /\ appends' \subseteq Transfer
         /\ start' \in [Transfer -> Nat]
         /\ got' \in [Transfer -> Nat]
         /\ dest' \in [Transfer -> Path \cup {None}]
         /\ crowded' \subseteq Transfer
  BY DEF TypeOK, End, Goto, Places

LEMMA PlaceInit == Init => PlaceInv
  <1> SUFFICES ASSUME Init PROVE PlaceInv  OBVIOUS
  <1>1. permits \in 0..MaxPending  BY BoundAssumption DEF Init
  <1>2. /\ pc \in [Transfer -> Places] /\ dir \in [Path -> Inode \cup {None}]
        /\ offer \in [Transfer -> File \cup {None}]
        /\ fd \in [Transfer -> Inode \cup {None}]
        /\ dest \in [Transfer -> Path \cup {None}]
        /\ start \in [Transfer -> Nat] /\ got \in [Transfer -> Nat]
        /\ appends \subseteq Transfer /\ crowded \subseteq Transfer
    BY DEF Init, Places, Inode
  <1>3. data \in [Inode -> Seq(Chunk \cup {Hole})]
    <2>1. <<Hole>> \in Seq(Chunk \cup {Hole}) /\ <<>> \in Seq(Chunk \cup {Hole})
      OBVIOUS
    <2> QED  BY <2>1 DEF Init
  <1>4. PermitsConserved
    <2>1. PermitHolders = {}  BY DEF Init, PermitHolders, Busy, Receiving
    <2> QED  BY <2>1, FS_EmptySet, BoundAssumption DEF Init, PermitsConserved
  <1>5. OfferKnown /\ OpenIsPlaced
    BY DEF Init, OfferKnown, OpenIsPlaced, Receiving, AfterOpen
  <1> QED  BY <1>1, <1>2, <1>3, <1>4, <1>5 DEF PlaceInv, TypeOK

\* The end of a handler keeps the types and the places.
LEMMA EndPlace ==
  ASSUME PlaceInv, NEW t \in Transfer, NEW place \in {"closed", "done"},
         pc[t] \in Busy, place = "done" => pc[t] \in Receiving,
         End(t, place), dir' \in [Path -> Inode \cup {None}], data' = data
  PROVE  PlaceInv'
  <1>1. /\ place \in Places \ Busy /\ permits' = permits + 1 /\ Goto(t, place)
        /\ fd' = [fd EXCEPT ![t] = None]
        /\ place = "done" => offer' = offer
        /\ place # "done" => offer' = [offer EXCEPT ![t] = None]
    BY DEF End, Places, Busy, Receiving
  <1>2. permits' \in 0..MaxPending /\ PermitsConserved'
    BY <1>1, HoldersShrink DEF PlaceInv
  <1>3. TypeOK'  BY <1>2, EndTypes DEF PlaceInv, TypeOK
  <1>4. OfferKnown'
    BY <1>1 DEF PlaceInv, TypeOK, OfferKnown, Goto, Receiving
  <1>5. OpenIsPlaced'
    BY <1>1 DEF PlaceInv, TypeOK, OpenIsPlaced, Goto, AfterOpen
  <1> QED  BY <1>2, <1>3, <1>4, <1>5 DEF PlaceInv

\* A step within the handler that neither opens nor closes a file.
LEMMA MovePlace ==
  ASSUME PlaceInv, NEW t \in Transfer, NEW place \in Places, Goto(t, place),
         pc[t] \in Busy <=> place \in Busy,
         pc[t] \in AfterOpen <=> place \in AfterOpen,
         place \in Receiving \cup {"done"} => pc[t] \in Receiving,
         UNCHANGED <<permits, dir, data, offer, fd, appends, got, crowded>>,
         start' \in [Transfer -> Nat], dest' \in [Transfer -> Path \cup {None}]
  PROVE  PlaceInv'
  <1>1. permits' \in 0..MaxPending /\ PermitsConserved'
    BY HoldersKeep DEF PlaceInv
  <1>2. pc' \in [Transfer -> Places]  BY DEF PlaceInv, TypeOK, Goto
  <1>3. TypeOK'  BY <1>1, <1>2 DEF PlaceInv, TypeOK
  <1>4. OfferKnown'  BY DEF PlaceInv, TypeOK, OfferKnown, Goto
  <1>5. OpenIsPlaced'  BY DEF PlaceInv, TypeOK, OpenIsPlaced, Goto
  <1> QED  BY <1>1, <1>3, <1>4, <1>5 DEF PlaceInv

\* The inodes that are in the directory, and the paths of a handler's file.
LEMMA Paths ==
  ASSUME PlaceInv, NEW t \in Transfer, pc[t] \in Receiving \cup {"done"}
  PROVE  /\ offer[t] \in File /\ Part(t) \in Path
         /\ PartInode(t) \in Inode \cup {None}
         /\ t \in Inode /\ Size(t) \in Nat
         /\ Dests(offer[t]) \subseteq Path
  <1>1. offer[t] \in File  BY DEF PlaceInv, OfferKnown
  <1>2. Dests(offer[t]) \subseteq Path  BY <1>1, FileAssumption DEF Dests
  <1> QED
    BY <1>1, <1>2, FileAssumption, ContentType
       DEF PlaceInv, TypeOK, Part, PartInode, Inode, Size

LEMMA PlaceStep == PlaceInv /\ [Next]_vars => PlaceInv'
  <1> SUFFICES ASSUME PlaceInv, [Next]_vars PROVE PlaceInv'  OBVIOUS
  <1>1. CASE UNCHANGED vars
    BY <1>1 DEF vars, xfer, PlaceInv, TypeOK, PermitsConserved, PermitHolders,
                OfferKnown, OpenIsPlaced
  <1> SUFFICES ASSUME NEW t \in Transfer,
                      \/ Accept(t) \/ TooManyPending(t) \/ PairAccepted(t)
                      \/ PairRefused(t)
                      \/ \E f \in File : FileOffer(t, f) \/ FileTooBig(t, f)
                      \/ HandlerStep(t)
                      \/ SourceShrinks(t) \/ ConnectionBreaks(t) \/ PeerCloses(t)
               PROVE  PlaceInv'
    BY <1>1 DEF Next
  <1> USE DEF Places, Busy, Receiving, AfterOpen
  <1>2. TypeOK /\ start \in [Transfer -> Nat] /\ dest \in [Transfer -> Path \cup {None}]
    BY DEF PlaceInv, TypeOK
  <1>3. CASE Accept(t)
    <2>1. permits' \in 0..MaxPending /\ PermitsConserved'
      BY <1>3, HoldersGrow DEF PlaceInv, Accept
    <2>2. pc' \in [Transfer -> Places]  BY <1>2, <1>3 DEF TypeOK, Accept, Goto
    <2>3. TypeOK'  BY <1>2, <1>3, <2>1, <2>2 DEF TypeOK, Accept, xfer
    <2>4. OfferKnown' /\ OpenIsPlaced'
      BY <1>2, <1>3 DEF PlaceInv, TypeOK, OfferKnown, OpenIsPlaced, Accept, Goto, xfer
    <2> QED  BY <2>1, <2>3, <2>4 DEF PlaceInv
  <1>4. CASE TooManyPending(t) \/ PairAccepted(t)
    BY <1>2, <1>4, MovePlace DEF TooManyPending, PairAccepted, xfer
  <1>5. CASE PairRefused(t) \/ \E f \in File : FileTooBig(t, f)
    BY <1>2, <1>5, EndPlace DEF PairRefused, FileTooBig, TypeOK
  <1>6. ASSUME NEW f \in File, FileOffer(t, f) PROVE PlaceInv'
    <2>1. /\ pc[t] = "offer" /\ offer' = [offer EXCEPT ![t] = f]
          /\ Goto(t, "exists") /\ permits' = permits
          /\ UNCHANGED <<dir, data, fd, appends, start, got, dest>>
      BY <1>6 DEF FileOffer
    <2>2. permits' \in 0..MaxPending /\ PermitsConserved'
      BY <2>1, HoldersKeep DEF PlaceInv
    <2>3. crowded' \subseteq Transfer
      BY <1>2, <1>6 DEF TypeOK, FileOffer, Mates
    <2>4. /\ pc' \in [Transfer -> Places]
          /\ offer' \in [Transfer -> File \cup {None}]
      BY <1>2, <2>1 DEF TypeOK, Goto
    <2>5. TypeOK'  BY <1>2, <2>1, <2>2, <2>3, <2>4 DEF TypeOK
    <2>6. OfferKnown' /\ OpenIsPlaced'
      BY <1>2, <2>1 DEF PlaceInv, TypeOK, OfferKnown, OpenIsPlaced, Goto
    <2> QED  BY <2>2, <2>5, <2>6 DEF PlaceInv
  <1>7. CASE PartExists(t) \/ ReceiveDone(t) \/ Verify(t) \/ SourceShrinks(t)
             \/ PeerCloses(t)
    BY <1>2, <1>7, MovePlace
       DEF PartExists, ReceiveDone, Verify, SourceShrinks, PeerCloses, xfer
  <1>8. CASE StatPart(t)
    <2>1. pc[t] = "stat" /\ PartInode(t) \in Inode
      BY <1>8, Paths DEF StatPart
    <2>2. Len(data[PartInode(t)]) \in Nat  BY <1>2, <2>1 DEF TypeOK
    <2>3. start' \in [Transfer -> Nat]  BY <1>2, <1>8, <2>2 DEF StatPart
    <2> QED  BY <1>2, <1>8, <2>3, MovePlace DEF StatPart
  <1>9. CASE OpenAppend(t) \/ CreatePart(t)
    <2>1. /\ pc[t] \in {"append", "create"} /\ Goto(t, "receive")
          /\ UNCHANGED <<permits, offer, start, dest, crowded>>
      BY <1>9 DEF OpenAppend, CreatePart
    <2>2. PICK i \in Inode : fd' = [fd EXCEPT ![t] = i]
      <3>1. t \in Inode /\ PartInode(t) \in Inode \cup {None}  BY <2>1, Paths
      <3> QED  BY <1>9, <3>1 DEF OpenAppend, CreatePart
    <2>3. dir' \in [Path -> Inode \cup {None}] /\ data' \in [Inode -> Seq(Chunk \cup {Hole})]
      <3>1. /\ t \in Inode /\ PartInode(t) \in Inode \cup {None} /\ Part(t) \in Path
            /\ <<>> \in Seq(Chunk \cup {Hole})
        BY <2>1, Paths
      <3>2. dir \in [Path -> Inode \cup {None}] /\ data \in [Inode -> Seq(Chunk \cup {Hole})]
        BY <1>2 DEF TypeOK
      <3>3. CASE OpenAppend(t)  BY <3>2, <3>3 DEF OpenAppend
      <3>4. CASE CreatePart(t)  BY <3>1, <3>2, <3>4 DEF CreatePart
      <3> QED  BY <1>9, <3>3, <3>4
    <2>4. appends' \subseteq Transfer /\ got' \in [Transfer -> Nat]
      BY <1>2, <1>9 DEF TypeOK, OpenAppend, CreatePart
    <2>5. permits' \in 0..MaxPending /\ PermitsConserved'
      BY <2>1, HoldersKeep DEF PlaceInv
    <2>6. pc' \in [Transfer -> Places] /\ fd' \in [Transfer -> Inode \cup {None}]
      BY <1>2, <2>1, <2>2 DEF TypeOK, Goto
    <2>7. TypeOK'  BY <1>2, <2>1, <2>3, <2>4, <2>5, <2>6 DEF TypeOK
    <2>8. i # None  BY InodeAssumption, FileAssumption DEF Inode
    <2>9. OfferKnown' /\ OpenIsPlaced'
      BY <1>2, <2>1, <2>2, <2>8 DEF PlaceInv, TypeOK, OfferKnown, OpenIsPlaced, Goto
    <2> QED  BY <2>5, <2>7, <2>9 DEF PlaceInv
  <1>10. CASE PartGone(t) \/ ConnectionBreaks(t)
    BY <1>2, <1>10, EndPlace DEF PartGone, ConnectionBreaks, TypeOK
  <1>11. CASE ReceiveChunk(t)
    <2>1. /\ pc[t] = "receive" /\ got[t] < Size(t) /\ fd[t] \in Inode
          /\ offer[t] \in File /\ got[t] \in Nat
      BY <1>2, <1>11, Paths DEF ReceiveChunk, PlaceInv, TypeOK, OpenIsPlaced
    <2>2. ClientChunk(t) \in Chunk
      BY <2>1, ContentType DEF ClientChunk, Size
    <2>3. data[fd[t]] \in Seq(Chunk \cup {Hole})  BY <1>2, <2>1 DEF TypeOK
    <2>4. /\ Append(data[fd[t]], ClientChunk(t)) \in Seq(Chunk \cup {Hole})
          /\ WriteAt(data[fd[t]], got[t], ClientChunk(t)) \in Seq(Chunk \cup {Hole})
      <3>1. Append(data[fd[t]], ClientChunk(t)) \in Seq(Chunk \cup {Hole})
        BY <2>2, <2>3
      <3> QED  BY <2>1, <2>2, <2>3, <3>1, WriteAtType
    <2>5. data' \in [Inode -> Seq(Chunk \cup {Hole})]
      BY <1>2, <1>11, <2>4 DEF TypeOK, ReceiveChunk
    <2>6. got' \in [Transfer -> Nat]  BY <1>2, <1>11, <2>1 DEF TypeOK, ReceiveChunk
    <2>7. UNCHANGED <<pc, permits, dir, offer, fd, appends, start, dest, crowded>>
      BY <1>11 DEF ReceiveChunk
    <2> QED
      BY <2>5, <2>6, <2>7 DEF PlaceInv, TypeOK, PermitsConserved, PermitHolders,
                              OfferKnown, OpenIsPlaced
  <1>12. CASE Discard(t)
    <2>1. dir' \in [Path -> Inode \cup {None}]  BY <1>2, <1>12 DEF TypeOK, Discard
    <2> QED  BY <1>12, <2>1, EndPlace DEF Discard
  <1>13. CASE UniqueDestPath(t)
    <2>1. pc[t] = "pick" /\ Dests(offer[t]) \subseteq Path
      BY <1>13, Paths DEF UniqueDestPath
    <2>2. \E p \in Dests(offer[t]) : dest' = [dest EXCEPT ![t] = p]
      BY <1>13 DEF UniqueDestPath, Dests
    <2>3. dest' \in [Transfer -> Path \cup {None}]  BY <1>2, <2>1, <2>2
    <2> QED  BY <1>2, <1>13, <2>3, MovePlace DEF UniqueDestPath
  <1>14. CASE Promote(t)
    <2>1. PartInode(t) \in Inode  BY <1>14, Paths DEF Promote
    <2>2. dir' \in [Path -> Inode \cup {None}]
      BY <1>2, <1>14, <2>1 DEF TypeOK, Promote
    <2> QED  BY <1>14, <2>2, EndPlace DEF Promote
  <1> QED
    BY <1>3, <1>4, <1>5, <1>6, <1>7, <1>8, <1>9, <1>10, <1>11, <1>12, <1>13, <1>14
       DEF HandlerStep

-----------------------------------------------------------------------------
(* Inodes, paths and descriptors.                                          *)

LEMMA NoneIsNoInode == None \notin Inode /\ Transfer \subseteq Inode
  BY InodeAssumption, FileAssumption DEF Inode

\* A handler's .part is no candidate of unique_dest_path, whosever it is.
LEMMA PartIsNoDest ==
  ASSUME NamesApart, PlaceInv, DestIsCandidate,
         NEW t \in Transfer, pc[t] \in Named
  PROVE  /\ dest[t] \in Path /\ offer[t] \in File
         /\ \A f \in File : dest[t] # PartPath[f]
  <1>1. offer[t] \in File /\ Dests(offer[t]) \subseteq Path
    BY Paths DEF Named, Receiving
  <1> QED  BY <1>1 DEF NamesApart, DestIsCandidate

SafeInv == PlaceInv /\ DirInv /\ AloneInv

\* A step that moves a handler and touches neither directory nor files, and
\* does not verify, pick or rename.
LEMMA MoveSafe ==
  ASSUME SafeInv, NEW t \in Transfer, NEW place \in Places, Goto(t, place),
         place \in BeforeOpen => pc[t] \in BeforeOpen,
         place \in Receiving => pc[t] \in Receiving,
         place \notin {"pick", "rename", "done"},
         UNCHANGED <<dir, data, offer, fd, dest, crowded>>
  PROVE  DirInv' /\ AloneInv'
  <1>1. /\ pc'[t] = place /\ \A u \in Transfer : u # t => pc'[u] = pc[u]
    BY DEF SafeInv, PlaceInv, TypeOK, Goto
  <1>2. OnePath' /\ HandleAtPart'
    BY DEF SafeInv, DirInv, OnePath, HandleAtPart, Part
  <1>3. InodeIsFresh'  BY <1>1 DEF SafeInv, DirInv, InodeIsFresh
  <1>4. MatesAreCrowded'  BY <1>1 DEF SafeInv, AloneInv, MatesAreCrowded, Part
  <1>5. DestIsCandidate' /\ DoneIsThere'
    BY <1>1 DEF SafeInv, AloneInv, DestIsCandidate, DoneIsThere, Named
  <1>6. VerifiedStays'  BY <1>1 DEF SafeInv, AloneInv, VerifiedStays, Alone, Part
  <1>7. DestIsOwn'  BY <1>1 DEF SafeInv, AloneInv, DestIsOwn, Alone, Named
  <1>8. DeliveredStays'  BY <1>1 DEF SafeInv, AloneInv, DeliveredStays, Alone
  <1> QED
    BY <1>2, <1>3, <1>4, <1>5, <1>6, <1>7, <1>8 DEF DirInv, AloneInv

\* A handler gives up, and may remove its .part.
LEMMA LeaveSafe ==
  ASSUME NamesApart, SafeInv, NEW t \in Transfer, End(t, "closed"), data' = data,
         \/ dir' = dir
         \/ pc[t] = "discard" /\ dir' = [dir EXCEPT ![Part(t)] = None]
  PROVE  DirInv' /\ AloneInv'
  <1>1. /\ pc'[t] = "closed" /\ fd'[t] = None
        /\ \A u \in Transfer : u # t =>
             /\ pc'[u] = pc[u] /\ offer'[u] = offer[u] /\ fd'[u] = fd[u]
             /\ dest'[u] = dest[u] /\ (u \in crowded' <=> u \in crowded)
    BY DEF SafeInv, PlaceInv, TypeOK, End, Goto
  <1>2. \A q \in Path : dir'[q] = dir[q] \/ dir'[q] = None
    BY DEF SafeInv, PlaceInv, TypeOK
  <1>3. \A q \in Path : (\A f \in File : q # PartPath[f]) => dir'[q] = dir[q]
    <2>1. pc[t] = "discard" => offer[t] \in File  BY Paths DEF SafeInv, Receiving
    <2> QED  BY <2>1 DEF SafeInv, PlaceInv, TypeOK, Part
  <1>4. \A f \in File : PartPath[f] \in Path  BY FileAssumption
  <1>5. \A u \in Transfer : u # t => Part(u)' = Part(u)  BY <1>1 DEF Part
  <1>6. OnePath'  BY <1>2 DEF SafeInv, DirInv, OnePath
  <1>7. HandleAtPart'
    BY <1>1, <1>2, <1>4, <1>5 DEF SafeInv, DirInv, HandleAtPart
  <1>8. InodeIsFresh'
    BY <1>1, <1>2, NoneIsNoInode DEF SafeInv, DirInv, InodeIsFresh, BeforeOpen
  <1>9. MatesAreCrowded'
    BY <1>1, <1>5 DEF SafeInv, AloneInv, MatesAreCrowded, Receiving
  <1>10. DestIsCandidate'
    BY <1>1 DEF SafeInv, AloneInv, DestIsCandidate, Named
  <1>11. \A u \in Transfer : u # t /\ pc[u] \in Named => dir'[dest[u]] = dir[dest[u]]
    BY <1>3, PartIsNoDest DEF SafeInv, AloneInv
  <1>12. DoneIsThere'
    BY <1>1, <1>11 DEF SafeInv, AloneInv, DoneIsThere, Named
  <1>13. VerifiedStays'
    <2> SUFFICES ASSUME NEW u \in Transfer, u # t, u \notin crowded,
                        pc[u] \in {"pick", "rename"}
                 PROVE  dir'[Part(u)] = dir[Part(u)]
      BY <1>1, <1>5 DEF SafeInv, AloneInv, VerifiedStays, Alone
    <2>1. Part(u) \in Path  BY Paths DEF SafeInv, Receiving
    <2>2. pc[t] = "discard" => Part(t) # Part(u)
      BY DEF SafeInv, AloneInv, MatesAreCrowded, Receiving
    <2> QED  BY <2>1, <2>2 DEF SafeInv, PlaceInv, TypeOK
  <1>14. DestIsOwn'
    BY <1>1 DEF SafeInv, AloneInv, DestIsOwn, Alone, Named
  <1>15. DeliveredStays'
    <2> SUFFICES ASSUME NEW u \in Transfer, u # t, u \notin crowded, pc[u] = "done"
                 PROVE  /\ data[dir'[dest[u]]] = Content[offer[u]]
                        /\ \A v \in Transfer : fd'[v] # dir'[dest[u]]
      BY <1>1 DEF DeliveredStays, Alone
    <2>1. dir'[dest[u]] = dir[dest[u]] /\ dir[dest[u]] # None
      BY <1>11 DEF SafeInv, AloneInv, DoneIsThere, Named
    <2> QED  BY <1>1, <2>1 DEF SafeInv, AloneInv, DeliveredStays, Alone
  <1> QED
    BY <1>6, <1>7, <1>8, <1>9, <1>10, <1>12, <1>13, <1>14, <1>15 DEF DirInv, AloneInv

\* A handler joins those that work on a .part.
LEMMA OfferSafe ==
  ASSUME SafeInv, NEW t \in Transfer, NEW f \in File, FileOffer(t, f)
  PROVE  DirInv' /\ AloneInv'
  <1>1. /\ pc[t] = "offer" /\ pc'[t] = "exists" /\ offer'[t] = f
        /\ \A u \in Transfer : u # t => pc'[u] = pc[u] /\ offer'[u] = offer[u]
        /\ UNCHANGED <<dir, data, fd, dest>>
        /\ crowded' = crowded \cup Mates(f) \cup (IF Mates(f) = {} THEN {} ELSE {t})
    BY DEF FileOffer, Goto, SafeInv, PlaceInv, TypeOK
  <1>2. \A u \in Transfer : u # t => Part(u)' = Part(u)  BY <1>1 DEF Part
  <1>3. Part(t)' = PartPath[f]  BY <1>1 DEF Part
  <1>4. fd[t] = None
    BY <1>1 DEF SafeInv, PlaceInv, OpenIsPlaced, AfterOpen
  <1>5. OnePath'  BY <1>1 DEF SafeInv, DirInv, OnePath
  <1>6. HandleAtPart'  BY <1>1, <1>2, <1>4 DEF SafeInv, DirInv, HandleAtPart
  <1>7. InodeIsFresh'  BY <1>1 DEF SafeInv, DirInv, InodeIsFresh, BeforeOpen
  <1>8. MatesAreCrowded'
    <2> SUFFICES ASSUME NEW a \in Transfer, NEW b \in Transfer, a # b,
                        pc'[a] \in Receiving, pc'[b] \in Receiving,
                        Part(a)' = Part(b)'
                 PROVE  a \in crowded'
      BY DEF MatesAreCrowded
    <2>1. CASE a # t /\ b # t
      BY <1>1, <1>2, <2>1 DEF SafeInv, AloneInv, MatesAreCrowded
    <2>2. CASE a = t
      <3>1. b \in Mates(f)  BY <1>1, <1>2, <1>3, <2>2 DEF Mates
      <3> QED  BY <1>1, <2>2, <3>1
    <2>3. CASE b = t
      <3>1. a \in Mates(f)  BY <1>1, <1>2, <1>3, <2>3 DEF Mates
      <3> QED  BY <1>1, <3>1
    <2> QED  BY <2>1, <2>2, <2>3
  <1>9. DestIsCandidate' /\ DoneIsThere'
    BY <1>1 DEF SafeInv, AloneInv, DestIsCandidate, DoneIsThere, Named
  <1>10. VerifiedStays'
    BY <1>1, <1>2 DEF SafeInv, AloneInv, VerifiedStays, Alone
  <1>11. DestIsOwn'  BY <1>1 DEF SafeInv, AloneInv, DestIsOwn, Alone, Named
  <1>12. DeliveredStays'  BY <1>1 DEF SafeInv, AloneInv, DeliveredStays, Alone
  <1> QED
    BY <1>5, <1>6, <1>7, <1>8, <1>9, <1>10, <1>11, <1>12 DEF DirInv, AloneInv

\* A handler opens its .part, which is there or which it creates.
LEMMA OpenSafe ==
  ASSUME NamesApart, SafeInv, NEW t \in Transfer, pc[t] \in {"append", "create"},
         NEW i, i = IF PartInode(t) = None THEN t ELSE PartInode(t),
         Goto(t, "receive"), fd' = [fd EXCEPT ![t] = i],
         dir' = [dir EXCEPT ![Part(t)] = i],
         data' = data \/ data' = [data EXCEPT ![i] = <<>>],
         UNCHANGED <<offer, dest, crowded>>
  PROVE  DirInv' /\ AloneInv'
  <1>1. /\ pc'[t] = "receive" /\ fd'[t] = i
        /\ \A u \in Transfer : u # t => pc'[u] = pc[u] /\ fd'[u] = fd[u]
    BY DEF SafeInv, PlaceInv, TypeOK, Goto
  <1>2. offer[t] \in File /\ Part(t) \in Path /\ Part(t) = PartPath[offer[t]] /\ i # None
    BY Paths, NoneIsNoInode DEF SafeInv, Receiving, Part
  <1>3. /\ dir'[Part(t)] = i
        /\ \A q \in Path : q # Part(t) => dir'[q] = dir[q]
    BY <1>2 DEF SafeInv, PlaceInv, TypeOK
  <1>4. \A q \in Path : q # Part(t) => dir[q] # i
    BY <1>2 DEF SafeInv, DirInv, OnePath, InodeIsFresh, BeforeOpen, PartInode
  <1>5. ASSUME NEW u \in Transfer, fd[u] = i PROVE Part(u) = Part(t)
    BY <1>2, <1>5 DEF SafeInv, DirInv, HandleAtPart, InodeIsFresh, BeforeOpen, PartInode
  <1>6. \A j \in Inode : j # i => data'[j] = data[j]
    BY DEF SafeInv, PlaceInv, TypeOK
  <1>7. \A u \in Transfer : Part(u)' = Part(u)  BY DEF Part
  <1>8. \A f \in File : PartPath[f] \in Path  BY FileAssumption
  <1>9. OnePath'  BY <1>3, <1>4 DEF SafeInv, DirInv, OnePath
  <1>10. HandleAtPart'
    <2> SUFFICES ASSUME NEW u \in Transfer, NEW f \in File,
                        fd'[u] # None, dir'[PartPath[f]] = fd'[u]
                 PROVE  Part(u) = PartPath[f]
      BY <1>7 DEF HandleAtPart
    <2>1. CASE u = t  BY <1>1, <1>3, <1>4, <1>8, <2>1
    <2>2. CASE u # t /\ PartPath[f] = Part(t)  BY <1>1, <1>3, <1>5, <2>2
    <2>3. CASE u # t /\ PartPath[f] # Part(t)
      BY <1>1, <1>3, <1>8, <2>3 DEF SafeInv, DirInv, HandleAtPart
    <2> QED  BY <2>1, <2>2, <2>3
  <1>11. InodeIsFresh'
    <2> SUFFICES ASSUME NEW v \in Transfer, v # t, pc[v] \in BeforeOpen
                 PROVE  /\ \A q \in Path : dir'[q] # v
                        /\ \A u \in Transfer : fd'[u] # v
      BY <1>1 DEF InodeIsFresh, BeforeOpen
    <2>1. i # v
      BY <1>2 DEF SafeInv, DirInv, InodeIsFresh, PartInode
    <2> QED  BY <1>1, <1>3, <2>1 DEF SafeInv, DirInv, InodeIsFresh
  <1>12. MatesAreCrowded'
    BY <1>1, <1>7 DEF SafeInv, AloneInv, MatesAreCrowded, Receiving
  <1>13. DestIsCandidate'
    BY <1>1 DEF SafeInv, AloneInv, DestIsCandidate, Named
  <1>14. \A u \in Transfer : pc[u] \in Named =>
           dest[u] \in Path /\ dest[u] # Part(t) /\ dir'[dest[u]] = dir[dest[u]]
    BY <1>2, <1>3, PartIsNoDest DEF SafeInv, AloneInv
  <1>15. DoneIsThere'
    BY <1>1, <1>14 DEF SafeInv, AloneInv, DoneIsThere, Named
  <1>16. VerifiedStays'
    <2> SUFFICES ASSUME NEW u \in Transfer, u # t, u \notin crowded,
                        pc[u] \in {"pick", "rename"}
                 PROVE  /\ dir'[Part(u)] # None
                        /\ data'[dir'[Part(u)]] = Content[offer[u]]
      BY <1>1, <1>7 DEF VerifiedStays, Alone
    <2>1. Part(u) \in Path /\ PartInode(u) \in Inode \cup {None}
      BY Paths DEF SafeInv, Receiving
    <2>2. Part(u) # Part(t)
      BY DEF SafeInv, AloneInv, MatesAreCrowded, Receiving
    <2>3. dir[Part(u)] # None /\ data[dir[Part(u)]] = Content[offer[u]]
      BY DEF SafeInv, AloneInv, VerifiedStays, Alone
    <2>4. data'[dir[Part(u)]] = data[dir[Part(u)]]
      BY <1>4, <1>6, <2>1, <2>2, <2>3 DEF PartInode
    <2> QED  BY <1>3, <2>1, <2>2, <2>3, <2>4
  <1>17. DestIsOwn'
    BY <1>1 DEF SafeInv, AloneInv, DestIsOwn, Alone, Named
  <1>18. DeliveredStays'
    <2> SUFFICES ASSUME NEW u \in Transfer, u # t, u \notin crowded, pc[u] = "done"
                 PROVE  /\ data'[dir'[dest[u]]] = Content[offer[u]]
                        /\ \A v \in Transfer : fd'[v] # dir'[dest[u]]
      BY <1>1 DEF DeliveredStays, Alone
    <2>1. /\ dest[u] \in Path /\ dest[u] # Part(t) /\ dir'[dest[u]] = dir[dest[u]]
          /\ dir[dest[u]] # i
      BY <1>4, <1>14 DEF Named
    <2>2. dir[dest[u]] \in Inode
      BY <2>1 DEF SafeInv, PlaceInv, TypeOK, AloneInv, DoneIsThere
    <2> QED  BY <1>1, <1>6, <2>1, <2>2 DEF SafeInv, AloneInv, DeliveredStays, Alone
  <1> QED
    BY <1>9, <1>10, <1>11, <1>12, <1>13, <1>15, <1>16, <1>17, <1>18
       DEF DirInv, AloneInv

\* A handler writes to the file it has open, wherever that is by now.
LEMMA WriteSafe ==
  ASSUME SafeInv, NEW t \in Transfer, ReceiveChunk(t)
  PROVE  DirInv' /\ AloneInv'
  <1>1. /\ pc[t] = "receive" /\ fd[t] # None /\ offer[t] \in File
        /\ \A j \in Inode : j # fd[t] => data'[j] = data[j]
        /\ UNCHANGED <<pc, dir, offer, fd, dest, crowded>>
    BY Paths DEF SafeInv, PlaceInv, TypeOK, OpenIsPlaced, AfterOpen, Receiving, ReceiveChunk
  <1>2. DirInv'
    BY <1>1 DEF SafeInv, DirInv, OnePath, InodeIsFresh, HandleAtPart, Part
  <1>3. MatesAreCrowded' /\ DestIsCandidate' /\ DoneIsThere' /\ DestIsOwn'
    BY <1>1 DEF SafeInv, AloneInv, MatesAreCrowded, DestIsCandidate, DoneIsThere,
                DestIsOwn, Alone, Part
  <1>4. VerifiedStays'
    <2> SUFFICES ASSUME NEW u \in Transfer, u \notin crowded, pc[u] \in {"pick", "rename"}
                 PROVE  /\ dir[Part(u)] # None
                        /\ data'[dir[Part(u)]] = Content[offer[u]]
      BY <1>1 DEF VerifiedStays, Alone, Part
    <2>1. PartInode(u) \in Inode \cup {None} /\ offer[u] \in File
      BY Paths DEF SafeInv, Receiving
    <2>2. Part(u) # Part(t)
      BY <1>1 DEF SafeInv, AloneInv, MatesAreCrowded, Receiving
    <2>3. dir[Part(u)] # fd[t]
      BY <1>1, <2>1, <2>2 DEF SafeInv, DirInv, HandleAtPart, Part
    <2> QED
      BY <1>1, <2>1, <2>3 DEF SafeInv, AloneInv, VerifiedStays, Alone, PartInode
  <1>5. DeliveredStays'
    <2> SUFFICES ASSUME NEW u \in Transfer, u \notin crowded, pc[u] = "done"
                 PROVE  data'[dir[dest[u]]] = data[dir[dest[u]]]
      BY <1>1 DEF SafeInv, AloneInv, DeliveredStays, Alone
    <2>1. dest[u] \in Path
      <3>1. dest[u] \in Dests(offer[u]) /\ Dests(offer[u]) \subseteq Path
        BY Paths DEF SafeInv, AloneInv, DestIsCandidate, Named
      <3> QED  BY <3>1
    <2>2. dir[dest[u]] \in Inode
      BY <2>1 DEF SafeInv, PlaceInv, TypeOK, AloneInv, DoneIsThere
    <2> QED  BY <1>1, <2>2 DEF SafeInv, AloneInv, DeliveredStays, Alone
  <1> QED  BY <1>2, <1>3, <1>4, <1>5 DEF AloneInv

\* A handler has read its .part back and found the offered hash.
LEMMA VerifySafe ==
  ASSUME SafeInv, NEW t \in Transfer, Verify(t)
  PROVE  DirInv' /\ AloneInv'
  <1>1. CASE data[PartInode(t)] # Content[offer[t]]
    <2>1. Goto(t, "discard")  BY <1>1 DEF Verify
    <2> QED
      BY <2>1, MoveSafe DEF Verify, xfer, Places, Busy, Receiving, BeforeOpen
  <1>2. CASE data[PartInode(t)] = Content[offer[t]]
    <2>1. /\ pc[t] = "verify" /\ pc'[t] = "pick"
          /\ \A u \in Transfer : u # t => pc'[u] = pc[u]
          /\ UNCHANGED <<dir, data, offer, fd, dest, crowded>>
          /\ PartInode(t) # None
      BY <1>2 DEF Verify, Goto, xfer, SafeInv, PlaceInv, TypeOK
    <2>2. \A u \in Transfer : Part(u)' = Part(u)  BY <2>1 DEF Part
    <2>3. OnePath' /\ HandleAtPart'
      BY <2>1, <2>2 DEF SafeInv, DirInv, OnePath, HandleAtPart
    <2>4. InodeIsFresh'  BY <2>1 DEF SafeInv, DirInv, InodeIsFresh, BeforeOpen
    <2>5. MatesAreCrowded'
      BY <2>1, <2>2 DEF SafeInv, AloneInv, MatesAreCrowded, Receiving
    <2>6. DestIsCandidate' /\ DoneIsThere' /\ DestIsOwn' /\ DeliveredStays'
      BY <2>1 DEF SafeInv, AloneInv, DestIsCandidate, DoneIsThere, DestIsOwn,
                  DeliveredStays, Named, Alone
    <2>7. VerifiedStays'
      BY <1>2, <2>1, <2>2 DEF SafeInv, AloneInv, VerifiedStays, Alone, PartInode
    <2> QED  BY <2>3, <2>4, <2>5, <2>6, <2>7 DEF DirInv, AloneInv
  <1> QED  BY <1>1, <1>2

\* A handler picks a destination at which there is nothing: it is that of no
\* completed transfer, and no other lone handler can have picked it.
LEMMA PickSafe ==
  ASSUME NamesApart, SafeInv, NEW t \in Transfer, UniqueDestPath(t)
  PROVE  DirInv' /\ AloneInv'
  <1>1. PICK p \in Dests(offer[t]) : dir[p] = None /\ dest' = [dest EXCEPT ![t] = p]
    BY DEF UniqueDestPath, Dests
  <1>2. /\ pc[t] = "pick" /\ pc'[t] = "rename" /\ dest'[t] = p
        /\ \A u \in Transfer : u # t => pc'[u] = pc[u] /\ dest'[u] = dest[u]
        /\ UNCHANGED <<dir, data, offer, fd, crowded>>
    BY <1>1 DEF UniqueDestPath, Goto, SafeInv, PlaceInv, TypeOK
  <1>3. \A u \in Transfer : Part(u)' = Part(u)  BY <1>2 DEF Part
  <1>4. OnePath' /\ HandleAtPart'
    BY <1>2, <1>3 DEF SafeInv, DirInv, OnePath, HandleAtPart
  <1>5. InodeIsFresh'  BY <1>2 DEF SafeInv, DirInv, InodeIsFresh, BeforeOpen
  <1>6. MatesAreCrowded'
    BY <1>2, <1>3 DEF SafeInv, AloneInv, MatesAreCrowded, Receiving
  <1>7. DestIsCandidate' /\ DoneIsThere'
    BY <1>2 DEF SafeInv, AloneInv, DestIsCandidate, DoneIsThere, Named
  <1>8. VerifiedStays'
    BY <1>2, <1>3 DEF SafeInv, AloneInv, VerifiedStays, Alone
  <1>9. DestIsOwn'
    <2>1. ASSUME NEW u \in Transfer, u # t, pc[u] \in Named,
                 t \notin crowded \/ u \notin crowded
          PROVE  dest[u] # p
      <3>1. CASE pc[u] = "done"
        BY <1>1, <3>1 DEF SafeInv, AloneInv, DoneIsThere
      <3>2. CASE pc[u] = "rename"
        <4>1. offer[t] \in File /\ offer[u] \in File
          BY <1>2, <3>2, Paths DEF SafeInv, Receiving
        <4>2. Part(t) # Part(u)
          BY <1>2, <2>1, <3>2 DEF SafeInv, AloneInv, MatesAreCrowded, Receiving
        <4>3. dest[u] \in Dests(offer[u])
          BY <2>1 DEF SafeInv, AloneInv, DestIsCandidate
        <4> QED  BY <1>1, <4>1, <4>2, <4>3 DEF NamesApart, Part
      <3> QED  BY <2>1, <3>1, <3>2 DEF Named
    <2> QED  BY <1>2, <2>1 DEF SafeInv, AloneInv, DestIsOwn, Alone, Named
  <1>10. DeliveredStays'
    BY <1>2 DEF SafeInv, AloneInv, DeliveredStays, Alone
  <1> QED
    BY <1>4, <1>5, <1>6, <1>7, <1>8, <1>9, <1>10 DEF DirInv, AloneInv

\* A handler renames its .part: nobody else has it open if it is alone.
LEMMA PromoteSafe ==
  ASSUME NamesApart, SafeInv, NEW t \in Transfer, Promote(t)
  PROVE  DirInv' /\ AloneInv'
  <1> DEFINE i == PartInode(t)
  <1>1. /\ pc[t] = "rename" /\ pc'[t] = "done" /\ fd'[t] = None
        /\ \A u \in Transfer : u # t => pc'[u] = pc[u] /\ fd'[u] = fd[u]
        /\ UNCHANGED <<data, offer, dest, crowded>>
        /\ i # None
    BY DEF Promote, End, Goto, SafeInv, PlaceInv, TypeOK
  <1>2. /\ offer[t] \in File /\ Part(t) \in Path /\ Part(t) = PartPath[offer[t]]
        /\ i \in Inode
    BY <1>1, Paths DEF SafeInv, Receiving, Part
  <1>3. /\ dest[t] \in Path /\ \A f \in File : dest[t] # PartPath[f]
    BY <1>1, PartIsNoDest DEF SafeInv, AloneInv, Named
  <1>4. /\ dir'[dest[t]] = i /\ dir'[Part(t)] = None
        /\ \A q \in Path : q # dest[t] /\ q # Part(t) => dir'[q] = dir[q]
    BY <1>2, <1>3 DEF Promote, SafeInv, PlaceInv, TypeOK
  <1>5. \A q \in Path : q # Part(t) => dir[q] # i
    BY <1>1, <1>2 DEF SafeInv, DirInv, OnePath, PartInode
  <1>6. \A u \in Transfer : Part(u)' = Part(u)  BY <1>1 DEF Part
  <1>7. \A f \in File : PartPath[f] \in Path  BY FileAssumption
  <1>8. OnePath'  BY <1>4, <1>5 DEF SafeInv, DirInv, OnePath
  <1>9. HandleAtPart'
    BY <1>1, <1>3, <1>4, <1>6, <1>7 DEF SafeInv, DirInv, HandleAtPart
  <1>10. InodeIsFresh'
    <2> SUFFICES ASSUME NEW v \in Transfer, v # t, pc[v] \in BeforeOpen
                 PROVE  /\ \A q \in Path : dir'[q] # v
                        /\ \A u \in Transfer : fd'[u] # v
      BY <1>1 DEF InodeIsFresh, BeforeOpen
    <2>1. v # None  BY NoneIsNoInode
    <2>2. i # v  BY <1>2 DEF SafeInv, DirInv, InodeIsFresh, PartInode
    <2> QED  BY <1>1, <1>4, <2>1, <2>2 DEF SafeInv, DirInv, InodeIsFresh
  <1>11. MatesAreCrowded'
    BY <1>1, <1>6 DEF SafeInv, AloneInv, MatesAreCrowded, Receiving
  <1>12. DestIsCandidate'
    BY <1>1 DEF SafeInv, AloneInv, DestIsCandidate, Named
  <1>13. \A u \in Transfer : pc[u] \in Named => dest[u] \in Path /\ dest[u] # Part(t)
    BY <1>2, PartIsNoDest DEF SafeInv, AloneInv
  <1>14. DoneIsThere'
    BY <1>1, <1>4, <1>13 DEF SafeInv, AloneInv, DoneIsThere, Named
  <1>15. VerifiedStays'
    <2> SUFFICES ASSUME NEW u \in Transfer, u # t, u \notin crowded,
                        pc[u] \in {"pick", "rename"}
                 PROVE  dir'[Part(u)] = dir[Part(u)]
      BY <1>1, <1>6 DEF SafeInv, AloneInv, VerifiedStays, Alone
    <2>1. Part(u) \in Path /\ offer[u] \in File  BY Paths DEF SafeInv, Receiving
    <2>2. Part(u) # Part(t)
      BY <1>1 DEF SafeInv, AloneInv, MatesAreCrowded, Receiving
    <2>3. Part(u) # dest[t]  BY <1>3, <2>1 DEF Part
    <2> QED  BY <1>4, <2>1, <2>2, <2>3
  <1>16. DestIsOwn'
    BY <1>1 DEF SafeInv, AloneInv, DestIsOwn, Alone, Named
  <1>17. DeliveredStays'
    <2>1. ASSUME t \notin crowded
          PROVE  /\ data[i] = Content[offer[t]]
                 /\ \A u \in Transfer : fd'[u] # i
      <3>1. data[i] = Content[offer[t]]
        BY <1>1, <2>1 DEF SafeInv, AloneInv, VerifiedStays, Alone, PartInode
      <3>2. ASSUME NEW u \in Transfer, u # t, fd[u] = i PROVE FALSE
        <4>1. Part(u) = Part(t)
          BY <1>1, <1>2, <3>2 DEF SafeInv, DirInv, HandleAtPart, PartInode
        <4>2. pc[u] \in Receiving
          BY <1>1, <3>2 DEF SafeInv, PlaceInv, OpenIsPlaced, AfterOpen, Receiving
        <4> QED
          BY <1>1, <2>1, <3>2, <4>1, <4>2
             DEF SafeInv, AloneInv, MatesAreCrowded, Receiving
      <3> QED  BY <1>1, <3>1, <3>2
    <2>2. ASSUME NEW u \in Transfer, u # t, u \notin crowded, pc[u] = "done"
          PROVE  /\ data[dir'[dest[u]]] = Content[offer[u]]
                 /\ \A v \in Transfer : fd'[v] # dir'[dest[u]]
      <3>1. dest[u] # dest[t]
        BY <1>1, <2>2 DEF SafeInv, AloneInv, DestIsOwn, Alone, Named
      <3>2. dir'[dest[u]] = dir[dest[u]] /\ dir[dest[u]] # None
        BY <1>4, <1>13, <2>2, <3>1 DEF SafeInv, AloneInv, DoneIsThere, Named
      <3> QED  BY <1>1, <2>2, <3>2 DEF SafeInv, AloneInv, DeliveredStays, Alone
    <2> QED  BY <1>1, <1>4, <2>1, <2>2 DEF DeliveredStays, Alone
  <1> QED
    BY <1>8, <1>9, <1>10, <1>11, <1>12, <1>14, <1>15, <1>16, <1>17
       DEF DirInv, AloneInv

-----------------------------------------------------------------------------
LEMMA SafeInit == Init => SafeInv
  <1> SUFFICES ASSUME Init PROVE SafeInv  OBVIOUS
  <1>1. /\ \A t \in Transfer : pc[t] = "new" /\ fd[t] = None
        /\ \A p \in Path : dir[p] = IF p \in Existing THEN p ELSE None
    BY DEF Init
  <1>2. OnePath /\ HandleAtPart  BY <1>1 DEF OnePath, HandleAtPart
  <1>3. InodeIsFresh  BY <1>1, InodeAssumption DEF InodeIsFresh
  <1>4. AloneInv
    BY <1>1 DEF AloneInv, MatesAreCrowded, DestIsCandidate, DoneIsThere, VerifiedStays,
                DestIsOwn, DeliveredStays, Alone, Named, Receiving
  <1> QED  BY <1>2, <1>3, <1>4, PlaceInit DEF SafeInv, DirInv

LEMMA SafeStep == NamesApart /\ SafeInv /\ [Next]_vars => SafeInv'
  <1> SUFFICES ASSUME NamesApart, SafeInv, [Next]_vars PROVE DirInv' /\ AloneInv'
    BY PlaceStep DEF SafeInv
  <1>1. CASE UNCHANGED vars
    BY <1>1 DEF vars, xfer, SafeInv, DirInv, OnePath, InodeIsFresh, HandleAtPart,
                AloneInv, MatesAreCrowded, DestIsCandidate, DoneIsThere, VerifiedStays,
                DestIsOwn, DeliveredStays, Alone, Part
  <1> SUFFICES ASSUME NEW t \in Transfer,
                      \/ Accept(t) \/ TooManyPending(t) \/ PairAccepted(t)
                      \/ PairRefused(t)
                      \/ \E f \in File : FileOffer(t, f) \/ FileTooBig(t, f)
                      \/ HandlerStep(t)
                      \/ SourceShrinks(t) \/ ConnectionBreaks(t) \/ PeerCloses(t)
               PROVE  DirInv' /\ AloneInv'
    BY <1>1 DEF Next
  <1>2. CASE \/ Accept(t) \/ TooManyPending(t) \/ PairAccepted(t) \/ SourceShrinks(t)
             \/ PeerCloses(t) \/ PartExists(t) \/ StatPart(t) \/ ReceiveDone(t)
    BY <1>2, MoveSafe
       DEF Accept, TooManyPending, PairAccepted, SourceShrinks, PeerCloses, PartExists,
           StatPart, ReceiveDone, xfer, Places, Busy, Receiving, BeforeOpen
  <1>3. CASE \/ PairRefused(t) \/ \E f \in File : FileTooBig(t, f)
             \/ PartGone(t) \/ ConnectionBreaks(t) \/ Discard(t)
    BY <1>3, LeaveSafe DEF PairRefused, FileTooBig, PartGone, ConnectionBreaks, Discard
  <1>4. CASE OpenAppend(t)
    <2>1. dir' = [dir EXCEPT ![Part(t)] = PartInode(t)]
      BY <1>4 DEF OpenAppend, PartInode, SafeInv, PlaceInv, TypeOK
    <2> QED  BY <1>4, <2>1, OpenSafe DEF OpenAppend
  <1>5. CASE CreatePart(t)  BY <1>5, OpenSafe DEF CreatePart
  <1> QED
    BY <1>2, <1>3, <1>4, <1>5, OfferSafe, WriteSafe, VerifySafe, PickSafe, PromoteSafe
       DEF HandlerStep

-----------------------------------------------------------------------------
(* What no step may touch.                                                 *)

\* A final path: no .part, nobody has its file open or is about to rename one
\* over it.
Final(p) ==
    /\ p \in Path /\ \A f \in File : p # PartPath[f]
    /\ dir[p] \in Inode
    /\ \A u \in Transfer : fd[u] # dir[p] /\ (pc[u] = "rename" => dest[u] # p)

\* The files that were there before are at final paths.
OldAreFinal == \A p \in Existing : Final(p)

\* No step changes what is at a final path.
LEMMA FinalIsKept ==
  ASSUME NamesApart, SafeInv, [Next]_vars, NEW p, Final(p)
  PROVE  dir'[p] = dir[p] /\ data'[dir[p]] = data[dir[p]]
  <1>1. CASE UNCHANGED vars  BY <1>1 DEF vars
  <1> SUFFICES ASSUME NEW t \in Transfer,
                      \/ Accept(t) \/ TooManyPending(t) \/ PairAccepted(t)
                      \/ PairRefused(t)
                      \/ \E f \in File : FileOffer(t, f) \/ FileTooBig(t, f)
                      \/ HandlerStep(t)
                      \/ SourceShrinks(t) \/ ConnectionBreaks(t) \/ PeerCloses(t)
               PROVE  dir'[p] = dir[p] /\ data'[dir[p]] = data[dir[p]]
    BY <1>1 DEF Next
  <1>2. pc[t] \in Receiving => Part(t) # p /\ Part(t) \in Path
    BY Paths DEF SafeInv, Part, Final
  <1>3. dir \in [Path -> Inode \cup {None}] /\ data \in [Inode -> Seq(Chunk \cup {Hole})]
    BY DEF SafeInv, PlaceInv, TypeOK
  <1>4. CASE CreatePart(t)
    <2>1. PartInode(t) # None => PartInode(t) # dir[p]
      BY <1>2, <1>4 DEF CreatePart, Receiving, Final, PartInode, SafeInv, DirInv, OnePath
    <2>2. t # dir[p]
      BY <1>4 DEF CreatePart, Final, SafeInv, DirInv, InodeIsFresh, BeforeOpen
    <2> QED  BY <1>2, <1>3, <1>4, <2>1, <2>2 DEF CreatePart, Receiving, Final
  <1>5. CASE ReceiveChunk(t)  BY <1>3, <1>5 DEF ReceiveChunk, Final
  <1>6. CASE Discard(t)  BY <1>2, <1>3, <1>6 DEF Discard, Receiving, Final
  <1>7. CASE Promote(t)  BY <1>2, <1>3, <1>7 DEF Promote, Receiving, Final
  <1> QED
    BY <1>4, <1>5, <1>6, <1>7
       DEF HandlerStep, Accept, TooManyPending, PairAccepted, PairRefused, FileOffer,
           FileTooBig, SourceShrinks, ConnectionBreaks, PeerCloses, PartExists, StatPart,
           OpenAppend, PartGone, ReceiveDone, Verify, UniqueDestPath

\* A path that is final stays so: no handler opens its file or picks it.
LEMMA FinalStays ==
  ASSUME NamesApart, SafeInv, [Next]_vars, NEW p, Final(p)
  PROVE  Final(p)'
  <1>1. dir'[p] = dir[p]  BY FinalIsKept
  <1> SUFFICES ASSUME NEW u \in Transfer
               PROVE  fd'[u] # dir[p] /\ (pc'[u] = "rename" => dest'[u] # p)
    BY <1>1 DEF Final
  <1>2. CASE UNCHANGED vars  BY <1>2 DEF vars, xfer, Final
  <1> SUFFICES ASSUME NEW t \in Transfer,
                      \/ Accept(t) \/ TooManyPending(t) \/ PairAccepted(t)
                      \/ PairRefused(t)
                      \/ \E f \in File : FileOffer(t, f) \/ FileTooBig(t, f)
                      \/ HandlerStep(t)
                      \/ SourceShrinks(t) \/ ConnectionBreaks(t) \/ PeerCloses(t)
               PROVE  fd'[u] # dir[p] /\ (pc'[u] = "rename" => dest'[u] # p)
    BY <1>2 DEF Next
  <1>3. dir[p] # None  BY NoneIsNoInode DEF Final
  <1>4. /\ pc \in [Transfer -> Places] /\ fd \in [Transfer -> Inode \cup {None}]
        /\ dest \in [Transfer -> Path \cup {None}]
    BY DEF SafeInv, PlaceInv, TypeOK
  <1>5. CASE OpenAppend(t) \/ CreatePart(t)
    <2>1. Part(t) # p /\ Part(t) \in Path
      BY <1>5, Paths DEF OpenAppend, CreatePart, Receiving, SafeInv, Part, Final
    <2>2. PartInode(t) # dir[p]
      BY <1>3, <2>1 DEF Final, PartInode, SafeInv, DirInv, OnePath
    <2>3. t # dir[p]
      BY <1>5 DEF OpenAppend, CreatePart, Final, SafeInv, DirInv, InodeIsFresh, BeforeOpen
    <2> QED
      BY <1>4, <1>5, <2>2, <2>3 DEF OpenAppend, CreatePart, Goto, Final
  <1>6. CASE UniqueDestPath(t)
    BY <1>3, <1>4, <1>6 DEF UniqueDestPath, Goto, Final
  <1>7. CASE \/ PairRefused(t) \/ \E f \in File : FileTooBig(t, f)
             \/ PartGone(t) \/ ConnectionBreaks(t) \/ Discard(t) \/ Promote(t)
    BY <1>3, <1>4, <1>7
       DEF PairRefused, FileTooBig, PartGone, ConnectionBreaks, Discard, Promote, End,
           Goto, Final
  <1> QED
    BY <1>4, <1>5, <1>6, <1>7
       DEF HandlerStep, Accept, TooManyPending, PairAccepted, FileOffer, SourceShrinks,
           PeerCloses, PartExists, StatPart, ReceiveDone, ReceiveChunk, Verify, xfer,
           Goto, Final

LEMMA OldInit == NoPartBefore /\ Init => OldAreFinal
  <1> SUFFICES ASSUME NoPartBefore, Init, NEW p \in Existing PROVE Final(p)
    BY DEF OldAreFinal
  <1>1. p \in Path /\ p \in Inode /\ p # None
    BY FileAssumption, NoneIsNoInode DEF Inode
  <1> QED  BY <1>1 DEF Init, Final, NoPartBefore

LEMMA OldStep == NamesApart /\ SafeInv /\ OldAreFinal /\ [Next]_vars => OldAreFinal'
  <1> SUFFICES ASSUME NamesApart, SafeInv, OldAreFinal, [Next]_vars, NEW p \in Existing
               PROVE  Final(p)'
    BY DEF OldAreFinal
  <1> QED  BY FinalStays DEF OldAreFinal

-----------------------------------------------------------------------------
(* The theorems.                                                           *)

\* The variables keep their types, and the permits stay between none and all:
\* every way out of handle_transfer returns the one it holds.
THEOREM TypeCorrect == Spec => []TypeOK
  <1>1. PlaceInv => TypeOK  BY DEF PlaceInv
  <1> QED  BY <1>1, PlaceInit, PlaceStep, PTL DEF Spec

\* The conjunction that makes them inductive.
THEOREM Invariance == NamesApart /\ Spec => []SafeInv
  <1>1. NamesApart => NamesApart'  BY DEF NamesApart, Dests
  <1> QED  BY <1>1, SafeInit, SafeStep, PTL DEF Spec

\* If no two names interfere, FileComplete is true for every transfer that had
\* its .part to itself: the file is in the directory, with the content its
\* client hashed, at a path no other transfer was given.
THEOREM LoneIsDelivered == NamesApart /\ Spec => []AloneIsDelivered
  <1>1. SafeInv => AloneIsDelivered
    BY DEF SafeInv, AloneInv, DoneIsThere, DestIsOwn, DeliveredStays, AloneIsDelivered,
           Delivered, Completed, Alone, Named
  <1> QED  BY <1>1, Invariance, PTL

\* If moreover no .part was left over from an earlier run, a file that was there
\* before, or that a lone transfer delivered, is never renamed, removed,
\* replaced or written to.
THEOREM FilesAreKept == NamesApart /\ NoPartBefore /\ Spec => FinalFilesAreKept
  <1>1. NamesApart /\ NoPartBefore => (NamesApart /\ NoPartBefore)'
    BY DEF NamesApart, NoPartBefore, Dests
  <1>2. ASSUME NamesApart, SafeInv, OldAreFinal, [Next]_vars
        PROVE  \A p \in Existing \cup {dest[t] : t \in Completed \cap Alone} :
                 dir'[p] = dir[p] /\ data'[dir[p]] = data[dir[p]]
    <2>1. ASSUME NEW t \in Completed \cap Alone PROVE Final(dest[t])
      <3>1. t \in Transfer /\ t \notin crowded /\ pc[t] = "done"
        BY DEF Completed, Alone
      <3>2. dest[t] \in Path /\ \A f \in File : dest[t] # PartPath[f]
        BY <1>2, <3>1, PartIsNoDest DEF SafeInv, AloneInv, Named
      <3>3. dir[dest[t]] \in Inode
        BY <1>2, <3>1, <3>2 DEF SafeInv, PlaceInv, TypeOK, AloneInv, DoneIsThere
      <3>4. \A u \in Transfer : fd[u] # dir[dest[t]]
        BY <1>2, <3>1 DEF SafeInv, AloneInv, DeliveredStays, Alone
      <3>5. \A u \in Transfer : pc[u] = "rename" => dest[u] # dest[t]
        BY <1>2, <3>1 DEF SafeInv, AloneInv, DestIsOwn, Alone, Named
      <3> QED  BY <3>2, <3>3, <3>4, <3>5 DEF Final
    <2> QED  BY <1>2, <2>1, FinalIsKept DEF OldAreFinal
  <1> QED
    BY <1>1, <1>2, Invariance, OldInit, OldStep, PTL DEF Spec, FinalFilesAreKept
=============================================================================
