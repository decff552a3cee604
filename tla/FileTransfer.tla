---------------------------- MODULE FileTransfer ----------------------------
(***************************************************************************)
(* The file channel: the accept loop and handle_transfer of the server     *)
(* (server/src/file_transfer.rs), fed by send_file of the client.          *)
(*                                                                         *)
(* The downloads directory maps paths to inodes and an inode keeps its     *)
(* data however it is renamed, so a handler goes on writing to the file it *)
(* opened.  Handlers run concurrently and share nothing but the directory  *)
(* and the permits; every system call on the directory is a step.  A file  *)
(* is a sequence of chunks, and its hash is its content.                   *)
(***************************************************************************)
EXTENDS Integers, Sequences, FiniteSets

CONSTANTS Transfer,    \* accepted connections
          File,        \* what clients may offer
          Content,     \* File -> the chunks of the file
          Path,        \* paths of the downloads directory
          PartPath,    \* File -> the .part path of its sanitized name
          DestPaths,   \* File -> "name", "name (1)", "name (2)", ...
          Existing,    \* paths of files that were there before
          MaxFileSize, \* config.max_file_size, 0 for no limit
          MaxPending,  \* MAX_PENDING_CONNECTIONS
          None         \* no inode, no file, no path

Chunk == UNION {{Content[f][i] : i \in 1..Len(Content[f])} : f \in File}
Hole  == 0

ASSUME FileAssumption == /\ \A f \in File : Content[f] \in Seq(Chunk)
                         /\ PartPath \in [File -> Path]
                         /\ DestPaths \in [File -> Seq(Path)]
                         /\ Existing \subseteq Path
ASSUME BoundAssumption == /\ MaxFileSize \in Nat /\ MaxPending \in Nat
                          /\ IsFiniteSet(Transfer) /\ Hole \notin Chunk
ASSUME InodeAssumption == /\ Transfer \cap Existing = {}
                          /\ None \notin Transfer \cup Path \cup File

\* A transfer creates at most one file, which is then named after it; an
\* existing file is named after its path.
Inode == Transfer \cup Existing

VARIABLES pc,      \* where each handler stands
          permits, \* free permits of pending_connections
          dir,     \* the downloads directory
          data,    \* what each inode holds
          offer,   \* the file a transfer offered
          fd,      \* the inode a handler writes to
          appends, \* handlers that opened it for appending
          start,   \* start_offset
          got,     \* received_bytes
          dest,    \* final_path
          crowded  \* history: transfers whose .part another one used too

xfer == <<offer, fd, appends, start, got, dest, crowded>>
vars == <<pc, permits, dir, data, xfer>>

Receiving == {"exists", "stat", "append", "create", "receive", "starved",
              "verify", "pick", "rename", "discard"}
Busy      == {"handshake", "offer"} \cup Receiving
Places    == {"new", "closed", "done"} \cup Busy

TypeOK ==
    /\ pc \in [Transfer -> Places]
    /\ permits \in 0..MaxPending
    /\ dir \in [Path -> Inode \cup {None}]
    /\ data \in [Inode -> Seq(Chunk \cup {Hole})]
    /\ offer \in [Transfer -> File \cup {None}]
    /\ fd \in [Transfer -> Inode \cup {None}]
    /\ appends \subseteq Transfer
    /\ start \in [Transfer -> Nat]
    /\ got \in [Transfer -> Nat]
    /\ dest \in [Transfer -> Path \cup {None}]
    /\ crowded \subseteq Transfer

\* What is in an existing file is nobody's content; one hole stands for it.
Init ==
    /\ pc = [t \in Transfer |-> "new"]
    /\ permits = MaxPending
    /\ dir = [p \in Path |-> IF p \in Existing THEN p ELSE None]
    /\ data = [i \in Inode |-> IF i \in Existing THEN <<Hole>> ELSE <<>>]
    /\ offer = [t \in Transfer |-> None]
    /\ fd = [t \in Transfer |-> None]
    /\ appends = {}
    /\ start = [t \in Transfer |-> 0]
    /\ got = [t \in Transfer |-> 0]
    /\ dest = [t \in Transfer |-> None]
    /\ crowded = {}

\* The size that send_file offers; it hashes the same file.
Size(t)      == Len(Content[offer[t]])
Part(t)      == PartPath[offer[t]]
PartInode(t) == dir[Part(t)]
Goto(t, place) == pc' = [pc EXCEPT ![t] = place]

\* The task ends and drops its permit, which it holds for the whole transfer,
\* and its variables; what a completed one delivered where is kept for the
\* properties.
End(t, place) ==
    /\ Goto(t, place)
    /\ permits' = permits + 1
    /\ fd' = [fd EXCEPT ![t] = None]
    /\ appends' = appends \ {t}
    /\ start' = [start EXCEPT ![t] = 0]
    /\ got' = [got EXCEPT ![t] = 0]
    /\ IF place = "done" THEN UNCHANGED <<offer, dest, crowded>>
       ELSE /\ offer' = [offer EXCEPT ![t] = None]
            /\ dest' = [dest EXCEPT ![t] = None]
            /\ crowded' = crowded \ {t}

-----------------------------------------------------------------------------
(* The accept loop and the handshake.                                      *)

Accept(t) ==
    /\ pc[t] = "new" /\ permits > 0
    /\ permits' = permits - 1
    /\ Goto(t, "handshake")
    /\ UNCHANGED <<dir, data, xfer>>

TooManyPending(t) ==
    /\ pc[t] = "new" /\ permits = 0
    /\ Goto(t, "closed")
    /\ UNCHANGED <<permits, dir, data, xfer>>

\* The TLS handshake is over and a PairRequest names a paired device.
PairAccepted(t) ==
    /\ pc[t] = "handshake"
    /\ Goto(t, "offer")
    /\ UNCHANGED <<permits, dir, data, xfer>>

\* A timeout or an error before that, or an unpaired device.
PairRefused(t) ==
    /\ pc[t] = "handshake"
    /\ End(t, "closed")
    /\ UNCHANGED <<dir, data>>

\* Handlers that are at work on the .part of f.
Mates(f) == {u \in Transfer : pc[u] \in Receiving /\ Part(u) = PartPath[f]}

\* A FileOffer within the size limit; the directory is created if missing.
FileOffer(t, f) ==
    /\ pc[t] = "offer"
    /\ MaxFileSize = 0 \/ Len(Content[f]) <= MaxFileSize
    /\ offer' = [offer EXCEPT ![t] = f]
    /\ crowded' = crowded \cup Mates(f) \cup (IF Mates(f) = {} THEN {} ELSE {t})
    /\ Goto(t, "exists")
    /\ UNCHANGED <<permits, dir, data, fd, appends, start, got, dest>>

\* One above the limit is rejected and the handler returns.
FileTooBig(t, f) ==
    /\ pc[t] = "offer"
    /\ MaxFileSize # 0 /\ Len(Content[f]) > MaxFileSize
    /\ End(t, "closed")
    /\ UNCHANGED <<dir, data>>

-----------------------------------------------------------------------------
(* Opening the .part file: resume if it is shorter than the offer.         *)

PartExists(t) ==
    /\ pc[t] = "exists"
    /\ Goto(t, IF PartInode(t) = None THEN "create" ELSE "stat")
    /\ UNCHANGED <<permits, dir, data, xfer>>

StatPart(t) ==
    /\ pc[t] = "stat" /\ PartInode(t) # None
    /\ LET size == Len(data[PartInode(t)]) IN
         IF size < Size(t)
           THEN /\ Goto(t, "append")
                /\ start' = [start EXCEPT ![t] = size]
           ELSE /\ Goto(t, "create")
                /\ UNCHANGED start
    /\ UNCHANGED <<permits, dir, data, offer, fd, appends, got, dest, crowded>>

\* Without create(true), so the file must still be there.
OpenAppend(t) ==
    /\ pc[t] = "append" /\ PartInode(t) # None
    /\ fd' = [fd EXCEPT ![t] = PartInode(t)]
    /\ appends' = appends \cup {t}
    /\ got' = [got EXCEPT ![t] = start[t]]
    /\ Goto(t, "receive")
    /\ UNCHANGED <<permits, dir, data, offer, start, dest, crowded>>

\* File::create: a new file, or the old one cut to nothing.
CreatePart(t) ==
    /\ pc[t] = "create"
    /\ LET inode == IF PartInode(t) = None THEN t ELSE PartInode(t) IN
         /\ dir' = [dir EXCEPT ![Part(t)] = inode]
         /\ data' = [data EXCEPT ![inode] = <<>>]
         /\ fd' = [fd EXCEPT ![t] = inode]
    /\ Goto(t, "receive")
    /\ UNCHANGED <<permits, offer, appends, start, got, dest,
                   crowded>>

\* The path vanished under one of the calls above or below: the error ends
\* the handler, and whatever is in the directory stays.
PartGone(t) ==
    /\ pc[t] \in {"stat", "append", "verify", "rename"}
    /\ PartInode(t) = None
    /\ End(t, "closed")
    /\ UNCHANGED <<dir, data>>

-----------------------------------------------------------------------------
(* Receiving.                                                              *)

\* A file after chunk b is written at offset pos: beyond the end is a hole.
WriteAt(s, pos, b) ==
    [i \in 1..(IF pos < Len(s) THEN Len(s) ELSE pos + 1) |->
        IF i = pos + 1 THEN b ELSE IF i <= Len(s) THEN s[i] ELSE Hole]

\* send_file seeks to start_offset and sends what follows, in order.
ClientChunk(t) == Content[offer[t]][got[t] + 1]

\* The next chunk, appended or written where the handler's offset stands.
ReceiveChunk(t) ==
    /\ pc[t] = "receive" /\ got[t] < Size(t)
    /\ LET s == data[fd[t]] IN
         data' = [data EXCEPT ![fd[t]] = IF t \in appends
                                           THEN Append(s, ClientChunk(t))
                                           ELSE WriteAt(s, got[t], ClientChunk(t))]
    /\ got' = [got EXCEPT ![t] = @ + 1]
    /\ UNCHANGED <<pc, permits, dir, offer, fd, appends, start, dest, crowded>>

\* The client's file was cut short after it was hashed: send_file reaches its
\* end, keeps the connection open and waits for a verdict, while the handler
\* waits for the rest.  Neither has a deadline.
SourceShrinks(t) ==
    /\ pc[t] = "receive" /\ got[t] < Size(t)
    /\ Goto(t, "starved")
    /\ UNCHANGED <<permits, dir, data, xfer>>

\* Mutant: the loop leaves only when more has come than was offered.
ReceiveDoneLate(t) ==
    /\ pc[t] = "receive" /\ got[t] > Size(t)
    /\ Goto(t, "verify")
    /\ UNCHANGED <<permits, dir, data, xfer>>

\* Everything offered has come, or, for an empty rest, at once.
ReceiveDone(t) ==
    /\ pc[t] = "receive" /\ got[t] = Size(t)
    /\ Goto(t, "verify")
    /\ UNCHANGED <<permits, dir, data, xfer>>

\* The connection breaks, or FileAccept cannot be sent: the .part stays.
ConnectionBreaks(t) ==
    /\ pc[t] \in {"offer", "receive", "starved"}
    /\ End(t, "closed")
    /\ UNCHANGED <<dir, data>>

\* The peer closes its side properly before the end: received_bytes is
\* short, and the .part is to be removed.
PeerCloses(t) ==
    /\ pc[t] \in {"receive", "starved"} /\ got[t] < Size(t)
    /\ Goto(t, "discard")
    /\ UNCHANGED <<permits, dir, data, xfer>>

-----------------------------------------------------------------------------
(* Verifying and promoting.                                                *)

\* Mutant: the length is taken for the hash.
VerifyLength(t) ==
    /\ pc[t] = "verify" /\ PartInode(t) # None
    /\ Goto(t, IF Len(data[PartInode(t)]) = Size(t) THEN "pick" ELSE "discard")
    /\ UNCHANGED <<permits, dir, data, xfer>>

\* Read the .part path back and compare its hash with the offer's; the reads
\* of one verification are one step.
Verify(t) ==
    /\ pc[t] = "verify" /\ PartInode(t) # None
    /\ Goto(t, IF data[PartInode(t)] = Content[offer[t]] THEN "pick" ELSE "discard")
    /\ UNCHANGED <<permits, dir, data, xfer>>

\* remove_file, whose failure is ignored, and FileReject.
Discard(t) ==
    /\ pc[t] = "discard"
    /\ dir' = [dir EXCEPT ![Part(t)] = None]
    /\ End(t, "closed")
    /\ UNCHANGED data

\* Mutant: the file goes under its own name, whatever is there.
PlainDestPath(t) ==
    /\ pc[t] = "pick"
    /\ dest' = [dest EXCEPT ![t] = DestPaths[offer[t]][1]]
    /\ Goto(t, "rename")
    /\ UNCHANGED <<permits, dir, data, offer, fd, appends, start, got, crowded>>

\* unique_dest_path: the first candidate at which there is nothing.
UniqueDestPath(t) ==
    /\ pc[t] = "pick"
    /\ \E i \in 1..Len(DestPaths[offer[t]]) :
         LET p == DestPaths[offer[t]] IN
         /\ dir[p[i]] = None
         /\ \A j \in 1..(i - 1) : dir[p[j]] # None
         /\ dest' = [dest EXCEPT ![t] = p[i]]
    /\ Goto(t, "rename")
    /\ UNCHANGED <<permits, dir, data, offer, fd, appends, start, got, crowded>>

\* rename replaces what is at the destination; then FileComplete.
Promote(t) ==
    /\ pc[t] = "rename" /\ PartInode(t) # None
    /\ dir' = [dir EXCEPT ![dest[t]] = PartInode(t), ![Part(t)] = None]
    /\ End(t, "done")
    /\ UNCHANGED data

\* What a handler does on its own once it has an offer.
HandlerStep(t) ==
    \/ PartExists(t) \/ StatPart(t) \/ OpenAppend(t) \/ CreatePart(t) \/ PartGone(t)
    \/ ReceiveChunk(t) \/ ReceiveDone(t)
    \/ Verify(t) \/ Discard(t) \/ UniqueDestPath(t) \/ Promote(t)

Next ==
    \E t \in Transfer :
        \/ Accept(t) \/ TooManyPending(t) \/ PairAccepted(t) \/ PairRefused(t)
        \/ \E f \in File : FileOffer(t, f) \/ FileTooBig(t, f)
        \/ HandlerStep(t)
        \/ SourceShrinks(t) \/ ConnectionBreaks(t) \/ PeerCloses(t)

\* Handlers run, and a client that still has something to send sends it.
Fairness == \A t \in Transfer : WF_vars(HandlerStep(t))

Spec == Init /\ [][Next]_vars /\ Fairness

-----------------------------------------------------------------------------
(* Properties.                                                             *)

\* A transfer that was offered ends, and its permit is free again, whatever the
\* others do to its .part, unless its source was cut short after it was
\* hashed: then client and server wait for each other.
TransfersEnd ==
    \A t \in Transfer :
        (pc[t] \in Receiving) ~> (pc[t] \in {"closed", "done", "starved"})

\* Transfers that had their .part to themselves from the offer to the end.
Alone == Transfer \ crowded

\* Completed transfers: FileComplete has been sent.
Completed == {t \in Transfer : pc[t] = "done"}

\* "Never overwrites or deletes an existing file" (unique_dest_path): a file
\* that was there before, or was delivered by a transfer on its own, keeps
\* its place and its content for ever, whatever later transfers of its name
\* do to each other.
FinalFilesAreKept ==
    [][\A p \in Existing \cup {dest[t] : t \in Completed \cap Alone} :
          dir'[p] = dir[p] /\ data'[dir[p]] = data[dir[p]]]_vars

\* FileComplete is sent "once the hash verifies": a transfer that was
\* completed is in the downloads directory, with the content its client
\* hashed, at a path no other transfer was given.
Delivered(t) ==
    /\ dir[dest[t]] # None
    /\ data[dir[dest[t]]] = Content[offer[t]]
    /\ \A u \in Completed \ {t} : dest[u] # dest[t]

\* ... which holds of every transfer that had its .part to itself, though
\* others run beside it and what it resumed was left by any file of its name.
AloneIsDelivered == \A t \in Completed \cap Alone : Delivered(t)
=============================================================================
