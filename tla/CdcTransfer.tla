---------------------------- MODULE CdcTransfer ----------------------------
(***************************************************************************)
(* Block-level (CDC) transfer of one file between two Stashbird peers.     *)
(*                                                                         *)
(* The receiving side runs requestFileViaStream (network/transfer.go) once *)
(* per transfer, each on a yamux stream of its own; the sending side       *)
(* answers with the CDC branch of handleRequestMessage                     *)
(* (network/handlers.go).  Several transfers of the same path may overlap: *)
(* every index message of every peer starts its own goroutines, and all of *)
(* them share one temporary file, one destination and one block store.     *)
(*                                                                         *)
(* Data.  A file is a sequence of blocks; the position of a block stands   *)
(* for its byte offset, the block for its bytes, and -- BLAKE3 having no   *)
(* collision in the model -- for its hash too.  Zero is a hole: what       *)
(* Truncate and a WriteAt past the end leave behind.  Absent is the value  *)
(* of a file that does not exist.                                          *)
(***************************************************************************)
EXTENDS Naturals, Sequences, FiniteSets

CONSTANTS
  Transfers,              \* the goroutines that receive the path
  Block,                  \* block contents, which are also their hashes
  Zero,                   \* a hole in a file
  Absent,                 \* no file
  Dest,                   \* the file being received
  OtherFiles,             \* further files of the receiver's folders
  SourceContents,         \* contents the sender's file may have
  LocalContents,          \* contents users of the receiver write
  IntegrityCheckEnabled,  \* cfg.IntegrityCheckEnabled
  VersioningEnabled,      \* versionMgr.IsEnabled()
  RenameAttempts,         \* tries of atomicRenameWithRetry: 5 in the code
  MaxParallel,            \* bound: transfers of the path running at once
  MaxRequests,            \* bound: transfers of the path in all
  MaxSourceEdits,         \* bound: edits of the sender's file
  MaxLocalEdits,          \* bound: edits of the receiver's files
  MaxCrashes              \* bound: restarts of the receiver

Paths == {Dest} \cup OtherFiles

File == Seq(Block \cup {Zero})

ASSUME BlockAssumption == Zero \notin Block /\ Absent \notin File
ASSUME PathAssumption == Dest \notin OtherFiles
ASSUME ContentAssumption ==
  /\ SourceContents \subseteq Seq(Block) \ {<<>>}
  /\ LocalContents \subseteq Seq(Block)
ASSUME FlagAssumption ==
  IntegrityCheckEnabled \in BOOLEAN /\ VersioningEnabled \in BOOLEAN
ASSUME BoundAssumption ==
  /\ RenameAttempts \in Nat \ {0}
  /\ MaxParallel \in Nat /\ MaxRequests \in Nat /\ MaxSourceEdits \in Nat
  /\ MaxLocalEdits \in Nat /\ MaxCrashes \in Nat

VARIABLES
  src,          \* the sender's file
  disk,         \* the receiver's files: path -> content or Absent
  tmp,          \* .syncthing.<name>.tmp, the one temporary file of Dest
  store,        \* the receiver's block store: hash -> [path, pos] or Absent
  versions,     \* contents of Dest kept by the version manager
  index,        \* what the receiver's watcher index says Dest contains
  status,       \* file status shown for Dest
  rpc,          \* receiver's place in requestFileViaStream, per transfer
  map,          \* blocks announced in the transfer's BlockMap
  size,         \* FileSize announced in the transfer's BlockMap
  missing,      \* hashes processBlockMap did not find, the neededSet
  need,         \* NeededHashs of the transfer
  extra,        \* extraNeeded while prepareFileForCDC runs
  pre,          \* position prepareFileForCDC has reached
  handle,       \* the file the transfer's open descriptor refers to
  tries,        \* failed attempts of atomicRenameWithRetry
  spc,          \* sender's place in handleRequestMessage, per transfer
  pos,          \* needed hashes the sender has gone through
  sent,         \* sentCount
  net,          \* BlockData messages on the stream, in order
  announced,    \* history: contents some BlockMap announced
  requests, srcEdits, localEdits, crashes   \* counters of the bounded actions

fileVars == <<disk, tmp, store, versions>>
shownVars == <<index, status>>
mapVars == <<map, size>>
askVars == <<missing, need, extra, pre>>
recvVars == <<rpc, mapVars, askVars, handle, tries>>
sendVars == <<src, spc, pos, sent>>
envVars == <<requests, srcEdits, localEdits, crashes>>
vars == <<fileVars, shownVars, recvVars, sendVars, net, announced, envVars>>

-----------------------------------------------------------------------------
(* Operators on files and block lists. *)

\* os.File.WriteAt: overwrites one position, leaving a hole before it when
\* the file is shorter.
WriteAt(file, i, data) ==
  [j \in 1..(IF i > Len(file) THEN i ELSE Len(file)) |->
     IF j = i THEN data ELSE IF j <= Len(file) THEN file[j] ELSE Zero]

\* Mutant of ChunkOffset: counted from zero.
ChunkOffsetFromZero(blocks, h) ==
  (CHOOSE i \in DOMAIN blocks : blocks[i] = h) - 1

\* chunkMap[hash]: the map keeps the last chunk that has the hash.
ChunkOffset(blocks, h) ==
  CHOOSE i \in DOMAIN blocks :
    blocks[i] = h /\ \A j \in DOMAIN blocks : blocks[j] = h => j <= i

Blocks(seq) == {seq[i] : i \in DOMAIN seq}

\* HasBlocks in processBlockMap: the hashes the block store does not know.
MissingHashes(blocks) == {h \in Blocks(blocks) : store[h] = Absent}

\* ReadChunkData: the bytes where the store says the block of hash h is.
BlockOnDisk(h) == disk[store[h].path][store[h].pos]

\* prepareFileForCDC may use them: the store knows the place, the file still
\* reaches it and what is there still has the hash.
Readable(h) ==
  /\ store[h] # Absent
  /\ disk[store[h].path] # Absent
  /\ store[h].pos \in DOMAIN disk[store[h].path]

\* Mutant of HaveLocally: the bytes are not hashed again.
HaveLocallyUnchecked(h) == Readable(h)

HaveLocally(h) == Readable(h) /\ BlockOnDisk(h) = h

\* Mutant of BlockAccepted: no check.
BlockAcceptedAlways(b) == TRUE

\* The check of a received block in processBlockData.
BlockAccepted(b) == IntegrityCheckEnabled => b.data = b.hash

\* Mutant of IsLast: forgets that this block counts.
IsLastLate(t) == sent[t] = Len(need[t])

\* IsLast of the block about to be sent compares what was sent with what was
\* asked for, not the position in the list.
IsLast(t) == sent[t] + 1 = Len(need[t])

Active(t) == rpc[t] \notin {"idle", "done", "failed"}

-----------------------------------------------------------------------------
(* Descriptors keep following their file when it is renamed or removed. *)

HandlesAfterRemove ==
  [u \in Transfers |-> IF handle[u] = "dest" THEN "gone" ELSE handle[u]]

HandlesAfterRename ==
  [u \in Transfers |-> CASE handle[u] = "tmp"  -> "dest"
                         [] handle[u] = "dest" -> "gone"
                         [] OTHER              -> handle[u]]

\* A write through transfer t's descriptor.
WriteThrough(t, i, data) ==
  \/ /\ handle[t] = "tmp"
     /\ tmp' = WriteAt(tmp, i, data)
     /\ UNCHANGED disk
  \/ /\ handle[t] = "dest"
     /\ disk' = [disk EXCEPT ![Dest] = WriteAt(@, i, data)]
     /\ UNCHANGED tmp
  \/ /\ handle[t] = "gone"
     /\ UNCHANGED <<tmp, disk>>

-----------------------------------------------------------------------------
Init ==
  /\ src \in SourceContents
  /\ disk \in [Paths -> LocalContents \cup {Absent}]
  /\ tmp = Absent
  /\ store = [h \in Block |-> Absent]
  /\ versions = {}
  /\ index = disk[Dest]
  /\ status = "unknown"
  /\ rpc = [t \in Transfers |-> "idle"]
  /\ map = [t \in Transfers |-> <<>>]
  /\ size = [t \in Transfers |-> 0]
  /\ missing = [t \in Transfers |-> {}]
  /\ need = [t \in Transfers |-> <<>>]
  /\ extra = [t \in Transfers |-> <<>>]
  /\ pre = [t \in Transfers |-> 0]
  /\ handle = [t \in Transfers |-> "none"]
  /\ tries = [t \in Transfers |-> 0]
  /\ spc = [t \in Transfers |-> "idle"]
  /\ pos = [t \in Transfers |-> 0]
  /\ sent = [t \in Transfers |-> 0]
  /\ net = [t \in Transfers |-> <<>>]
  /\ announced = {}
  /\ requests = 0 /\ srcEdits = 0 /\ localEdits = 0 /\ crashes = 0

-----------------------------------------------------------------------------
(* Receiver and sender up to the BlockNeed. *)

\* handleIndexMessage decided the file is needed: open a stream, request it.
Request(t) ==
  /\ ~Active(t) /\ requests < MaxRequests
  /\ Cardinality({u \in Transfers : Active(u)}) < MaxParallel
  /\ requests' = requests + 1
  /\ rpc' = [rpc EXCEPT ![t] = "requested"]
  /\ status' = "syncing"
  /\ map' = [map EXCEPT ![t] = <<>>]
  /\ size' = [size EXCEPT ![t] = 0]
  /\ missing' = [missing EXCEPT ![t] = {}]
  /\ need' = [need EXCEPT ![t] = <<>>]
  /\ extra' = [extra EXCEPT ![t] = <<>>]
  /\ pre' = [pre EXCEPT ![t] = 0]
  /\ tries' = [tries EXCEPT ![t] = 0]
  /\ spc' = [spc EXCEPT ![t] = "idle"]
  /\ pos' = [pos EXCEPT ![t] = 0]
  /\ sent' = [sent EXCEPT ![t] = 0]
  /\ net' = [net EXCEPT ![t] = <<>>]
  /\ UNCHANGED <<fileVars, index, handle, src, announced, srcEdits, localEdits,
                 crashes>>

\* The sender stats the file; its size goes into the BlockMap later.
StatSource(t) ==
  /\ rpc[t] = "requested" /\ spc[t] = "idle"
  /\ size' = [size EXCEPT ![t] = Len(src)]
  /\ spc' = [spc EXCEPT ![t] = "chunking"]
  /\ UNCHANGED <<fileVars, shownVars, rpc, map, askVars, handle, tries, src,
                 pos, sent, net, announced, envVars>>

\* The sender chunks the file as it is now and sends the BlockMap.
SendBlockMap(t) ==
  /\ rpc[t] = "requested" /\ spc[t] = "chunking"
  /\ map' = [map EXCEPT ![t] = src]
  /\ announced' = announced \cup {src}
  /\ spc' = [spc EXCEPT ![t] = "awaitNeed"]
  /\ UNCHANGED <<fileVars, shownVars, rpc, size, askVars, handle, tries, src,
                 pos, sent, net, envVars>>

\* Mutant of SavedVersions: none when the store knows every block.
SavedVersionsNeeded(t) ==
  IF /\ VersioningEnabled /\ disk[Dest] # Absent
     /\ MissingHashes(map[t]) # {}
    THEN versions \cup {disk[Dest]} ELSE versions

\* SaveVersion: what there is of the file joins the archive.
SavedVersions(t) ==
  IF VersioningEnabled /\ disk[Dest] # Absent
    THEN versions \cup {disk[Dest]} ELSE versions

\* The receiver compares the BlockMap with its store, saves a version and
\* truncates the temporary file to the announced size.
HandleBlockMap(t) ==
  /\ rpc[t] = "requested" /\ spc[t] = "awaitNeed"
  /\ missing' = [missing EXCEPT ![t] = MissingHashes(map[t])]
  /\ versions' = SavedVersions(t)
  /\ tmp' = [i \in 1..size[t] |-> Zero]
  /\ handle' = [handle EXCEPT ![t] = "tmp"]
  /\ pre' = [pre EXCEPT ![t] = 1]
  /\ rpc' = [rpc EXCEPT ![t] = "preparing"]
  /\ UNCHANGED <<disk, store, shownVars, mapVars, need, extra, tries, sendVars,
                 net, announced, envVars>>

\* One round of the pre-write loop.  A hash that was missing is asked for, as
\* often as it occurs; a block that turns out not to be on disk joins the
\* extraNeeded list, which follows the others.
PreWrite(t) ==
  /\ rpc[t] = "preparing" /\ pre[t] <= Len(map[t])
  /\ pre' = [pre EXCEPT ![t] = @ + 1]
  /\ LET h == map[t][pre[t]] IN
       \/ /\ h \in missing[t]
          /\ need' = [need EXCEPT ![t] = Append(@, h)]
          /\ UNCHANGED <<disk, tmp, extra>>
       \/ /\ h \notin missing[t] /\ HaveLocally(h)
          /\ WriteThrough(t, pre[t], BlockOnDisk(h))
          /\ UNCHANGED <<need, extra>>
       \/ /\ h \notin missing[t] /\ ~HaveLocally(h)
          /\ extra' = [extra EXCEPT ![t] = Append(@, h)]
          /\ UNCHANGED <<disk, tmp, need>>
  /\ UNCHANGED <<store, versions, shownVars, rpc, mapVars, missing, handle,
                 tries, sendVars, net, announced, envVars>>

\* The loop is over: f.Close, then BlockNeed goes out.  With nothing needed
\* the receiver moves on to the rename, and the sender reports success.
SendBlockNeed(t) ==
  /\ rpc[t] = "preparing" /\ pre[t] > Len(map[t])
  /\ LET needed == need[t] \o extra[t] IN
       /\ need' = [need EXCEPT ![t] = needed]
       /\ extra' = [extra EXCEPT ![t] = <<>>]
       /\ rpc' = [rpc EXCEPT ![t] = IF needed = <<>> THEN "removing"
                                                     ELSE "receiving"]
       /\ spc' = [spc EXCEPT ![t] = IF needed = <<>> THEN "served"
                                                     ELSE "sending"]
  /\ handle' = [handle EXCEPT ![t] = "none"]
  /\ UNCHANGED <<fileVars, shownVars, mapVars, missing, pre, tries, src, pos,
                 sent, net, announced, envVars>>

-----------------------------------------------------------------------------
(* Block data. *)

\* One round of the sender's loop.  A block that the file, edited meanwhile,
\* no longer reaches is skipped.
SendBlock(t) ==
  /\ spc[t] = "sending" /\ pos[t] < Len(need[t])
  /\ pos' = [pos EXCEPT ![t] = @ + 1]
  /\ LET h == need[t][pos[t] + 1]
         i == ChunkOffset(map[t], h)
     IN \/ /\ i > Len(src)
           /\ UNCHANGED <<sent, net>>
        \/ /\ i <= Len(src)
           /\ sent' = [sent EXCEPT ![t] = @ + 1]
           /\ net' = [net EXCEPT ![t] =
                Append(@, [hash |-> h, at |-> i, data |-> src[i],
                           last |-> IsLast(t)])]
  /\ UNCHANGED <<fileVars, shownVars, recvVars, src, spc, announced, envVars>>

\* The loop is over: the sender counts the file as sent whatever was skipped
\* and waits for the next message on the stream.
FinishSending(t) ==
  /\ spc[t] = "sending" /\ pos[t] = Len(need[t])
  /\ spc' = [spc EXCEPT ![t] = "served"]
  /\ UNCHANGED <<fileVars, shownVars, recvVars, src, pos, sent, net, announced,
                 envVars>>

\* processBlockData, first half: a block that fails the check is dropped,
\* even the last one; otherwise the temporary file is opened, or created
\* again if it is gone.
ReceiveBlock(t) ==
  /\ rpc[t] = "receiving" /\ net[t] # <<>>
  /\ \/ /\ ~BlockAccepted(Head(net[t]))
        /\ net' = [net EXCEPT ![t] = Tail(@)]
        /\ UNCHANGED <<tmp, rpc, handle>>
     \/ /\ BlockAccepted(Head(net[t]))
        /\ tmp' = IF tmp = Absent THEN <<>> ELSE tmp
        /\ handle' = [handle EXCEPT ![t] = "tmp"]
        /\ rpc' = [rpc EXCEPT ![t] = "writing"]
        /\ UNCHANGED net
  /\ UNCHANGED <<disk, store, versions, shownVars, mapVars, askVars, tries,
                 sendVars, announced, envVars>>

\* processBlockData, second half: write the block, register it in the block
\* store under its final path, close; the last block leads to the rename.
WriteBlock(t) ==
  /\ rpc[t] = "writing"
  /\ LET b == Head(net[t]) IN
       /\ WriteThrough(t, b.at, b.data)
       /\ store' = [store EXCEPT ![b.hash] = [path |-> Dest, pos |-> b.at]]
       /\ rpc' = [rpc EXCEPT ![t] = IF b.last THEN "removing"
                                              ELSE "receiving"]
  /\ net' = [net EXCEPT ![t] = Tail(@)]
  /\ handle' = [handle EXCEPT ![t] = "none"]
  /\ UNCHANGED <<versions, shownVars, mapVars, askVars, tries, sendVars,
                 announced, envVars>>

-----------------------------------------------------------------------------
(* atomicRenameWithRetry and what follows it. *)

\* os.Remove(dst) comes first, in every attempt.
RemoveDest(t) ==
  /\ rpc[t] = "removing"
  /\ disk' = [disk EXCEPT ![Dest] = Absent]
  /\ handle' = HandlesAfterRemove
  /\ rpc' = [rpc EXCEPT ![t] = "renaming"]
  /\ UNCHANGED <<tmp, store, versions, shownVars, mapVars, askVars, tries,
                 sendVars, net, announced, envVars>>

RenameTemp(t) ==
  /\ rpc[t] = "renaming" /\ tmp # Absent
  /\ disk' = [disk EXCEPT ![Dest] = tmp]
  /\ tmp' = Absent
  /\ handle' = HandlesAfterRename
  /\ rpc' = [rpc EXCEPT ![t] = "finishing"]
  /\ UNCHANGED <<store, versions, shownVars, mapVars, askVars, tries, sendVars,
                 net, announced, envVars>>

\* An attempt fails: a process has the destination open, so that it is neither
\* removed nor replaced, or the temporary file; or another transfer has renamed
\* the latter.
AttemptFails(t) ==
  \/ rpc[t] = "removing" /\ disk[Dest] # Absent
  \/ rpc[t] = "renaming"

\* Mutant of RenameFails: who waits for blocks goes on as if the file were there.
RenameFailsUnnoticed(t) ==
  /\ AttemptFails(t)
  /\ tries' = [tries EXCEPT ![t] = @ + 1]
  /\ rpc' = [rpc EXCEPT ![t] =
       IF tries[t] + 1 < RenameAttempts THEN "removing" ELSE "finishing"]
  /\ UNCHANGED <<fileVars, shownVars, mapVars, askVars, handle, sendVars, net,
                 announced, envVars>>

\* After the last attempt the caller that needed no block goes on all the same,
\* the other returns to its read loop, where nothing comes any more.
RenameFails(t) ==
  /\ AttemptFails(t)
  /\ tries' = [tries EXCEPT ![t] = @ + 1]
  /\ rpc' = [rpc EXCEPT ![t] =
       IF tries[t] + 1 < RenameAttempts THEN "removing"
       ELSE IF need[t] = <<>> THEN "finishing" ELSE "receiving"]
  /\ UNCHANGED <<fileVars, shownVars, mapVars, askVars, handle, sendVars, net,
                 announced, envVars>>

\* updateWatcherIndex hashes what is on disk now, the status becomes Synced
\* and the stream is closed.
FinishReceiving(t) ==
  /\ rpc[t] = "finishing"
  /\ index' = IF disk[Dest] = Absent THEN index ELSE disk[Dest]
  /\ status' = "synced"
  /\ rpc' = [rpc EXCEPT ![t] = "done"]
  /\ spc' = [spc EXCEPT ![t] = "served"]
  /\ UNCHANGED <<fileVars, mapVars, askVars, handle, tries, src, pos, sent,
                 net, announced, envVars>>

-----------------------------------------------------------------------------
(* The environment. *)

\* The session breaks: both ends of the stream return, what was on the
\* stream is lost and the temporary file stays.
StreamLost(t) ==
  /\ \/ rpc[t] \in {"requested", "receiving"}
     \/ rpc[t] = "preparing" /\ pre[t] > Len(map[t])
  /\ rpc' = [rpc EXCEPT ![t] = "failed"]
  /\ spc' = [spc EXCEPT ![t] = "served"]
  /\ net' = [net EXCEPT ![t] = <<>>]
  /\ handle' = [handle EXCEPT ![t] = "none"]
  /\ UNCHANGED <<fileVars, shownVars, mapVars, askVars, tries, src, pos, sent,
                 announced, envVars>>

\* The sender's file is rewritten in place.
SourceEdit(c) ==
  /\ srcEdits < MaxSourceEdits /\ c # src
  /\ src' = c
  /\ srcEdits' = srcEdits + 1
  /\ UNCHANGED <<fileVars, shownVars, recvVars, spc, pos, sent, net, announced,
                 requests, localEdits, crashes>>

\* A user of the receiver rewrites one of its files in place.
LocalEdit(p, c) ==
  /\ localEdits < MaxLocalEdits
  /\ disk' = [disk EXCEPT ![p] = c]
  /\ localEdits' = localEdits + 1
  /\ UNCHANGED <<tmp, store, versions, shownVars, recvVars, sendVars, net,
                 announced, requests, srcEdits, crashes>>

\* The receiver serves one of its files to some peer: StoreFileChunks
\* registers every block the file has now.
ServeLocalFile(p) ==
  /\ disk[p] # Absent
  /\ store' = [h \in Block |-> IF h \in Blocks(disk[p])
                         THEN [path |-> p, pos |-> ChunkOffset(disk[p], h)]
                         ELSE store[h]]
  /\ UNCHANGED <<disk, tmp, versions, shownVars, recvVars, sendVars, net,
                 announced, envVars>>

\* The receiver stops and starts again: goroutines and descriptors are gone,
\* files, versions and block store stay, the watcher's first scan indexes
\* what is on disk.
Restart ==
  /\ crashes < MaxCrashes
  /\ crashes' = crashes + 1
  /\ rpc' = [t \in Transfers |-> IF Active(t) THEN "failed" ELSE rpc[t]]
  /\ spc' = [t \in Transfers |-> IF Active(t) THEN "served" ELSE spc[t]]
  /\ net' = [t \in Transfers |-> <<>>]
  /\ handle' = [t \in Transfers |-> "none"]
  /\ index' = disk[Dest]
  /\ status' = "unknown"
  /\ UNCHANGED <<fileVars, mapVars, askVars, tries, src, pos, sent, announced,
                 requests, srcEdits, localEdits>>

-----------------------------------------------------------------------------
ReceiverStep(t) ==
  \/ HandleBlockMap(t) \/ PreWrite(t) \/ SendBlockNeed(t)
  \/ ReceiveBlock(t) \/ WriteBlock(t)
  \/ RemoveDest(t) \/ RenameTemp(t) \/ RenameFails(t) \/ FinishReceiving(t)

SenderStep(t) ==
  StatSource(t) \/ SendBlockMap(t) \/ SendBlock(t) \/ FinishSending(t)

Environment ==
  \/ \E c \in SourceContents : SourceEdit(c)
  \/ \E p \in Paths, c \in LocalContents : LocalEdit(p, c)
  \/ \E p \in Paths : ServeLocalFile(p)
  \/ Restart

Next ==
  \/ \E t \in Transfers : Request(t) \/ StreamLost(t)
  \/ \E t \in Transfers : ReceiverStep(t) \/ SenderStep(t)
  \/ Environment

Spec == Init /\ [][Next]_vars

\* The goroutines of a transfer keep being scheduled while its session lives;
\* nothing obliges users to edit or the session to break.
Fairness ==
  \A t \in Transfers : WF_vars(ReceiverStep(t)) /\ WF_vars(SenderStep(t))

FairSpec == Spec /\ Fairness
-----------------------------------------------------------------------------
(* Properties. *)

Meta == [path : Paths, pos : Nat \ {0}]
BlockData == [hash : Block, at : Nat \ {0}, data : Block, last : BOOLEAN]

TypeOK ==
  /\ src \in SourceContents
  /\ disk \in [Paths -> File \cup {Absent}]
  /\ tmp \in File \cup {Absent}
  /\ store \in [Block -> Meta \cup {Absent}]
  /\ versions \subseteq File
  /\ index \in File \cup {Absent}
  /\ status \in {"unknown", "syncing", "synced"}
  /\ rpc \in [Transfers -> {"idle", "requested", "preparing", "receiving",
                            "writing", "removing", "renaming", "finishing",
                            "done", "failed"}]
  /\ map \in [Transfers -> Seq(Block)]
  /\ size \in [Transfers -> Nat]
  /\ missing \in [Transfers -> SUBSET Block]
  /\ need \in [Transfers -> Seq(Block)]
  /\ extra \in [Transfers -> Seq(Block)]
  /\ pre \in [Transfers -> Nat]
  /\ handle \in [Transfers -> {"none", "tmp", "dest", "gone"}]
  /\ tries \in [Transfers -> Nat]
  /\ spc \in [Transfers -> {"idle", "chunking", "awaitNeed", "sending",
                            "served"}]
  /\ pos \in [Transfers -> Nat]
  /\ sent \in [Transfers -> Nat]
  /\ net \in [Transfers -> Seq(BlockData)]
  /\ announced \subseteq SourceContents
  /\ requests \in Nat /\ srcEdits \in Nat /\ localEdits \in Nat /\ crashes \in Nat

\* What position i of Dest may hold: a hole, a block some BlockMap announced
\* there, or one a local user wrote there.
Announced(i) == {c[i] : c \in {a \in announced : i \in DOMAIN a}}
Written(i) == {c[i] : c \in {a \in LocalContents : i \in DOMAIN a}}

\* However many transfers of the path overlap, whatever either side's users
\* rewrite meanwhile, and however stale the block store is, no position of
\* the temporary file or of the destination holds a block that belongs
\* elsewhere: the block check of processBlockData and the re-hash of
\* prepareFileForCDC keep foreign bytes out.
BlockProvenance ==
  IntegrityCheckEnabled =>
    /\ tmp # Absent =>
         \A i \in DOMAIN tmp : tmp[i] \in {Zero} \cup Announced(i)
    /\ disk[Dest] # Absent =>
         \A i \in DOMAIN disk[Dest] :
           disk[Dest][i] \in {Zero} \cup Announced(i) \cup Written(i)

\* What makes BlockProvenance inductive.  An open descriptor refers to a file
\* that exists, and everything a transfer asks for or is sent comes from the
\* BlockMap the sender announced for it.
HandleInv ==
  \A t \in Transfers :
    /\ handle[t] = "tmp" => tmp # Absent
    /\ handle[t] = "dest" => disk[Dest] # Absent
    /\ rpc[t] = "preparing" => pre[t] \in Nat \ {0}

StreamOf(t) ==
  /\ map[t] # <<>> => map[t] \in announced
  /\ rpc[t] \in {"idle", "requested"} =>
       /\ need[t] = <<>> /\ extra[t] = <<>> /\ net[t] = <<>>
       /\ spc[t] # "sending"
  /\ Blocks(need[t]) \cup Blocks(extra[t]) \subseteq Blocks(map[t])
  /\ \A k \in DOMAIN net[t] :
       /\ net[t][k].at \in DOMAIN map[t]
       /\ map[t][net[t][k].at] = net[t][k].hash
  /\ rpc[t] = "writing" => net[t] # <<>> /\ BlockAccepted(Head(net[t]))

StreamInv == \A t \in Transfers : StreamOf(t)

TransferInv == HandleInv /\ StreamInv

\* Transfers that follow one another, of a file that is not edited: whatever
\* comes to the destination, and is not a local user's, is the file that some
\* transfer's BlockMap described: no hole, no block missing at its end, none too
\* many.
WholePublish ==
  [][srcEdits = 0 /\ localEdits' = localEdits
     /\ disk'[Dest] \notin {disk[Dest], Absent}
     => \E t \in Transfers : rpc[t] = "renaming" /\ disk'[Dest] = map[t]]_vars

\* Every attempt of the transfer to rename has failed.
GivenUp(t) == tries[t] >= RenameAttempts

\* A file the interface shows as Synced is there, as some BlockMap described it,
\* and in the index, if no user has edited it on either side.  A transfer that
\* needed no block is shown as Synced even when its rename was given up.
SyncedIsPublished ==
  status = "synced" /\ srcEdits = 0 /\ localEdits = 0 =>
    \/ disk[Dest] \in announced /\ index = disk[Dest]
    \/ \E t \in Transfers : rpc[t] = "done" /\ GivenUp(t) /\ need[t] = <<>>

\* As long as no user touches the receiver's files, the file that a received
\* one replaces is in the version archive, unless a peer announced it itself.
\* (A file written after prepareFileForCDC has saved its version is not.)
OverwrittenIsVersioned ==
  [][\A t \in Transfers :
       /\ VersioningEnabled /\ localEdits = 0
       /\ rpc[t] = "removing" /\ rpc'[t] = "renaming"
       => disk[Dest] \in {Absent} \cup versions \cup announced]_vars

\* One transfer of the path at a time keeps what FileReceive promises.
Receives ==
  INSTANCE FileReceive WITH
    Offer <- SourceContents, Local <- LocalContents,
    Holes <- {Zero}, Versioning <- VersioningEnabled,
    file <- disk[Dest], kept <- versions,
    busy <- \E t \in Transfers : Active(t),
    touched <- localEdits > 0, spoiled <- srcEdits > 0

ReceivesFile == Receives!Spec

\* The sender's file no longer has some needed block where the BlockMap says, so
\* that the last one may be skipped, or dropped by the receiver.
Unserved(t) ==
  \E h \in Blocks(need[t]) :
    LET i == ChunkOffset(map[t], h) IN i > Len(src) \/ src[i] # h

\* Every requested transfer comes to an end: its goroutine returns, closing its
\* stream and giving back its place among the eight parallel ones.  Only an edit
\* of the sender's file and a rename that was given up leave it waiting.
TransferEnds ==
  \A t \in Transfers :
    rpc[t] = "requested" ~>
      rpc[t] \in {"done", "failed"} \/ GivenUp(t) \/ Unserved(t)
=============================================================================
