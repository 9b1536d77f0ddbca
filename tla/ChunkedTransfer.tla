-------------------------- MODULE ChunkedTransfer --------------------------
(***************************************************************************)
(* The two ways a file travels without block-level diffing: whole, in one  *)
(* Data message, or in Chunk messages when it is large and there is no     *)
(* block store, or when it goes through a relay (network/handlers.go,      *)
(* network/transfer.go).                                                   *)
(*                                                                         *)
(* One request of the path at a time, repeated after failures and          *)
(* restarts, so that what an earlier attempt left in the temporary file    *)
(* matters; overlapping requests share that file as they do in             *)
(* CdcTransfer.  Files are sequences of blocks and a chunk is ChunkSize of *)
(* them; Bad is a block damaged on the way, which a hash tells apart.      *)
(***************************************************************************)
EXTENDS Integers, Sequences

CONSTANTS
  Block,                  \* the blocks files are made of
  Bad,                    \* a damaged block
  Absent,                 \* no file
  SourceContents,         \* contents the sender's file may have
  LocalContents,          \* contents users of the receiver write
  ChunkSize,              \* cfg.RelayChunkSizeMB
  LargeFileThreshold,     \* cfg.LargeFileThresholdMB
  WholeMax,               \* the 100 MB above which a file is not sent whole
  CdcMin,                 \* the 64 KB from which on block maps are used
  HasBlockStore,          \* ss.blockStore # nil on the sender
  PeerRelayEnabled,       \* cfg.PeerRelayEnabled and tm.peerRelayOn
  IntegrityCheckEnabled,  \* cfg.IntegrityCheckEnabled
  VersioningEnabled,      \* versionMgr.IsEnabled()
  RenameAttempts,         \* tries of atomicRenameWithRetry: 5 in the code
  MaxRequests,            \* bound: requests of the file
  MaxSourceEdits,         \* bound: edits of the sender's file
  MaxLocalEdits,          \* bound: edits of the receiver's file
  MaxDamages,             \* bound: messages damaged on the way
  MaxCrashes              \* bound: restarts of the receiver

File == Seq(Block \cup {Bad})

ASSUME BlockAssumption == Bad \notin Block /\ Absent \notin File
ASSUME ContentAssumption ==
  /\ SourceContents \subseteq Seq(Block) \ {<<>>}
  /\ LocalContents \subseteq Seq(Block)
ASSUME SizeAssumption ==
  /\ ChunkSize \in Nat \ {0} /\ LargeFileThreshold \in Nat
  /\ WholeMax \in Nat /\ CdcMin \in Nat /\ RenameAttempts \in Nat \ {0}
ASSUME FlagAssumption ==
  /\ HasBlockStore \in BOOLEAN /\ PeerRelayEnabled \in BOOLEAN
  /\ IntegrityCheckEnabled \in BOOLEAN /\ VersioningEnabled \in BOOLEAN
ASSUME BoundAssumption ==
  /\ MaxRequests \in Nat /\ MaxSourceEdits \in Nat /\ MaxLocalEdits \in Nat
  /\ MaxDamages \in Nat /\ MaxCrashes \in Nat

VARIABLES
  src,          \* the sender's file
  disk,         \* the receiver's file
  tmp,          \* .syncthing.<name>.tmp
  versions,     \* contents kept by the version manager
  index,        \* what the receiver's watcher index says the file contains
  status,       \* file status shown for the file
  rpc,          \* the receiver's place in requestFileViaStream
  relay,        \* UseRelay of the request
  final,        \* the whole-file path was taken: its hash, or Absent
  tries,        \* failed attempts of atomicRenameWithRetry
  spc,          \* the sender's place in handleRequestMessage
  total,        \* totalChunks
  chunk,        \* the sender's loop variable
  net,          \* messages on the stream, in order
  requests, srcEdits, localEdits, damages, crashes  \* bounded actions so far

recvVars == <<disk, tmp, versions, index, status, rpc, relay, final, tries>>
sendVars == <<src, spc, total, chunk>>
envVars == <<requests, srcEdits, localEdits, damages, crashes>>
vars == <<recvVars, sendVars, net, envVars>>

-----------------------------------------------------------------------------
\* The way handleRequestMessage answers a request for a file of n blocks.
Answer(useRelay, n) ==
  CASE useRelay /\ n > LargeFileThreshold -> "chunks"
    [] ~(useRelay /\ n > LargeFileThreshold) /\ HasBlockStore /\ n >= CdcMin
         -> "blocks"
    [] OTHER -> IF n > WholeMax THEN "chunks" ELSE "whole"

\* sendFileChunked's count.  A file of exactly k chunks is announced as k + 1.
TotalChunks(n) == n \div ChunkSize + 1

\* f.Read in round i: up to a chunk from where the last one ended.
ReadChunk(file, i) ==
  SubSeq(file, i * ChunkSize + 1,
         IF (i + 1) * ChunkSize > Len(file) THEN Len(file)
                                            ELSE (i + 1) * ChunkSize)

\* VerifyChunkIntegrity, of a chunk or of the data of a whole file.
Intact(m) == \A i \in DOMAIN m.data : m.data[i] # Bad

\* Mutant of Accepted: no check.
AcceptedAlways(m) == TRUE

Accepted(m) == IntegrityCheckEnabled => Intact(m)

\* Mutant of SavedVersions: a missing file is saved, too.
SavedVersionsAlways == versions \cup {disk}

\* SaveVersion: what there is of the file joins the archive.
SavedVersions ==
  IF VersioningEnabled /\ disk # Absent THEN versions \cup {disk}
                                        ELSE versions

Active == rpc \notin {"idle", "done", "failed"}

-----------------------------------------------------------------------------
Init ==
  /\ src \in SourceContents
  /\ disk \in LocalContents \cup {Absent}
  /\ tmp = Absent
  /\ versions = {}
  /\ index = disk
  /\ status = "unknown"
  /\ rpc = "idle" /\ relay = FALSE /\ final = Absent /\ tries = 0
  /\ spc = "idle" /\ total = 0 /\ chunk = 0
  /\ net = <<>>
  /\ requests = 0 /\ srcEdits = 0 /\ localEdits = 0
  /\ damages = 0 /\ crashes = 0

-----------------------------------------------------------------------------
(* The sender. *)

\* handleIndexMessage decided the file is needed: open a stream, request it.
\* The size that asks for a relay is the one the index message had.
Request ==
  /\ ~Active /\ requests < MaxRequests
  /\ requests' = requests + 1
  /\ relay' = (PeerRelayEnabled /\ Len(src) > LargeFileThreshold)
  /\ rpc' = "requested" /\ spc' = "asked"
  /\ status' = "syncing"
  /\ final' = Absent /\ tries' = 0 /\ total' = 0 /\ chunk' = 0 /\ net' = <<>>
  /\ UNCHANGED <<disk, tmp, versions, index, src, srcEdits, localEdits,
                 damages, crashes>>

\* The file is read and sent in one message.
SendWhole ==
  /\ spc = "asked" /\ Answer(relay, Len(src)) = "whole"
  /\ net' = Append(net, [kind |-> "data", data |-> src])
  /\ spc' = "served"
  /\ UNCHANGED <<recvVars, src, total, chunk, envVars>>

\* sendFileChunked opens and stats the file.
OpenChunked ==
  /\ spc = "asked" /\ Answer(relay, Len(src)) = "chunks"
  /\ total' = TotalChunks(Len(src))
  /\ spc' = "sending"
  /\ UNCHANGED <<recvVars, src, chunk, net, envVars>>

\* One round of its loop.
SendChunk ==
  /\ spc = "sending" /\ chunk < total /\ ReadChunk(src, chunk) # <<>>
  /\ net' = Append(net, [kind |-> "chunk", index |-> chunk, total |-> total,
                         data |-> ReadChunk(src, chunk)])
  /\ chunk' = chunk + 1
  /\ UNCHANGED <<recvVars, src, spc, total, envVars>>

\* The loop ends, early when nothing is left to read.  The sender counts the
\* file as sent and waits for the next message on the stream.
EndChunks ==
  /\ spc = "sending"
  /\ chunk = total \/ ReadChunk(src, chunk) = <<>>
  /\ spc' = "served"
  /\ UNCHANGED <<recvVars, src, total, chunk, net, envVars>>

-----------------------------------------------------------------------------
(* The receiver. *)

\* handleDataMessage up to the temporary file: check, version, write.
ReceiveData ==
  /\ rpc = "requested" /\ net # <<>> /\ Head(net).kind = "data"
  /\ net' = Tail(net)
  /\ LET m == Head(net) IN
       \/ /\ ~Accepted(m)
          /\ rpc' = "done"
          /\ UNCHANGED <<tmp, versions, final>>
       \/ /\ Accepted(m)
          /\ versions' = SavedVersions
          /\ tmp' = m.data
          /\ final' = m.data
          /\ rpc' = "removing"
  /\ UNCHANGED <<disk, index, status, relay, tries, sendVars, envVars>>

\* Mutant of AfterChunk: counts the chunks from one.
AfterChunkLate(m) == IF m.index >= m.total THEN "done" ELSE "requested"

\* requestFileViaStream goes on after a chunk unless it was the last one.
AfterChunk(m) == IF m.index >= m.total - 1 THEN "done" ELSE "requested"

\* The temporary file after a chunk: the first one truncates it, the others
\* are appended to whatever is there.
WrittenChunk(m) ==
  IF m.index = 0 \/ tmp = Absent THEN m.data ELSE tmp \o m.data

\* handleChunkMessage up to the rename.  A chunk that fails its check is
\* dropped, and those that follow are taken all the same.
ReceiveChunk ==
  /\ rpc = "requested" /\ net # <<>> /\ Head(net).kind = "chunk"
  /\ net' = Tail(net)
  /\ LET m == Head(net) IN
       \/ /\ ~Accepted(m)
          /\ rpc' = AfterChunk(m)
          /\ UNCHANGED <<tmp, versions>>
       \/ /\ Accepted(m)
          /\ versions' = IF m.index = 0 THEN SavedVersions ELSE versions
          /\ tmp' = WrittenChunk(m)
          /\ rpc' = IF m.index = m.total - 1 THEN "removing"
                                             ELSE "requested"
  /\ UNCHANGED <<disk, index, status, relay, final, tries, sendVars, envVars>>

\* atomicRenameWithRetry: os.Remove(dst) first, in every attempt.
RemoveDest ==
  /\ rpc = "removing"
  /\ disk' = Absent
  /\ rpc' = "renaming"
  /\ UNCHANGED <<tmp, versions, index, status, relay, final, tries, sendVars,
                 net, envVars>>

\* A process holds the destination open: it is neither removed nor replaced.
DestLocked ==
  /\ rpc = "removing" /\ disk # Absent
  /\ rpc' = "retrying"
  /\ UNCHANGED <<disk, tmp, versions, index, status, relay, final, tries,
                 sendVars, net, envVars>>

RenameTemp ==
  /\ rpc = "renaming"
  /\ disk' = tmp /\ tmp' = Absent
  /\ rpc' = IF final = Absent THEN "finishing" ELSE "verifying"
  /\ UNCHANGED <<versions, index, status, relay, final, tries, sendVars, net,
                 envVars>>

\* A process holds the temporary file open.
TempLocked ==
  /\ rpc = "renaming"
  /\ rpc' = "retrying"
  /\ UNCHANGED <<disk, tmp, versions, index, status, relay, final, tries,
                 sendVars, net, envVars>>

\* After the last attempt the whole-file handler removes the temporary file;
\* the chunk handler leaves it.
Retry ==
  /\ rpc = "retrying"
  /\ tries' = tries + 1
  /\ \/ /\ tries + 1 < RenameAttempts
        /\ rpc' = "removing" /\ UNCHANGED tmp
     \/ /\ tries + 1 >= RenameAttempts
        /\ rpc' = "done"
        /\ tmp' = IF final = Absent THEN tmp ELSE Absent
  /\ UNCHANGED <<disk, versions, index, status, relay, final, sendVars, net,
                 envVars>>

\* The second check of handleDataMessage reads the published file again.
Verify ==
  /\ rpc = "verifying"
  /\ rpc' = IF IntegrityCheckEnabled /\ disk # final THEN "done"
                                                     ELSE "finishing"
  /\ UNCHANGED <<disk, tmp, versions, index, status, relay, final, tries,
                 sendVars, net, envVars>>

\* Mutant of Indexed: the entry of a chunked file is left as it was.
IndexedWholeOnly == IF final # Absent THEN final ELSE index

\* updateWatcherIndex takes the received hash of a whole file, and hashes
\* what is on disk after chunks.
Indexed == IF final # Absent THEN final ELSE disk

\* Status and index are set, the stream is closed.
Finish ==
  /\ rpc = "finishing"
  /\ index' = Indexed
  /\ status' = "synced"
  /\ rpc' = "done"
  /\ UNCHANGED <<disk, tmp, versions, relay, final, tries, sendVars, net,
                 envVars>>

-----------------------------------------------------------------------------
(* The environment. *)

\* A message is damaged on the way.
Damage ==
  /\ damages < MaxDamages /\ net # <<>>
  /\ damages' = damages + 1
  /\ net' = [net EXCEPT ![Len(net)].data[1] = Bad]
  /\ UNCHANGED <<recvVars, sendVars, requests, srcEdits, localEdits, crashes>>

\* The session breaks while the receiver reads the stream.
StreamLost ==
  /\ rpc = "requested"
  /\ rpc' = "failed" /\ spc' = "served" /\ net' = <<>>
  /\ UNCHANGED <<disk, tmp, versions, index, status, relay, final, tries, src,
                 total, chunk, envVars>>

\* The sender's file is rewritten in place.
SourceEdit(c) ==
  /\ srcEdits < MaxSourceEdits /\ c # src
  /\ src' = c /\ srcEdits' = srcEdits + 1
  /\ UNCHANGED <<recvVars, spc, total, chunk, net, requests, localEdits,
                 damages, crashes>>

\* A user of the receiver writes the file.
LocalEdit(c) ==
  /\ localEdits < MaxLocalEdits
  /\ disk' = c /\ localEdits' = localEdits + 1
  /\ UNCHANGED <<tmp, versions, index, status, relay, rpc, final, tries,
                 sendVars, net, requests, srcEdits, damages, crashes>>

\* The receiver stops and starts again: its files stay.
Restart ==
  /\ crashes < MaxCrashes
  /\ crashes' = crashes + 1
  /\ rpc' = (IF Active THEN "failed" ELSE rpc)
  /\ spc' = (IF Active THEN "served" ELSE spc)
  /\ net' = <<>>
  /\ index' = disk
  /\ status' = "unknown"
  /\ UNCHANGED <<disk, tmp, versions, relay, final, tries, src, total, chunk,
                 requests, srcEdits, localEdits, damages>>

-----------------------------------------------------------------------------
ReceiverStep ==
  \/ ReceiveData \/ ReceiveChunk \/ RemoveDest \/ RenameTemp \/ Retry
  \/ Verify \/ Finish

SenderStep == SendWhole \/ OpenChunked \/ SendChunk \/ EndChunks

Environment ==
  \/ Damage \/ StreamLost \/ Restart \/ DestLocked \/ TempLocked
  \/ \E c \in SourceContents : SourceEdit(c)
  \/ \E c \in LocalContents : LocalEdit(c)

Next == Request \/ ReceiverStep \/ SenderStep \/ Environment

Spec == Init /\ [][Next]_vars

\* The two goroutines of a request keep being scheduled; nothing obliges users
\* to edit, files to be held open or the session to break.
FairSpec == Spec /\ WF_vars(ReceiverStep) /\ WF_vars(SenderStep)

-----------------------------------------------------------------------------
(* Properties. *)

Message ==
  [kind : {"data"}, data : File] \cup
  [kind : {"chunk"}, index : Nat, total : Nat, data : File]

TypeOK ==
  /\ src \in SourceContents
  /\ disk \in File \cup {Absent} /\ tmp \in File \cup {Absent}
  /\ versions \subseteq File
  /\ index \in File \cup {Absent}
  /\ status \in {"unknown", "syncing", "synced"}
  /\ rpc \in {"idle", "requested", "removing", "renaming", "retrying",
              "verifying", "finishing", "done", "failed"}
  /\ relay \in BOOLEAN
  /\ final \in File \cup {Absent}
  /\ spc \in {"idle", "asked", "sending", "served"}
  /\ tries \in Nat /\ total \in Nat /\ chunk \in Nat
  /\ net \in Seq(Message)
  /\ requests \in Nat /\ srcEdits \in Nat /\ localEdits \in Nat
  /\ damages \in Nat /\ crashes \in Nat

\* Both ways keep what FileReceive promises, whatever streams break, restarts
\* happen and earlier attempts left behind.  A chunk dropped for its hash and
\* a sender's file that changes are what spoils a transfer.
Receives ==
  INSTANCE FileReceive WITH
    Offer <- SourceContents, Local <- LocalContents,
    Holes <- {}, Versioning <- VersioningEnabled,
    file <- disk, kept <- versions, busy <- Active,
    touched <- localEdits > 0, spoiled <- damages > 0 \/ srcEdits > 0

ReceivesFile == Receives!Spec

\* What the interface shows as Synced is there and the index knows it: unless
\* users or faults interfered, it is one of the sender's files.
SyncedIsPublished ==
  status = "synced" /\ localEdits = 0 =>
    /\ disk # Absent /\ index = disk
    /\ damages = 0 /\ srcEdits = 0 => disk \in SourceContents

\* Chunks of a file whose size is a multiple of the chunk size: the last one
\* announced is never sent.
NeverComplete == Answer(relay, Len(src)) = "chunks" /\ Len(src) % ChunkSize = 0

\* A request comes to an end, its goroutine returns and gives its place among
\* the parallel transfers back, unless the sender's file never completes.
TransferEnds ==
  rpc = "requested" ~> ~Active \/ srcEdits > 0 \/ NeverComplete
=============================================================================
