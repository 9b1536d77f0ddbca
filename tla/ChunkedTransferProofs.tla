----------------------- MODULE ChunkedTransferProofs -----------------------
(***************************************************************************)
(* Proofs about ChunkedTransfer, for any blocks, contents, sizes and       *)
(* bounds.                                                                 *)
(*                                                                         *)
(* That it implements FileReceive rests on where the parts of a file are   *)
(* during a transfer.  While nothing was damaged and the sender's file has *)
(* not changed (Calm), the temporary file is the part of the sender's file *)
(* in front of the first chunk on the stream (StreamInv), so the last      *)
(* chunk makes it whole (PublishInv); a chunk that fails its check, or a   *)
(* file that changes, breaks this, and then only the blocks of what is     *)
(* published are the sender's (BlocksInv).  The destination is removed     *)
(* long after its copy was kept (KeptInv).                                 *)
(***************************************************************************)
EXTENDS ChunkedTransfer, SequenceTheorems, TLAPS

OfferedBlocks == UNION {{c[i] : i \in DOMAIN c} : c \in SourceContents}

Calm == damages = 0 /\ srcEdits = 0

\* The first k chunks of the sender's file.
Upto(k) == IF k * ChunkSize > Len(src) THEN Len(src) ELSE k * ChunkSize
Assembled(k) == SubSeq(src, 1, Upto(k))

\* The number of the first chunk on the stream.
Taken == chunk - Len(net)

ChunkMessage(i) ==
  [kind |-> "chunk", index |-> i, total |-> total, data |-> ReadChunk(src, i)]

\* A copy of the destination is kept, or none is needed.
DestIsKept ==
  VersioningEnabled /\ localEdits = 0 =>
    disk = Absent \/ disk \in versions \cup SourceContents

NetInv ==
  \A k \in DOMAIN net :
    /\ net[k].data # <<>>
    /\ \A i \in DOMAIN net[k].data :
         \/ net[k].data[i] \in OfferedBlocks
         \/ net[k].data[i] = Bad /\ damages > 0

\* Either damaged data is told apart, or there is none.
ChecksApply == IntegrityCheckEnabled \/ MaxDamages = 0

BlocksInv ==
  /\ damages <= MaxDamages
  /\ ChecksApply /\ tmp # Absent => \A i \in DOMAIN tmp : tmp[i] \in OfferedBlocks

DataStream ==
  /\ spc = "served"
  /\ \A k \in DOMAIN net : net[k] = [kind |-> "data", data |-> src]

ChunkStream ==
  /\ spc \in {"sending", "served"}
  /\ total = TotalChunks(Len(src)) /\ chunk <= total
  /\ Len(net) <= chunk
  /\ \A k \in DOMAIN net : net[k] = ChunkMessage(Taken + k - 1)
  /\ Taken > 0 => tmp = Assembled(Taken) /\ DestIsKept

StreamInv ==
  rpc = "requested" /\ Calm =>
    \/ spc = "asked" /\ net = <<>> /\ chunk = 0
    \/ DataStream
    \/ ChunkStream

PublishInv ==
  /\ rpc = "requested" => final = Absent
  /\ rpc \in {"removing", "renaming", "retrying"} =>
       /\ tmp # Absent
       /\ final # Absent => tmp = final
       /\ Calm => tmp \in SourceContents

KeptInv ==
  /\ rpc \in {"removing", "retrying"} /\ Calm => DestIsKept
  /\ rpc = "renaming" /\ localEdits = 0 => disk = Absent

PublishedInv ==
  /\ rpc \in {"verifying", "finishing"} /\ localEdits = 0 =>
       /\ disk # Absent
       /\ final # Absent => disk = final
       /\ Calm => disk \in SourceContents
  /\ status = "synced" => rpc = "done"

IInv ==
  /\ TypeOK /\ NetInv /\ BlocksInv
  /\ StreamInv /\ PublishInv /\ KeptInv /\ PublishedInv /\ SyncedIsPublished

-----------------------------------------------------------------------------
(* Lemmas about files and chunks. *)

\* The sender's files are files, none of their blocks is damaged, and their
\* blocks are those that are offered.
LEMMA SourceFacts ==
  ASSUME NEW c \in SourceContents
  PROVE  /\ c \in Seq(Block) /\ c \in File /\ c # Absent /\ c # <<>>
         /\ Len(c) \in Nat \ {0} /\ DOMAIN c = 1 .. Len(c)
         /\ \A i \in 1 .. Len(c) : c[i] \in Block /\ c[i] \in OfferedBlocks
BY ContentAssumption, BlockAssumption DEF File, OfferedBlocks

LEMMA OfferedAreBlocks == OfferedBlocks \subseteq Block
BY ContentAssumption DEF OfferedBlocks

\* Multiples of the chunk size, for the solver: it does not multiply variables.
LEMMA ChunkEnds ==
  ASSUME NEW k \in Nat
  PROVE  k * ChunkSize \in Nat /\ (k + 1) * ChunkSize = k * ChunkSize + ChunkSize
BY SizeAssumption

LEMMA LastChunk ==
  ASSUME NEW n \in Nat
  PROVE  n \div ChunkSize \in Nat /\ (n \div ChunkSize + 1) * ChunkSize > n
BY SizeAssumption

LEMMA TotalType == ASSUME src \in SourceContents PROVE TotalChunks(Len(src)) \in Nat
<1>1. Len(src) \in Nat
  BY SourceFacts
<1> QED
  BY <1>1, LastChunk, SizeAssumption DEF TotalChunks

\* A chunk is a part of the sender's file (sendFileChunked).
LEMMA ChunkFacts ==
  ASSUME NEW c \in SourceContents, NEW i \in Nat
  PROVE  /\ ReadChunk(c, i) \in Seq(Block) /\ ReadChunk(c, i) \in File
         /\ \A j \in DOMAIN ReadChunk(c, i) :
              ReadChunk(c, i)[j] \in OfferedBlocks
<1> DEFINE from == i * ChunkSize + 1
           to == IF (i + 1) * ChunkSize > Len(c) THEN Len(c) ELSE (i + 1) * ChunkSize
<1>1. from \in Nat /\ from >= 1 /\ to \in Nat /\ to <= Len(c)
  BY ChunkEnds, SourceFacts, SizeAssumption
<1>2. \A j \in from .. to : c[j] \in Block /\ c[j] \in OfferedBlocks
  BY <1>1, SourceFacts
<1>3. /\ SubSeq(c, from, to) \in Seq(Block)
      /\ SubSeq(c, from, to) \in Seq(OfferedBlocks)
  <2>1. from \in Int /\ to \in Int
    BY <1>1
  <2> HIDE DEF from, to
  <2> QED
    BY <1>2, <2>1, SubSeqProperties
<1>4. ReadChunk(c, i) = SubSeq(c, from, to)
  BY DEF ReadChunk
<1>5. \A S : \A t \in Seq(S) : \A j \in DOMAIN t : t[j] \in S
  OBVIOUS
<1>6. Seq(Block) \subseteq File
  BY DEF File
<1> HIDE DEF from, to
<1> QED
  BY <1>3, <1>4, <1>5, <1>6

\* Putting the next chunk behind the first k gives the first k + 1.
LEMMA AssembledStep ==
  ASSUME NEW k \in Nat, src \in SourceContents
  PROVE  Assembled(k) \o ReadChunk(src, k) = Assembled(k + 1)
<1> DEFINE n == Len(src)
           K == k * ChunkSize
<1>1. src \in Seq(Block) /\ n \in Nat /\ K \in Nat /\ (k + 1) * ChunkSize = K + ChunkSize
      /\ ChunkSize \in Nat \ {0}
  BY ChunkEnds, SourceFacts, SizeAssumption
<1>2. CASE K <= n
  <2>1. Upto(k) = K /\ Upto(k + 1) \in K .. n
    BY <1>1, <1>2 DEF Upto
  <2>2. ReadChunk(src, k) = SubSeq(src, K + 1, Upto(k + 1))
    BY <1>1 DEF ReadChunk, Upto
  <2>3. SubSeq(src, 1, K) \o SubSeq(src, K + 1, Upto(k + 1)) = SubSeq(src, 1, Upto(k + 1))
    <3>1. 1 \in 1 .. Len(src) + 1 /\ K \in 1 - 1 .. Len(src) /\ Upto(k + 1) \in K .. Len(src)
      BY <1>1, <1>2, <2>1
    <3> HIDE DEF n, K
    <3> QED
      BY <3>1, <1>1, ConcatAdjacentSubSeq
  <2> QED
    BY <2>1, <2>2, <2>3 DEF Assembled
<1>3. CASE K > n
  <2>1. Upto(k) = n /\ Upto(k + 1) = n
    BY <1>1, <1>3 DEF Upto
  <2>2. ReadChunk(src, k) = <<>>
    <3>1. (k + 1) * ChunkSize > n
      BY <1>1, <1>3
    <3>3. ReadChunk(src, k) = SubSeq(src, K + 1, n)
      BY <3>1 DEF ReadChunk
    <3>2. K + 1 \in Int /\ n \in Int /\ n < K + 1
      BY <1>1, <1>3
    <3> HIDE DEF n, K
    <3> QED
      BY <3>3, <3>2, SubSeqEmpty
  <2>3. SubSeq(src, 1, n) = src
    BY <1>1, SubSeqFull
  <2> QED
    BY <2>1, <2>2, <2>3, <1>1, ConcatEmptySeq DEF Assembled
<1> QED
  BY <1>1, <1>2, <1>3

\* The first chunk truncates, and what all chunks make is the file.
LEMMA AssembledEnds ==
  ASSUME src \in SourceContents
  PROVE  /\ ReadChunk(src, 0) = Assembled(1)
         /\ Assembled(TotalChunks(Len(src))) = src
         /\ \A k \in Nat : Assembled(k) \in File
<1>1. src \in Seq(Block) /\ Len(src) \in Nat
  BY SourceFacts
<1>2. ReadChunk(src, 0) = Assembled(1)
  <2>1. 0 * ChunkSize + 1 = 1 /\ 1 * ChunkSize = ChunkSize /\ 0 + 1 = 1
    BY SizeAssumption
  <2> QED
    BY <2>1 DEF ReadChunk, Assembled, Upto
<1>3. Assembled(TotalChunks(Len(src))) = src
  BY <1>1, LastChunk, SubSeqFull DEF Assembled, Upto, TotalChunks
<1>4. ASSUME NEW k \in Nat PROVE Assembled(k) \in File
  <2>1. Upto(k) \in Int /\ Upto(k) <= Len(src)
    BY <1>1, ChunkEnds DEF Upto
  <2>2. \A i \in 1 .. Upto(k) : src[i] \in Block \cup {Bad}
    BY <2>1, <1>1, SourceFacts
  <2> QED
    BY <2>1, <2>2, SubSeqProperties DEF Assembled, File
<1> QED
  BY <1>2, <1>3, <1>4

-----------------------------------------------------------------------------
(* The invariant, action by action. *)

LEMMA InitInv == Init => IInv
<1> SUFFICES ASSUME Init PROVE IInv
  OBVIOUS
<1>1. src \in File /\ (disk \in File \/ disk = Absent) /\ net \in Seq(Message)
  BY SourceFacts, ContentAssumption DEF Init, File
<1>2. TypeOK
  BY <1>1 DEF Init, TypeOK
<1>3. NetInv /\ BlocksInv
  BY BoundAssumption DEF Init, NetInv, BlocksInv
<1>4. StreamInv /\ PublishInv /\ KeptInv /\ PublishedInv /\ SyncedIsPublished
  BY DEF Init, StreamInv, PublishInv, KeptInv, PublishedInv, SyncedIsPublished
<1> QED
  BY <1>2, <1>3, <1>4 DEF IInv

LEMMA RequestInv == IInv /\ Request => IInv'
<1> SUFFICES ASSUME IInv, Request PROVE IInv'
  OBVIOUS
<1> USE DEF Request, IInv
<1>1. TypeOK'
  BY DEF TypeOK, Message
<1>2. NetInv' /\ BlocksInv'
  BY DEF NetInv, BlocksInv
<1>3. StreamInv' /\ PublishInv' /\ KeptInv' /\ PublishedInv' /\ SyncedIsPublished'
  BY DEF StreamInv, PublishInv, KeptInv, PublishedInv, SyncedIsPublished
<1> QED
  BY <1>1, <1>2, <1>3

\* What a message that is put behind the others must be.
LEMMA AppendNet ==
  ASSUME TypeOK, NEW m \in Message, net' = Append(net, m)
  PROVE  /\ net' \in Seq(Message) /\ Len(net') = Len(net) + 1
         /\ DOMAIN net = 1 .. Len(net) /\ DOMAIN net' = 1 .. (Len(net) + 1)
         /\ \A k \in 1 .. Len(net) : net'[k] = net[k]
         /\ net'[Len(net) + 1] = m /\ Len(net) \in Nat
BY DEF TypeOK

LEMMA SendWholeInv == IInv /\ SendWhole => IInv'
<1> SUFFICES ASSUME IInv, SendWhole PROVE IInv'
  OBVIOUS
<1> DEFINE m == [kind |-> "data", data |-> src]
<1>1. src \in SourceContents /\ src \in File /\ src # <<>> /\ m \in Message
      /\ \A i \in DOMAIN src : src[i] \in OfferedBlocks
  BY SourceFacts DEF IInv, TypeOK, Message
<1>2. net' = Append(net, m) /\ UNCHANGED <<recvVars, src, total, chunk, envVars>>
      /\ spc = "asked" /\ spc' = "served"
  BY DEF SendWhole
<1>3. /\ net' \in Seq(Message) /\ DOMAIN net' = 1 .. (Len(net) + 1)
      /\ DOMAIN net = 1 .. Len(net)
      /\ \A k \in 1 .. Len(net) : net'[k] = net[k]
      /\ net'[Len(net) + 1] = m /\ Len(net) \in Nat
  BY <1>1, <1>2, AppendNet DEF IInv
<1>4. TypeOK'
  BY <1>2, <1>3 DEF IInv, TypeOK, recvVars, envVars
<1>5. NetInv'
  BY <1>1, <1>2, <1>3 DEF IInv, NetInv, recvVars, envVars
<1>6. StreamInv'
  <2> SUFFICES ASSUME (rpc = "requested" /\ Calm)' PROVE DataStream'
    BY DEF StreamInv
  <2>1. net = <<>>
    BY <1>2 DEF IInv, StreamInv, DataStream, ChunkStream, Calm, recvVars, envVars
  <2> QED
    BY <1>2, <1>3, <2>1 DEF DataStream
<1>7. BlocksInv' /\ PublishInv' /\ KeptInv' /\ PublishedInv' /\ SyncedIsPublished'
  BY <1>2 DEF IInv, BlocksInv, PublishInv, KeptInv, PublishedInv, SyncedIsPublished,
              DestIsKept, Calm, recvVars, envVars
<1> QED
  BY <1>4, <1>5, <1>6, <1>7 DEF IInv

LEMMA OpenChunkedInv == IInv /\ OpenChunked => IInv'
<1> SUFFICES ASSUME IInv, OpenChunked PROVE IInv'
  OBVIOUS
<1> USE DEF OpenChunked, IInv, recvVars, envVars
<1>1. TypeOK'
  <2>1. TotalChunks(Len(src)) \in Nat
    BY TotalType DEF TypeOK
  <2> QED
    BY <2>1 DEF TypeOK
<1>2. NetInv' /\ BlocksInv'
  BY DEF NetInv, BlocksInv
<1>3. StreamInv'
  <2> SUFFICES ASSUME (rpc = "requested" /\ Calm)' PROVE ChunkStream'
    BY DEF StreamInv
  <2>1. net = <<>> /\ chunk = 0
    BY DEF StreamInv, DataStream, ChunkStream, Calm
  <2>2. TotalChunks(Len(src)) \in Nat
    BY TotalType DEF TypeOK
  <2> QED
    BY <2>1, <2>2 DEF ChunkStream, Taken
<1>4. PublishInv' /\ KeptInv' /\ PublishedInv' /\ SyncedIsPublished'
  BY DEF PublishInv, KeptInv, PublishedInv, SyncedIsPublished, DestIsKept, Calm
<1> QED
  BY <1>1, <1>2, <1>3, <1>4

LEMMA SendChunkInv == IInv /\ SendChunk => IInv'
<1> SUFFICES ASSUME IInv, SendChunk PROVE IInv'
  OBVIOUS
<1> DEFINE m == ChunkMessage(chunk)
<1>1. src \in SourceContents /\ chunk \in Nat /\ total \in Nat /\ m \in Message
      /\ m.data = ReadChunk(src, chunk)
      /\ \A i \in DOMAIN m.data : m.data[i] \in OfferedBlocks
  BY ChunkFacts DEF IInv, TypeOK, Message, ChunkMessage
<1>2. /\ net' = Append(net, m) /\ UNCHANGED <<recvVars, src, spc, total, envVars>>
      /\ spc = "sending" /\ chunk < total /\ chunk' = chunk + 1 /\ m.data # <<>>
  BY <1>1 DEF SendChunk, ChunkMessage
<1>3. /\ net' \in Seq(Message) /\ DOMAIN net' = 1 .. (Len(net) + 1)
      /\ DOMAIN net = 1 .. Len(net) /\ Len(net') = Len(net) + 1
      /\ \A k \in 1 .. Len(net) : net'[k] = net[k]
      /\ net'[Len(net) + 1] = m /\ Len(net) \in Nat
  BY <1>1, <1>2, AppendNet DEF IInv
<1>4. TypeOK'
  BY <1>1, <1>2, <1>3 DEF IInv, TypeOK, recvVars, envVars
<1>5. NetInv'
  <2> SUFFICES ASSUME NEW k \in 1 .. (Len(net) + 1)
               PROVE  /\ net'[k].data # <<>>
                      /\ \A i \in DOMAIN net'[k].data :
                           \/ net'[k].data[i] \in OfferedBlocks
                           \/ net'[k].data[i] = Bad /\ damages' > 0
    BY <1>3 DEF NetInv
  <2>1. CASE k = Len(net) + 1
    BY <2>1, <1>1, <1>2, <1>3
  <2>2. CASE k \in 1 .. Len(net)
    BY <2>2, <1>2, <1>3 DEF IInv, NetInv, envVars
  <2> QED
    BY <2>1, <2>2, <1>3
<1>6. StreamInv'
  <2> SUFFICES ASSUME (rpc = "requested" /\ Calm)' PROVE ChunkStream'
    BY DEF StreamInv
  <2>1. ChunkStream
    BY <1>2 DEF IInv, StreamInv, DataStream, Calm, recvVars, envVars
  <2>2. Taken' = Taken /\ chunk = Taken + (Len(net) + 1) - 1
    BY <1>1, <1>2, <1>3 DEF Taken
  <2>3. net'[Len(net) + 1] = ChunkMessage(Taken + (Len(net) + 1) - 1)
    BY <1>3, <2>2
  <2>4. \A k \in 1 .. (Len(net) + 1) :
          net'[k] = [kind |-> "chunk", index |-> Taken' + k - 1, total |-> total',
                     data |-> ReadChunk(src', Taken' + k - 1)]
    <3> SUFFICES ASSUME NEW k \in 1 .. (Len(net) + 1)
                 PROVE  net'[k] = ChunkMessage(Taken + k - 1)
      BY <2>2, <1>2 DEF ChunkMessage
    <3>1. CASE k = Len(net) + 1
      BY <3>1, <2>3
    <3>2. CASE k \in 1 .. Len(net)
      BY <3>2, <2>1, <1>3 DEF ChunkStream
    <3> QED
      BY <3>1, <3>2, <1>3
  <2>5. (Taken > 0 => tmp = Assembled(Taken) /\ DestIsKept)'
    BY <2>1, <2>2, <1>2 DEF ChunkStream, Assembled, Upto, DestIsKept, recvVars, envVars
  <2> QED
    BY <1>1, <1>2, <1>3, <2>1, <2>4, <2>5 DEF ChunkStream, ChunkMessage
<1>7. BlocksInv' /\ PublishInv' /\ KeptInv' /\ PublishedInv' /\ SyncedIsPublished'
  BY <1>2 DEF IInv, BlocksInv, PublishInv, KeptInv, PublishedInv, SyncedIsPublished,
              DestIsKept, Calm, recvVars, envVars
<1> QED
  BY <1>4, <1>5, <1>6, <1>7 DEF IInv

LEMMA EndChunksInv == IInv /\ EndChunks => IInv'
<1> SUFFICES ASSUME IInv, EndChunks PROVE IInv'
  OBVIOUS
<1> USE DEF EndChunks, IInv, recvVars, envVars
<1>1. TypeOK' /\ NetInv' /\ BlocksInv'
  BY DEF TypeOK, NetInv, BlocksInv
<1>2. StreamInv'
  <2> SUFFICES ASSUME (rpc = "requested" /\ Calm)' PROVE ChunkStream'
    BY DEF StreamInv
  <2>1. ChunkStream
    BY DEF StreamInv, DataStream, Calm
  <2> QED
    BY <2>1 DEF ChunkStream, Taken, ChunkMessage, Assembled, Upto, DestIsKept
<1>3. PublishInv' /\ KeptInv' /\ PublishedInv' /\ SyncedIsPublished'
  BY DEF PublishInv, KeptInv, PublishedInv, SyncedIsPublished, DestIsKept, Calm
<1> QED
  BY <1>1, <1>2, <1>3

\* What is left on the stream after its first message.
LEMMA TailNet ==
  ASSUME TypeOK, net # <<>>, net' = Tail(net)
  PROVE  /\ net' \in Seq(Message) /\ Len(net') = Len(net) - 1 /\ Len(net) \in Nat \ {0}
         /\ DOMAIN net = 1 .. Len(net) /\ DOMAIN net' = 1 .. (Len(net) - 1)
         /\ \A k \in 1 .. (Len(net) - 1) : net'[k] = net[k + 1]
         /\ Head(net) = net[1] /\ Head(net) \in Message
<1>1. net \in Seq(Message)
  BY DEF TypeOK
<1> QED
  BY <1>1, HeadTailProperties

\* A step of the receiver that reads a message.
LEMMA TakeMessage ==
  ASSUME IInv, net # <<>>, net' = Tail(net), UNCHANGED <<src, damages>>
  PROVE  NetInv' /\ net' \in Seq(Message)
BY TailNet DEF IInv, NetInv

\* A message that passes its check has the sender's blocks only, and on an
\* undisturbed stream every message passes (VerifyChunkIntegrity).
LEMMA AcceptedBlocks ==
  ASSUME IInv, net # <<>>, ChecksApply, Accepted(Head(net))
  PROVE  \A i \in DOMAIN Head(net).data : Head(net).data[i] \in OfferedBlocks
<1>1. 1 \in DOMAIN net /\ Head(net) = net[1]
  BY DEF IInv, TypeOK
<1>2. \A i \in DOMAIN net[1].data :
        net[1].data[i] \in OfferedBlocks \/ (net[1].data[i] = Bad /\ damages > 0)
  BY <1>1 DEF IInv, NetInv
<1>3. damages > 0 => IntegrityCheckEnabled
  BY BoundAssumption DEF IInv, BlocksInv, ChecksApply, TypeOK
<1> QED
  BY <1>1, <1>2, <1>3 DEF Accepted, Intact

LEMMA CalmAccepts ==
  ASSUME IInv, net # <<>>, Calm
  PROVE  Accepted(Head(net))
<1>1. 1 \in DOMAIN net /\ Head(net) = net[1]
  BY DEF IInv, TypeOK
<1>2. \A i \in DOMAIN net[1].data : net[1].data[i] \in OfferedBlocks
  BY <1>1 DEF IInv, NetInv, Calm
<1> QED
  BY <1>1, <1>2, OfferedAreBlocks, BlockAssumption DEF Accepted, Intact

\* SaveVersion leaves a copy of the destination behind.
LEMMA SaveKeeps ==
  ASSUME versions' = SavedVersions, UNCHANGED <<disk, localEdits>>
  PROVE  DestIsKept'
BY DEF SavedVersions, DestIsKept

LEMMA SavedType == ASSUME TypeOK PROVE SavedVersions \subseteq File
BY DEF TypeOK, SavedVersions

LEMMA ReceiveDataInv == IInv /\ ReceiveData => IInv'
<1> SUFFICES ASSUME IInv, ReceiveData PROVE IInv'
  OBVIOUS
<1> DEFINE m == Head(net)
<1>1. /\ rpc = "requested" /\ net # <<>> /\ m.kind = "data" /\ net' = Tail(net)
      /\ UNCHANGED <<disk, index, status, relay, tries, sendVars, envVars>>
  BY DEF ReceiveData
<1>2. NetInv' /\ net' \in Seq(Message)
  BY <1>1, TakeMessage DEF sendVars, envVars
<1>3. m \in Message /\ m.data \in File /\ m.data # Absent
  BY <1>1, TailNet, BlockAssumption DEF IInv, Message
<1>4. status # "synced"
  BY <1>1 DEF IInv, PublishedInv
<1>5. CASE ~Accepted(m) /\ rpc' = "done" /\ UNCHANGED <<tmp, versions, final>>
  <2>1. TypeOK' /\ BlocksInv'
    BY <1>1, <1>2, <1>5 DEF IInv, TypeOK, BlocksInv, sendVars, envVars
  <2>2. StreamInv' /\ PublishInv' /\ KeptInv' /\ PublishedInv' /\ SyncedIsPublished'
    BY <1>1, <1>4, <1>5 DEF StreamInv, PublishInv, KeptInv, PublishedInv, SyncedIsPublished
  <2> QED
    BY <1>2, <2>1, <2>2 DEF IInv
<1>6. CASE /\ Accepted(m) /\ versions' = SavedVersions /\ tmp' = m.data
           /\ final' = m.data /\ rpc' = "removing"
  <2>1. TypeOK'
    BY <1>1, <1>2, <1>3, <1>6, SavedType DEF IInv, TypeOK, sendVars, envVars
  <2>2. BlocksInv'
    BY <1>1, <1>6, AcceptedBlocks DEF IInv, BlocksInv, envVars
  <2>3. PublishInv'
    <3> SUFFICES ASSUME Calm PROVE m.data \in SourceContents
      BY <1>1, <1>3, <1>6 DEF PublishInv, Calm, envVars
    <3>1. DataStream
      <4>1. 1 \in DOMAIN net /\ m = net[1]
        BY <1>1, TailNet DEF IInv
      <4> QED
        BY <4>1, <1>1 DEF IInv, StreamInv, ChunkStream, ChunkMessage
    <3> QED
      BY <3>1, <1>1, TailNet DEF DataStream, IInv, TypeOK
  <2>4. KeptInv'
    BY <1>1, <1>6, SaveKeeps DEF KeptInv, envVars
  <2>5. StreamInv' /\ PublishedInv' /\ SyncedIsPublished'
    BY <1>1, <1>4, <1>6 DEF StreamInv, PublishedInv, SyncedIsPublished
  <2> QED
    BY <1>2, <2>1, <2>2, <2>3, <2>4, <2>5 DEF IInv
<1> QED
  BY <1>5, <1>6 DEF ReceiveData

\* The temporary file after a chunk has the blocks of both.
LEMMA WrittenBlocks ==
  ASSUME NEW t \in File, NEW d \in File, NEW S,
         \A i \in DOMAIN t : t[i] \in S, \A i \in DOMAIN d : d[i] \in S
  PROVE  /\ t \o d \in File /\ \A i \in DOMAIN (t \o d) : (t \o d)[i] \in S
<1>1. t \in Seq(S) /\ d \in Seq(S)
  BY DEF File
<1>2. t \o d \in Seq(S) /\ t \o d \in File
  BY <1>1, ConcatProperties DEF File
<1> QED
  BY <1>2

\* On an undisturbed stream of chunks the next one follows those received.
LEMMA NextChunk ==
  ASSUME IInv, rpc = "requested", Calm, net # <<>>, Head(net).kind = "chunk"
  PROVE  /\ ChunkStream /\ Taken \in Nat /\ Taken < total
         /\ Head(net) = ChunkMessage(Taken)
<1>1. /\ DOMAIN net = 1 .. Len(net) /\ Len(net) \in Nat \ {0} /\ Head(net) = net[1]
      /\ chunk \in Nat /\ total \in Nat
  BY DEF IInv, TypeOK
<1>2. ~DataStream
  BY <1>1 DEF DataStream
<1>3. ChunkStream
  BY <1>2 DEF IInv, StreamInv
<1>4. Taken \in Nat /\ Taken < total /\ Taken + 1 - 1 = Taken
  BY <1>1, <1>3 DEF ChunkStream, Taken
<1>5. net[1] = ChunkMessage(Taken + 1 - 1)
  BY <1>1, <1>3 DEF ChunkStream
<1> QED
  BY <1>1, <1>3, <1>4, <1>5

LEMMA ReceiveChunkInv == IInv /\ ReceiveChunk => IInv'
<1> SUFFICES ASSUME IInv, ReceiveChunk PROVE IInv'
  OBVIOUS
<1> DEFINE m == Head(net)
<1>1. /\ rpc = "requested" /\ net # <<>> /\ m.kind = "chunk" /\ net' = Tail(net)
      /\ UNCHANGED <<disk, index, status, relay, final, tries, sendVars, envVars>>
  BY DEF ReceiveChunk
<1>2. NetInv' /\ net' \in Seq(Message)
  BY <1>1, TakeMessage DEF sendVars, envVars
<1>3. m \in Message /\ m.data \in File /\ m.data # Absent
      /\ m.index \in Nat /\ m.total \in Nat
  BY <1>1, TailNet, BlockAssumption DEF IInv, Message
<1>4. status # "synced" /\ final = Absent
  BY <1>1 DEF IInv, PublishedInv, PublishInv
<1>5. CASE ~Accepted(m) /\ rpc' = AfterChunk(m) /\ UNCHANGED <<tmp, versions>>
  <2>1. ~Calm /\ rpc' \in {"done", "requested"}
    BY <1>1, <1>5, CalmAccepts DEF AfterChunk
  <2>2. TypeOK' /\ BlocksInv'
    BY <1>1, <1>2, <1>5, <2>1 DEF IInv, TypeOK, BlocksInv, sendVars, envVars
  <2>3. StreamInv' /\ PublishInv' /\ KeptInv' /\ PublishedInv' /\ SyncedIsPublished'
    BY <1>1, <1>4, <1>5, <2>1 DEF StreamInv, PublishInv, KeptInv, PublishedInv,
                                  SyncedIsPublished, Calm, envVars
  <2> QED
    BY <1>2, <2>2, <2>3 DEF IInv
<1>6. CASE /\ Accepted(m)
           /\ versions' = IF m.index = 0 THEN SavedVersions ELSE versions
           /\ tmp' = WrittenChunk(m)
           /\ rpc' = IF m.index = m.total - 1 THEN "removing" ELSE "requested"
  <2>1. tmp' \in File /\ tmp' # Absent
    <3>1. tmp # Absent => tmp \o m.data \in File
      BY <1>3, ConcatProperties DEF IInv, TypeOK, File
    <3> QED
      BY <1>3, <1>6, <3>1, BlockAssumption DEF WrittenChunk
  <2>2. versions' \subseteq File
    BY <1>6, SavedType DEF IInv, TypeOK
  <2>3. TypeOK'
    BY <1>1, <1>2, <1>6, <2>1, <2>2 DEF IInv, TypeOK, sendVars, envVars
  <2>4. BlocksInv'
    <3>1. damages' <= MaxDamages
      BY <1>1 DEF IInv, BlocksInv, envVars
    <3>2. ASSUME ChecksApply PROVE \A i \in DOMAIN tmp' : tmp'[i] \in OfferedBlocks
      <4>1. \A i \in DOMAIN m.data : m.data[i] \in OfferedBlocks
        BY <1>1, <1>6, <3>2, AcceptedBlocks
      <4>2. CASE m.index = 0 \/ tmp = Absent
        BY <1>6, <4>1, <4>2 DEF WrittenChunk
      <4>3. CASE ~(m.index = 0 \/ tmp = Absent)
        <5>1. tmp \in File /\ \A i \in DOMAIN tmp : tmp[i] \in OfferedBlocks
          BY <4>3, <3>2 DEF IInv, TypeOK, BlocksInv
        <5>2. tmp' = tmp \o m.data
          BY <1>6, <4>3 DEF WrittenChunk
        <5> QED
          BY <1>3, <4>1, <5>1, <5>2, WrittenBlocks
      <4> QED
        BY <4>2, <4>3
    <3> QED
      BY <3>1, <3>2 DEF BlocksInv
  <2>5. ASSUME Calm
        PROVE  /\ ChunkStream /\ Taken \in Nat /\ m.index = Taken /\ m.total = total
               /\ tmp' = Assembled(Taken + 1) /\ DestIsKept'
    <3>1. /\ ChunkStream /\ Taken \in Nat /\ m = ChunkMessage(Taken)
      BY <1>1, <2>5, NextChunk
    <3>2. m.index = Taken /\ m.total = total /\ m.data = ReadChunk(src, Taken)
      BY <3>1 DEF ChunkMessage
    <3>3. src \in SourceContents
      BY DEF IInv, TypeOK
    <3>4. CASE Taken = 0
      <4>1. versions' = SavedVersions /\ tmp' = m.data
        BY <1>6, <3>2, <3>4 DEF WrittenChunk
      <4>2. DestIsKept'
        BY <1>1, <4>1, SaveKeeps DEF envVars
      <4>3. m.data = Assembled(1)
        BY <3>2, <3>3, <3>4, AssembledEnds
      <4>4. Taken + 1 = 1
        BY <3>4
      <4> QED
        BY <3>1, <3>2, <4>1, <4>2, <4>3, <4>4
    <3>5. CASE Taken > 0
      <4>1. tmp = Assembled(Taken) /\ DestIsKept /\ tmp # Absent
        BY <3>1, <3>3, <3>5, AssembledEnds, BlockAssumption DEF ChunkStream
      <4>2. tmp' = Assembled(Taken) \o ReadChunk(src, Taken) /\ versions' = versions
        BY <1>6, <3>1, <3>2, <3>5, <4>1 DEF WrittenChunk
      <4> QED
        BY <1>1, <3>1, <3>2, <3>3, <4>1, <4>2, AssembledStep DEF DestIsKept, envVars
    <3> QED
      BY <3>1, <3>2, <3>4, <3>5
  <2>6. StreamInv'
    <3> SUFFICES ASSUME Calm, rpc' = "requested" PROVE ChunkStream'
      BY <1>1 DEF StreamInv, Calm, envVars
    <3>1. Taken' = Taken + 1 /\ Len(net') = Len(net) - 1 /\ DOMAIN net' = 1 .. (Len(net) - 1)
          /\ \A k \in 1 .. (Len(net) - 1) : net'[k] = net[k + 1]
          /\ Len(net) \in Nat /\ DOMAIN net = 1 .. Len(net)
      BY <1>1, TailNet DEF IInv, TypeOK, Taken, sendVars
    <3>2. \A k \in 1 .. (Len(net) - 1) :
            net'[k] = [kind |-> "chunk", index |-> Taken' + k - 1, total |-> total',
                       data |-> ReadChunk(src', Taken' + k - 1)]
      <4> SUFFICES ASSUME NEW k \in 1 .. (Len(net) - 1)
                   PROVE  net[k + 1] = ChunkMessage(Taken + 1 + k - 1)
        BY <3>1, <1>1 DEF ChunkMessage, sendVars
      <4>1. k + 1 \in DOMAIN net /\ Taken + 1 + k - 1 = Taken + (k + 1) - 1
        <5>1. Taken \in Nat /\ Len(net) \in Nat /\ k \in Nat /\ k >= 1 /\ k <= Len(net) - 1
          BY <3>1, <2>5
        <5>2. k + 1 \in 1 .. Len(net)
          BY <5>1
        <5> QED
          BY <3>1, <5>1, <5>2
      <4> QED
        BY <4>1, <2>5 DEF ChunkStream
    <3>3. tmp' = SubSeq(src, 1, Upto(Taken + 1))
      BY <2>5 DEF Assembled
    <3>4. /\ spc' \in {"sending", "served"} /\ total' = TotalChunks(Len(src'))
          /\ chunk' <= total' /\ Len(net') <= chunk'
      BY <1>1, <2>5, <3>1 DEF ChunkStream, sendVars, IInv, TypeOK, Taken
    <3>5. tmp' = Assembled(Taken)'
      BY <1>1, <3>1, <3>3 DEF Assembled, Upto, sendVars
    <3> QED
      BY <2>5, <3>1, <3>2, <3>4, <3>5 DEF ChunkStream, ChunkMessage
  <2>7. PublishInv'
    <3> SUFFICES ASSUME Calm, rpc' = "removing" PROVE tmp' = src
      BY <1>1, <1>4, <1>6, <2>1 DEF PublishInv, Calm, envVars, sendVars, IInv, TypeOK
    <3>1. Taken + 1 = total
      BY <1>6, <2>5 DEF IInv, TypeOK
    <3> QED
      BY <2>5, <3>1, AssembledEnds DEF ChunkStream, IInv, TypeOK
  <2>8. KeptInv'
    BY <1>1, <1>6, <2>5 DEF KeptInv, Calm, envVars
  <2>9. PublishedInv' /\ SyncedIsPublished'
    BY <1>1, <1>4, <1>6 DEF PublishedInv, SyncedIsPublished
  <2> QED
    BY <1>2, <2>3, <2>4, <2>6, <2>7, <2>8, <2>9 DEF IInv
<1> QED
  BY <1>5, <1>6 DEF ReceiveChunk

LEMMA RemoveDestInv == IInv /\ RemoveDest => IInv'
<1> SUFFICES ASSUME IInv, RemoveDest PROVE IInv'
  OBVIOUS
<1> USE DEF RemoveDest, IInv, sendVars, envVars
<1>1. TypeOK' /\ NetInv' /\ BlocksInv'
  BY DEF TypeOK, NetInv, BlocksInv
<1>2. StreamInv' /\ PublishInv' /\ KeptInv' /\ PublishedInv' /\ SyncedIsPublished'
  BY DEF StreamInv, PublishInv, KeptInv, PublishedInv, SyncedIsPublished, DestIsKept, Calm
<1> QED
  BY <1>1, <1>2

LEMMA DestLockedInv == IInv /\ DestLocked => IInv'
<1> SUFFICES ASSUME IInv, DestLocked PROVE IInv'
  OBVIOUS
<1> USE DEF DestLocked, IInv, sendVars, envVars
<1>1. TypeOK' /\ NetInv' /\ BlocksInv'
  BY DEF TypeOK, NetInv, BlocksInv
<1>2. StreamInv' /\ PublishInv' /\ KeptInv' /\ PublishedInv' /\ SyncedIsPublished'
  BY DEF StreamInv, PublishInv, KeptInv, PublishedInv, SyncedIsPublished, DestIsKept, Calm
<1> QED
  BY <1>1, <1>2

LEMMA RenameTempInv == IInv /\ RenameTemp => IInv'
<1> SUFFICES ASSUME IInv, RenameTemp PROVE IInv'
  OBVIOUS
<1> USE DEF RenameTemp, IInv, sendVars, envVars
<1>1. TypeOK' /\ NetInv' /\ BlocksInv'
  BY DEF TypeOK, NetInv, BlocksInv
<1>2. StreamInv' /\ PublishInv' /\ KeptInv' /\ PublishedInv' /\ SyncedIsPublished'
  BY DEF StreamInv, PublishInv, KeptInv, PublishedInv, SyncedIsPublished, Calm
<1> QED
  BY <1>1, <1>2

LEMMA TempLockedInv == IInv /\ TempLocked => IInv'
<1> SUFFICES ASSUME IInv, TempLocked PROVE IInv'
  OBVIOUS
<1> USE DEF TempLocked, IInv, sendVars, envVars
<1>1. TypeOK' /\ NetInv' /\ BlocksInv'
  BY DEF TypeOK, NetInv, BlocksInv
<1>2. StreamInv' /\ PublishInv' /\ KeptInv' /\ PublishedInv' /\ SyncedIsPublished'
  BY DEF StreamInv, PublishInv, KeptInv, PublishedInv, SyncedIsPublished, DestIsKept, Calm
<1> QED
  BY <1>1, <1>2

LEMMA RetryInv == IInv /\ Retry => IInv'
<1> SUFFICES ASSUME IInv, Retry PROVE IInv'
  OBVIOUS
<1> USE DEF Retry, IInv, sendVars, envVars
<1>1. TypeOK' /\ NetInv' /\ BlocksInv'
  BY DEF TypeOK, NetInv, BlocksInv
<1>2. StreamInv' /\ PublishInv' /\ KeptInv' /\ PublishedInv' /\ SyncedIsPublished'
  BY DEF StreamInv, PublishInv, KeptInv, PublishedInv, SyncedIsPublished, DestIsKept, Calm
<1> QED
  BY <1>1, <1>2

LEMMA VerifyInv == IInv /\ Verify => IInv'
<1> SUFFICES ASSUME IInv, Verify PROVE IInv'
  OBVIOUS
<1> USE DEF Verify, IInv, sendVars, envVars
<1>1. TypeOK' /\ NetInv' /\ BlocksInv'
  BY DEF TypeOK, NetInv, BlocksInv
<1>2. StreamInv' /\ PublishInv' /\ KeptInv' /\ PublishedInv' /\ SyncedIsPublished'
  BY DEF StreamInv, PublishInv, KeptInv, PublishedInv, SyncedIsPublished, Calm
<1> QED
  BY <1>1, <1>2

LEMMA FinishInv == IInv /\ Finish => IInv'
<1> SUFFICES ASSUME IInv, Finish PROVE IInv'
  OBVIOUS
<1> USE DEF Finish, IInv, sendVars, envVars
<1>1. TypeOK' /\ NetInv' /\ BlocksInv'
  BY DEF TypeOK, NetInv, BlocksInv, Indexed
<1>2. StreamInv' /\ PublishInv' /\ KeptInv' /\ PublishedInv'
  BY DEF StreamInv, PublishInv, KeptInv, PublishedInv
<1>3. SyncedIsPublished'
  BY DEF SyncedIsPublished, PublishedInv, Indexed, Calm
<1> QED
  BY <1>1, <1>2, <1>3

\* Damage reaches the last message only, and it keeps its form.
LEMMA DamageInv == IInv /\ Damage => IInv'
<1> SUFFICES ASSUME IInv, Damage PROVE IInv'
  OBVIOUS
<1> DEFINE n == Len(net)
           m == net[n]
           d == [m EXCEPT !.data[1] = Bad]
<1>1. /\ net # <<>> /\ damages' = damages + 1 /\ damages < MaxDamages
      /\ net' = [net EXCEPT ![n].data[1] = Bad]
      /\ UNCHANGED <<recvVars, sendVars, requests, srcEdits, localEdits, crashes>>
  BY DEF Damage
<1>2. /\ net \in Seq(Message) /\ n \in Nat \ {0} /\ DOMAIN net = 1 .. n /\ n \in 1 .. n
      /\ m \in Message /\ m.data \in File /\ m.data # <<>> /\ damages \in Nat
  BY <1>1 DEF IInv, TypeOK, NetInv, Message
<1>3. /\ d \in Message /\ d.data # <<>> /\ DOMAIN d.data = DOMAIN m.data
      /\ \A i \in DOMAIN m.data : d.data[i] = IF i = 1 THEN Bad ELSE m.data[i]
  <2>1. 1 \in 1 .. Len(m.data) /\ m.data \in Seq(Block \cup {Bad})
        /\ DOMAIN m.data = 1 .. Len(m.data)
    BY <1>2 DEF File
  <2>2. /\ d.data = [m.data EXCEPT ![1] = Bad]
        /\ d = [m EXCEPT !.data = [m.data EXCEPT ![1] = Bad]]
    BY <1>2 DEF Message
  <2>3. /\ d.data \in Seq(Block \cup {Bad}) /\ Len(d.data) = Len(m.data)
        /\ \A i \in DOMAIN m.data : d.data[i] = IF i = 1 THEN Bad ELSE m.data[i]
    BY <2>1, <2>2, ExceptSeq
  <2> HIDE DEF d
  <2>4. d.data # <<>>
    BY <2>1, <2>3
  <2>5. d \in Message
    BY <1>2, <2>2, <2>3 DEF Message, File
  <2> QED
    BY <2>1, <2>3, <2>4, <2>5
<1>4. /\ net' = [net EXCEPT ![n] = d] /\ net' \in Seq(Message) /\ DOMAIN net' = 1 .. n
      /\ \A k \in 1 .. n : net'[k] = IF k = n THEN d ELSE net[k]
  <2>1. net' = [net EXCEPT ![n] = d]
    BY <1>1, <1>2
  <2> HIDE DEF d, m, n
  <2>2. n \in 1 .. Len(net)
    BY <1>2 DEF n
  <2> QED
    BY <1>2, <1>3, <2>1, <2>2, ExceptSeq DEF n
<1> HIDE DEF d
<1>5. TypeOK'
  BY <1>1, <1>2, <1>4 DEF IInv, TypeOK, recvVars, sendVars
<1>6. NetInv'
  <2> SUFFICES ASSUME NEW k \in 1 .. n
               PROVE  /\ net'[k].data # <<>>
                      /\ \A i \in DOMAIN net'[k].data :
                           \/ net'[k].data[i] \in OfferedBlocks
                           \/ net'[k].data[i] = Bad
    BY <1>1, <1>2, <1>4 DEF NetInv
  <2>1. /\ net[k].data # <<>>
        /\ \A i \in DOMAIN net[k].data :
             \/ net[k].data[i] \in OfferedBlocks
             \/ net[k].data[i] = Bad
    BY <1>2 DEF IInv, NetInv
  <2>2. CASE k = n
    BY <1>3, <1>4, <2>1, <2>2
  <2>3. CASE k # n
    BY <1>4, <2>1, <2>3
  <2> QED
    BY <2>2, <2>3
<1>7. BlocksInv'
  BY <1>1, <1>2, BoundAssumption DEF IInv, BlocksInv, recvVars
<1>8. ~Calm'
  BY <1>1, <1>2 DEF Calm
<1>9. StreamInv' /\ PublishInv' /\ KeptInv' /\ PublishedInv' /\ SyncedIsPublished'
  BY <1>1, <1>8 DEF IInv, StreamInv, PublishInv, KeptInv, PublishedInv, SyncedIsPublished,
                    Calm, recvVars, sendVars
<1> QED
  BY <1>5, <1>6, <1>7, <1>9 DEF IInv

LEMMA StreamLostInv == IInv /\ StreamLost => IInv'
<1> SUFFICES ASSUME IInv, StreamLost PROVE IInv'
  OBVIOUS
<1> USE DEF StreamLost, IInv, sendVars, envVars
<1>1. TypeOK' /\ NetInv' /\ BlocksInv'
  BY DEF TypeOK, NetInv, BlocksInv, Message
<1>2. StreamInv' /\ PublishInv' /\ KeptInv' /\ PublishedInv' /\ SyncedIsPublished'
  BY DEF StreamInv, PublishInv, KeptInv, PublishedInv, SyncedIsPublished
<1> QED
  BY <1>1, <1>2

LEMMA SourceEditInv ==
  ASSUME NEW c \in SourceContents PROVE IInv /\ SourceEdit(c) => IInv'
<1> SUFFICES ASSUME IInv, SourceEdit(c) PROVE IInv'
  OBVIOUS
<1> USE DEF SourceEdit, IInv, recvVars
<1>1. TypeOK' /\ NetInv' /\ BlocksInv'
  BY DEF TypeOK, NetInv, BlocksInv
<1>2. ~Calm'
  BY DEF TypeOK, Calm
<1>3. StreamInv' /\ PublishInv' /\ KeptInv' /\ PublishedInv' /\ SyncedIsPublished'
  BY <1>2 DEF StreamInv, PublishInv, KeptInv, PublishedInv, SyncedIsPublished, Calm, TypeOK
<1> QED
  BY <1>1, <1>3

LEMMA LocalEditInv ==
  ASSUME NEW c \in LocalContents PROVE IInv /\ LocalEdit(c) => IInv'
<1> SUFFICES ASSUME IInv, LocalEdit(c) PROVE IInv'
  OBVIOUS
<1> USE DEF LocalEdit, IInv, sendVars
<1>1. c \in File
  BY ContentAssumption DEF File
<1>2. TypeOK' /\ NetInv' /\ BlocksInv'
  BY <1>1 DEF TypeOK, NetInv, BlocksInv
<1>3. localEdits' # 0
  BY DEF TypeOK
<1>4. DestIsKept'
  BY <1>3 DEF DestIsKept
<1>5. StreamInv'
  BY <1>4 DEF StreamInv, DataStream, ChunkStream, ChunkMessage, Taken, Assembled, Upto, Calm
<1>6. PublishInv' /\ KeptInv' /\ PublishedInv' /\ SyncedIsPublished'
  BY <1>3, <1>4 DEF PublishInv, KeptInv, PublishedInv, SyncedIsPublished, Calm
<1> QED
  BY <1>2, <1>5, <1>6

LEMMA RestartInv == IInv /\ Restart => IInv'
<1> SUFFICES ASSUME IInv, Restart PROVE IInv'
  OBVIOUS
<1> USE DEF Restart, IInv
<1>1. rpc' \in {"idle", "done", "failed"}
  BY DEF Active
<1>2. TypeOK' /\ NetInv' /\ BlocksInv'
  BY <1>1 DEF TypeOK, NetInv, BlocksInv, Message
<1>3. StreamInv' /\ PublishInv' /\ KeptInv' /\ PublishedInv' /\ SyncedIsPublished'
  BY <1>1 DEF StreamInv, PublishInv, KeptInv, PublishedInv, SyncedIsPublished
<1> QED
  BY <1>2, <1>3

LEMMA StutterInv == IInv /\ UNCHANGED vars => IInv'
BY DEF vars, recvVars, sendVars, envVars, IInv, TypeOK, NetInv, BlocksInv, StreamInv,
       DataStream, ChunkStream, ChunkMessage, Taken, Assembled, Upto, DestIsKept, Calm,
       PublishInv, KeptInv, PublishedInv, SyncedIsPublished

LEMMA NextInv == IInv /\ [Next]_vars => IInv'
<1> SUFFICES ASSUME IInv, [Next]_vars PROVE IInv'
  OBVIOUS
<1>1. CASE Request
  BY <1>1, RequestInv
<1>2. CASE ReceiverStep
  BY <1>2, ReceiveDataInv, ReceiveChunkInv, RemoveDestInv, RenameTempInv, RetryInv, VerifyInv,
     FinishInv DEF ReceiverStep
<1>3. CASE SenderStep
  BY <1>3, SendWholeInv, OpenChunkedInv, SendChunkInv, EndChunksInv DEF SenderStep
<1>4. CASE Environment
  BY <1>4, DamageInv, StreamLostInv, RestartInv, DestLockedInv, TempLockedInv, SourceEditInv,
     LocalEditInv DEF Environment
<1>5. CASE UNCHANGED vars
  BY <1>5, StutterInv
<1> QED
  BY <1>1, <1>2, <1>3, <1>4, <1>5 DEF Next

LEMMA InvHolds == Spec => []IInv
BY InitInv, NextInv, PTL DEF Spec

-----------------------------------------------------------------------------
(* The refinement of FileReceive. *)

LEMMA Offers == Receives!OfferedBlocks = OfferedBlocks
BY DEF Receives!OfferedBlocks, OfferedBlocks

\* A step that leaves the file, its copies and the faults alone begins or ends
\* a request, or does nothing that concerns FileReceive.
LEMMA QuietStep ==
  ASSUME UNCHANGED <<disk, versions, localEdits, damages, srcEdits>>
  PROVE  [Receives!Next]_(Receives!vars)
<1>1. Active \in BOOLEAN /\ Active' \in BOOLEAN
  BY DEF Active
<1>2. CASE Active' = Active
  BY <1>2 DEF Receives!vars
<1>3. CASE ~Active /\ Active'
  BY <1>1, <1>3 DEF Receives!Next, Receives!Ask
<1>4. CASE Active /\ ~Active'
  BY <1>1, <1>4 DEF Receives!Next, Receives!End
<1> QED
  BY <1>1, <1>2, <1>3, <1>4

\* Saving a version keeps a copy of what there is, and does nothing when there
\* is nothing.
LEMMA SaveStep ==
  ASSUME Active, Active', versions' \in {versions, SavedVersions},
         UNCHANGED <<disk, localEdits, damages, srcEdits>>
  PROVE  [Receives!Next]_(Receives!vars)
<1>1. CASE versions' = versions
  BY <1>1, QuietStep
<1>2. CASE versions' # versions
  <2>1. disk # Absent /\ versions' = versions \cup {disk}
    BY <1>2 DEF SavedVersions
  <2> QED
    BY <2>1 DEF Receives!Next, Receives!Keep
<1> QED
  BY <1>1, <1>2

LEMMA ReceiveStep ==
  ASSUME IInv, ReceiveData \/ ReceiveChunk
  PROVE  [Receives!Next]_(Receives!vars)
<1>1. rpc = "requested" /\ UNCHANGED <<disk, localEdits, damages, srcEdits>>
  BY DEF ReceiveData, ReceiveChunk, sendVars, envVars
<1>2. CASE UNCHANGED versions
  BY <1>1, <1>2, QuietStep
<1>3. CASE versions' # versions
  <2>1. versions' = SavedVersions /\ rpc' \in {"requested", "removing"}
    BY <1>3 DEF ReceiveData, ReceiveChunk
  <2> QED
    BY <1>1, <2>1, SaveStep DEF Active
<1> QED
  BY <1>2, <1>3

\* The destination goes only when a copy is kept or none is owed (KeptInv).
LEMMA VacateStep ==
  ASSUME IInv, RemoveDest
  PROVE  [Receives!Next]_(Receives!vars)
<1>1. /\ rpc = "removing" /\ rpc' = "renaming" /\ disk' = Absent
      /\ UNCHANGED <<versions, localEdits, damages, srcEdits>>
  BY DEF RemoveDest, sendVars, envVars
<1>2. CASE disk = Absent
  BY <1>1, <1>2, QuietStep
<1>3. CASE disk # Absent
  <2>1. \/ ~VersioningEnabled \/ localEdits > 0 \/ damages > 0 \/ srcEdits > 0
        \/ disk \in versions \cup SourceContents
    BY <1>1, <1>3 DEF IInv, KeptInv, DestIsKept, Calm, TypeOK
  <2>2. Receives!Vacate
    BY <1>1, <2>1 DEF Receives!Vacate, Active
  <2> QED
    BY <2>2 DEF Receives!Next
<1> QED
  BY <1>2, <1>3

\* What is put in place is whole, or at least made of the sender's blocks.
LEMMA PublishStep ==
  ASSUME IInv, ChecksApply, RenameTemp
  PROVE  [Receives!Next]_(Receives!vars)
<1>1. /\ rpc = "renaming" /\ rpc' \in {"finishing", "verifying"} /\ disk' = tmp
      /\ UNCHANGED <<versions, localEdits, damages, srcEdits>>
  BY DEF RenameTemp, sendVars, envVars
<1>2. disk = Absent \/ localEdits > 0
  BY <1>1 DEF IInv, KeptInv, TypeOK
<1>3. tmp # Absent /\ \A i \in DOMAIN tmp : tmp[i] \in OfferedBlocks
  BY <1>1 DEF IInv, PublishInv, BlocksInv
<1>4. tmp \in SourceContents \/ damages > 0 \/ srcEdits > 0
  BY <1>1 DEF IInv, PublishInv, Calm, TypeOK
<1>5. Receives!Publish
  BY <1>1, <1>2, <1>3, <1>4, Offers DEF Receives!Publish, Active
<1> QED
  BY <1>5 DEF Receives!Next

\* Users of the receiver and faults of the sender and of the way.
LEMMA UserStep ==
  ASSUME IInv, NEW c \in LocalContents, LocalEdit(c)
  PROVE  [Receives!Next]_(Receives!vars)
<1>1. disk' = c /\ localEdits' > 0 /\ UNCHANGED <<versions, rpc, damages, srcEdits>>
  BY DEF LocalEdit, IInv, TypeOK
<1>2. Receives!UserWrites(c)
  BY <1>1 DEF Receives!UserWrites, Active
<1> QED
  BY <1>2 DEF Receives!Next

LEMMA FaultStep ==
  ASSUME IInv, Damage \/ \E c \in SourceContents : SourceEdit(c)
  PROVE  [Receives!Next]_(Receives!vars)
<1>1. /\ damages' > 0 \/ srcEdits' > 0
      /\ UNCHANGED <<disk, versions, rpc, localEdits>>
  BY DEF Damage, SourceEdit, IInv, TypeOK, recvVars
<1>2. Receives!Spoil
  BY <1>1 DEF Receives!Spoil, Active
<1> QED
  BY <1>2 DEF Receives!Next

LEMMA InitRefines == Init => Receives!Init
BY DEF Init, Receives!Init, Active

LEMMA StepRefines ==
  IInv /\ ChecksApply /\ [Next]_vars => [Receives!Next]_(Receives!vars)
<1> SUFFICES ASSUME IInv, ChecksApply, [Next]_vars PROVE [Receives!Next]_(Receives!vars)
  OBVIOUS
<1>1. CASE ReceiveData \/ ReceiveChunk
  BY <1>1, ReceiveStep
<1>2. CASE RemoveDest
  BY <1>2, VacateStep
<1>3. CASE RenameTemp
  BY <1>3, PublishStep
<1>4. CASE \E c \in LocalContents : LocalEdit(c)
  BY <1>4, UserStep
<1>5. CASE Damage \/ \E c \in SourceContents : SourceEdit(c)
  BY <1>5, FaultStep
<1>6. CASE \/ Request \/ Retry \/ Verify \/ Finish \/ SenderStep
           \/ StreamLost \/ Restart \/ DestLocked \/ TempLocked \/ UNCHANGED vars
  <2>1. UNCHANGED <<disk, versions, localEdits, damages, srcEdits>>
    BY <1>6 DEF Request, Retry, Verify, Finish, SenderStep, SendWhole, OpenChunked, SendChunk,
       EndChunks, StreamLost, Restart, DestLocked, TempLocked, vars, recvVars, sendVars, envVars
  <2> QED
    BY <2>1, QuietStep
<1> QED
  BY <1>1, <1>2, <1>3, <1>4, <1>5, <1>6 DEF Next, ReceiverStep, Environment

-----------------------------------------------------------------------------
(* Theorems. *)

\* Every variable keeps its type: whatever is damaged, lost or edited, no
\* handler makes a message, a file or a place of another form
\* (handleRequestMessage, handleDataMessage, handleChunkMessage).
THEOREM TypeCorrect == Spec => []TypeOK
<1>1. IInv => TypeOK
  BY DEF IInv
<1> QED
  BY <1>1, InvHolds, PTL

\* A file shown as Synced is there and is what the index says; unless something
\* was damaged or edited it is one of the sender's files (requestFileViaStream,
\* updateWatcherIndex).
THEOREM SyncedFilesArePublished == Spec => []SyncedIsPublished
<1>1. IInv => SyncedIsPublished
  BY DEF IInv
<1> QED
  BY <1>1, InvHolds, PTL

\* Whole files and chunks implement FileReceive, for files and chunks of any
\* size, as long as damaged data is told apart by its hash or there is none: a
\* file is removed only when a copy of it is kept, and what replaces it is a
\* whole file of the sender, or after a fault at least made of its blocks.
THEOREM ChunksReceiveFile == ChecksApply => (Spec => ReceivesFile)
<1>1. ChecksApply /\ IInv /\ [Next]_vars => [Receives!Next]_(Receives!vars)
  BY StepRefines
<1>2. ChecksApply => (Spec => Receives!Init /\ [][Receives!Next]_(Receives!vars))
  <2> SUFFICES ASSUME ChecksApply PROVE Spec => Receives!Init /\ [][Receives!Next]_(Receives!vars)
    OBVIOUS
  <2>1. IInv /\ [Next]_vars => [Receives!Next]_(Receives!vars)
    BY <1>1
  <2> QED
    BY <2>1, InitRefines, InvHolds, PTL DEF Spec
<1> QED
  BY <1>2 DEF ReceivesFile, Receives!Spec
=============================================================================
