------------------------- MODULE CdcTransferProofs -------------------------
(* Proofs about CdcTransfer.  For any number of overlapping transfers: types *)
(* and where every received block comes from.  For transfers that follow    *)
(* one another: what is saved before a file is replaced, that the file put  *)
(* in place is the whole file announced, and that FileReceive is            *)
(* implemented.                                                             *)
EXTENDS CdcTransfer, TLAPS, FiniteSetTheorems

-----------------------------------------------------------------------------
(* The operators. *)

\* A non-empty set of positions of a sequence has a last one: the sets of
\* later positions, ordered by strict inclusion, have a minimal element.
LEMMA LastOfPositions ==
  ASSUME NEW n \in Nat, NEW T \in SUBSET (1..n), T # {}
  PROVE  \E m \in T : \A k \in T : k <= m
<1> DEFINE From(i) == {k \in T : k >= i}
           All == {From(i) : i \in T}
<1>1. All \subseteq FiniteSubsetsOf(1..n) /\ All # {}
  <2>1. ASSUME NEW i \in T PROVE From(i) \in FiniteSubsetsOf(1..n)
    <3>1. From(i) \in SUBSET (1..n)
      OBVIOUS
    <3>2. IsFiniteSet(1..n)
      BY FS_Interval
    <3>3. IsFiniteSet(From(i))
      BY <3>1, <3>2, FS_Subset
    <3> QED BY <3>1, <3>3 DEF FiniteSubsetsOf
  <2> QED BY <2>1
<1>2. IsWellFoundedOn(StrictSubsetOrdering(1..n), FiniteSubsetsOf(1..n))
  BY FS_StrictSubsetOrderingWellFounded
<1>3. PICK F \in All : \A G \in All : <<G, F>> \notin StrictSubsetOrdering(1..n)
  BY <1>1, <1>2, WFMin
<1>4. PICK m \in T : F = From(m)
  OBVIOUS
<1>5. ASSUME NEW k \in T, k > m PROVE FALSE
  <2>0. k \in Nat /\ m \in Nat /\ T \subseteq Nat
    OBVIOUS
  <2>1. From(k) \in All
    OBVIOUS
  <2>4. From(k) \subseteq From(m)
    <3>1. ASSUME NEW j \in T, j >= k PROVE j >= m
      <4>1. j \in Nat /\ k \in Nat /\ m \in Nat
        BY <2>0
      <4> QED BY <1>5, <3>1, <4>1
    <3> QED BY <3>1
  <2>2. m \in From(m) /\ m \notin From(k)
    BY <1>5
  <2>3. <<From(k), From(m)>> \in StrictSubsetOrdering(1..n)
    BY <2>2, <2>4 DEF StrictSubsetOrdering
  <2> QED BY <1>3, <1>4, <2>1, <2>3
<1> QED BY <1>5

\* The offset the sender looks up for an announced hash holds that hash.
LEMMA ChunkOffsetHolds ==
  ASSUME NEW S, NEW blocks \in Seq(S), NEW h \in Blocks(blocks)
  PROVE  /\ ChunkOffset(blocks, h) \in DOMAIN blocks
         /\ blocks[ChunkOffset(blocks, h)] = h
<1> DEFINE T == {i \in DOMAIN blocks : blocks[i] = h}
<1>1. Len(blocks) \in Nat /\ T \in SUBSET (1..Len(blocks)) /\ T # {}
  BY DEF Blocks
<1>2. PICK m \in T : \A k \in T : k <= m
  BY <1>1, LastOfPositions
<1> QED BY <1>2 DEF ChunkOffset

\* Writing one position changes that position and may add holes before it.
LEMMA WriteAtHolds ==
  ASSUME NEW file \in File, NEW i \in Nat \ {0}, NEW data \in Block \cup {Zero}
  PROVE  /\ WriteAt(file, i, data) \in File
         /\ \A j \in DOMAIN WriteAt(file, i, data) :
              \/ j = i /\ WriteAt(file, i, data)[j] = data
              \/ j \in DOMAIN file /\ WriteAt(file, i, data)[j] = file[j]
              \/ WriteAt(file, i, data)[j] = Zero
BY DEF File, WriteAt

-----------------------------------------------------------------------------
(* Types. *)

\* The program starts in well-typed state.
LEMMA InitType == Init => TypeOK
<1> SUFFICES ASSUME Init PROVE TypeOK
  OBVIOUS
<1> USE DEF Init
<1>1. LocalContents \subseteq File /\ Dest \in Paths
  BY ContentAssumption DEF File, Paths
<1>2. disk \in [Paths -> File \cup {Absent}] /\ index \in File \cup {Absent}
  BY <1>1
<1>3. store \in [Block -> Meta \cup {Absent}]
  OBVIOUS
<1> QED BY <1>2, <1>3 DEF TypeOK

\* The file a write reaches keeps its type.
LEMMA WriteThroughType ==
  ASSUME TypeOK, HandleInv, NEW t \in Transfers, NEW i \in Nat \ {0},
         NEW data \in Block, WriteThrough(t, i, data)
  PROVE  disk' \in [Paths -> File \cup {Absent}] /\ tmp' \in File \cup {Absent}
<1> USE DEF TypeOK, HandleInv
<1>1. CASE handle[t] = "tmp"
  BY <1>1, WriteAtHolds DEF WriteThrough
<1>2. CASE handle[t] = "dest"
  <2>1. Dest \in Paths /\ disk[Dest] \in File
    BY <1>2 DEF Paths
  <2>2. WriteAt(disk[Dest], i, data) \in File
    BY <2>1, WriteAtHolds
  <2> QED BY <1>2, <2>1, <2>2 DEF WriteThrough
<1>3. CASE handle[t] = "gone"
  BY <1>3 DEF WriteThrough
<1> QED BY <1>1, <1>2, <1>3 DEF WriteThrough

\* What one round of the sender's loop may put on the stream.
LEMMA SendBlockSends ==
  ASSUME TypeOK, StreamInv, NEW t \in Transfers, SendBlock(t)
  PROVE  \/ UNCHANGED <<net, sent>>
         \/ \E b \in BlockData :
              /\ b.at \in DOMAIN map[t] /\ map[t][b.at] = b.hash
              /\ net' = [net EXCEPT ![t] = Append(net[t], b)]
              /\ sent' = [sent EXCEPT ![t] = sent[t] + 1]
<1> USE DEF TypeOK
<1> DEFINE h == need[t][pos[t] + 1]
           i == ChunkOffset(map[t], h)
           b == [hash |-> h, at |-> i, data |-> src[i],
                 last |-> IsLast(t)]
<1>1. h \in Blocks(map[t]) /\ h \in Block
  <2>1. pos[t] + 1 \in DOMAIN need[t] /\ need[t] \in Seq(Block)
    BY DEF SendBlock
  <2>2. h \in Blocks(need[t]) /\ h \in Block
    BY <2>1 DEF Blocks
  <2> QED BY <2>2 DEF StreamInv, StreamOf
<1>2. i \in DOMAIN map[t] /\ map[t][i] = h /\ i \in Nat \ {0}
  BY <1>1, ChunkOffsetHolds
<1>3. Len(src) \in Nat /\ (i <= Len(src) => src[i] \in Block)
  BY <1>2, ContentAssumption
<1>4. \/ UNCHANGED <<net, sent>>
      \/ /\ i <= Len(src)
         /\ net' = [net EXCEPT ![t] = Append(net[t], b)]
         /\ sent' = [sent EXCEPT ![t] = sent[t] + 1]
  BY DEF SendBlock
<1> HIDE DEF h, i
<1>5. i <= Len(src) => b \in BlockData
  BY <1>1, <1>2, <1>3 DEF BlockData, IsLast
<1>6. b.at = i /\ b.hash = h
  OBVIOUS
<1> HIDE DEF b
<1> QED BY <1>2, <1>4, <1>5, <1>6

\* No step of either side, or of their users, leaves the types.
LEMMA TypeStep == TypeOK /\ TransferInv /\ [Next]_vars => TypeOK'
<1> SUFFICES ASSUME TypeOK, HandleInv, StreamInv, [Next]_vars PROVE TypeOK'
  BY DEF TransferInv
<1> USE DEF TypeOK
<1>a. Dest \in Paths /\ Seq(Block) \subseteq File
  BY DEF Paths, File
<1>1. ASSUME NEW t \in Transfers, Request(t) PROVE TypeOK'
  BY <1>1 DEF Request, fileVars, mapVars, askVars, sendVars, envVars
<1>2. ASSUME NEW t \in Transfers, StatSource(t) PROVE TypeOK'
  BY <1>2, ContentAssumption, SMTT(30)
  DEF StatSource, fileVars, shownVars, askVars, envVars
<1>3. ASSUME NEW t \in Transfers, SendBlockMap(t) PROVE TypeOK'
  BY <1>3, ContentAssumption
  DEF SendBlockMap, fileVars, shownVars, askVars, envVars
<1>4. ASSUME NEW t \in Transfers, HandleBlockMap(t) PROVE TypeOK'
  <2>1. [i \in 1..size[t] |-> Zero] \in File
    BY DEF File
  <2>2. MissingHashes(map[t]) \in SUBSET Block
    BY DEF MissingHashes, Blocks
  <2>3. versions' \subseteq File
    BY <1>4, <1>a DEF HandleBlockMap, SavedVersions
  <2> QED BY <1>4, <2>1, <2>2, <2>3
          DEF HandleBlockMap, SavedVersions, shownVars, mapVars, sendVars, envVars
<1>5. ASSUME NEW t \in Transfers, PreWrite(t) PROVE TypeOK'
  <2> DEFINE h == map[t][pre[t]]
  <2>1. pre[t] \in Nat \ {0} /\ h \in Block
    BY <1>5 DEF PreWrite, HandleInv
  <2>2. /\ need' \in [Transfers -> Seq(Block)]
        /\ extra' \in [Transfers -> Seq(Block)]
    <3> HIDE DEF h
    <3>1. Append(need[t], h) \in Seq(Block) /\ Append(extra[t], h) \in Seq(Block)
      BY <2>1
    <3>2. /\ need' = need \/ need' = [need EXCEPT ![t] = Append(need[t], h)]
          /\ extra' = extra \/ extra' = [extra EXCEPT ![t] = Append(extra[t], h)]
      BY <1>5 DEF PreWrite, h
    <3>3. need \in [Transfers -> Seq(Block)] /\ extra \in [Transfers -> Seq(Block)]
      OBVIOUS
    <3> HIDE DEF TypeOK
    <3>4. need' \in [Transfers -> Seq(Block)]
      BY <3>1, <3>2, <3>3
    <3>5. extra' \in [Transfers -> Seq(Block)]
      BY <3>1, <3>2, <3>3
    <3> QED BY <3>4, <3>5
  <2>3. disk' \in [Paths -> File \cup {Absent}] /\ tmp' \in File \cup {Absent}
    BY <1>5, <2>1, WriteThroughType DEF PreWrite, HaveLocally
  <2>4. pre' \in [Transfers -> Nat]
    BY <1>5, SMTT(30) DEF PreWrite
  <2> QED BY <1>5, <2>2, <2>3, <2>4
          DEF PreWrite, shownVars, mapVars, sendVars, envVars
<1>6. ASSUME NEW t \in Transfers, SendBlockNeed(t) PROVE TypeOK'
  BY <1>6, SMTT(30) DEF SendBlockNeed, fileVars, shownVars, mapVars, envVars
<1>7. ASSUME NEW t \in Transfers, SendBlock(t) PROVE TypeOK'
  <2>4. net' \in [Transfers -> Seq(BlockData)] /\ sent' \in [Transfers -> Nat]
    <3>1. CASE UNCHANGED <<net, sent>>
      BY <3>1
    <3>2. CASE \E b \in BlockData :
                 /\ net' = [net EXCEPT ![t] = Append(net[t], b)]
                 /\ sent' = [sent EXCEPT ![t] = sent[t] + 1]
      <4>1. PICK b \in BlockData :
              /\ net' = [net EXCEPT ![t] = Append(net[t], b)]
              /\ sent' = [sent EXCEPT ![t] = sent[t] + 1]
        BY <3>2
      <4>2. Append(net[t], b) \in Seq(BlockData)
        OBVIOUS
      <4> QED BY <4>1, <4>2
    <3> QED BY <1>7, <3>1, <3>2, SendBlockSends
  <2>5. pos' \in [Transfers -> Nat]
    BY <1>7 DEF SendBlock
  <2> QED BY <1>7, <2>4, <2>5
          DEF SendBlock, fileVars, shownVars, recvVars, mapVars, askVars, envVars
<1>8. ASSUME NEW t \in Transfers, FinishSending(t) PROVE TypeOK'
  BY <1>8
  DEF FinishSending, fileVars, shownVars, recvVars, mapVars, askVars, envVars
<1>9. ASSUME NEW t \in Transfers, ReceiveBlock(t) PROVE TypeOK'
  <2>1. net' \in [Transfers -> Seq(BlockData)]
    <3>1. Tail(net[t]) \in Seq(BlockData)
      BY <1>9 DEF ReceiveBlock
    <3>2. net' = net \/ net' = [net EXCEPT ![t] = Tail(net[t])]
      BY <1>9 DEF ReceiveBlock
    <3>3. net \in [Transfers -> Seq(BlockData)]
      OBVIOUS
    <3> HIDE DEF TypeOK
    <3>4. CASE net' = net
      BY <3>3, <3>4
    <3>5. CASE net' = [net EXCEPT ![t] = Tail(net[t])]
      BY <3>1, <3>3, <3>5
    <3> QED BY <3>2, <3>4, <3>5
  <2>2. tmp' \in File \cup {Absent}
    <3>1. tmp' = tmp \/ tmp' = <<>>
      BY <1>9 DEF ReceiveBlock
    <3>2. <<>> \in File
      BY DEF File
    <3> QED BY <3>1, <3>2
  <2> QED BY <1>9, <2>1, <2>2
          DEF ReceiveBlock, shownVars, mapVars, askVars, sendVars, envVars
<1>10. ASSUME NEW t \in Transfers, WriteBlock(t) PROVE TypeOK'
  <2> DEFINE b == Head(net[t])
  <2>1. b \in BlockData /\ Tail(net[t]) \in Seq(BlockData)
    BY <1>10 DEF WriteBlock, StreamInv, StreamOf
  <2>2. b.at \in Nat \ {0} /\ b.data \in Block /\ b.hash \in Block
    BY <2>1 DEF BlockData
  <2>3. WriteThrough(t, b.at, b.data)
    BY <1>10 DEF WriteBlock
  <2>4. disk' \in [Paths -> File \cup {Absent}] /\ tmp' \in File \cup {Absent}
    BY <2>2, <2>3, WriteThroughType
  <2>5. store' \in [Block -> Meta \cup {Absent}]
    <3>1. [path |-> Dest, pos |-> b.at] \in Meta
      BY <1>a, <2>2 DEF Meta
    <3> QED BY <1>10, <3>1 DEF WriteBlock
  <2>6. net' \in [Transfers -> Seq(BlockData)]
    BY <1>10, <2>1 DEF WriteBlock
  <2> QED BY <1>10, <2>4, <2>5, <2>6
          DEF WriteBlock, shownVars, mapVars, askVars, sendVars, envVars
<1>11. ASSUME NEW t \in Transfers, RemoveDest(t) PROVE TypeOK'
  BY <1>11, <1>a
  DEF RemoveDest, HandlesAfterRemove, shownVars, mapVars, askVars, sendVars, envVars
<1>12. ASSUME NEW t \in Transfers, RenameTemp(t) PROVE TypeOK'
  BY <1>12, <1>a
  DEF RenameTemp, HandlesAfterRename, shownVars, mapVars, askVars, sendVars, envVars
<1>13. ASSUME NEW t \in Transfers, RenameFails(t) PROVE TypeOK'
  BY <1>13 DEF RenameFails, fileVars, shownVars, mapVars, askVars, sendVars, envVars
<1>14. ASSUME NEW t \in Transfers, FinishReceiving(t) PROVE TypeOK'
  BY <1>14, <1>a DEF FinishReceiving, fileVars, mapVars, askVars, envVars
<1>15. ASSUME NEW t \in Transfers, StreamLost(t) PROVE TypeOK'
  BY <1>15 DEF StreamLost, fileVars, shownVars, mapVars, askVars, envVars
<1>16. ASSUME NEW c \in SourceContents, SourceEdit(c) PROVE TypeOK'
  BY <1>16
  DEF SourceEdit, fileVars, shownVars, recvVars, mapVars, askVars
<1>17. ASSUME NEW p \in Paths, NEW c \in LocalContents, LocalEdit(p, c)
       PROVE  TypeOK'
  BY <1>17, <1>a, ContentAssumption
  DEF LocalEdit, shownVars, recvVars, mapVars, askVars, sendVars
<1>18. ASSUME NEW p \in Paths, ServeLocalFile(p) PROVE TypeOK'
  <2>1. disk[p] \in Seq(Block \cup {Zero})
    BY <1>18 DEF ServeLocalFile, File
  <2>2. ASSUME NEW h \in Block, h \in Blocks(disk[p])
        PROVE  [path |-> p, pos |-> ChunkOffset(disk[p], h)] \in Meta
    BY <2>1, <2>2, ChunkOffsetHolds DEF Meta
  <2>3. store' \in [Block -> Meta \cup {Absent}]
    BY <1>18, <2>2 DEF ServeLocalFile
  <2> QED BY <1>18, <2>3
          DEF ServeLocalFile, shownVars, recvVars, mapVars, askVars, sendVars, envVars
<1>19. CASE Restart
  BY <1>19, <1>a DEF Restart, fileVars, mapVars, askVars
<1>0. CASE UNCHANGED vars
  BY <1>0 DEF vars, fileVars, shownVars, recvVars, mapVars, askVars, sendVars, envVars
<1> QED
  BY <1>1, <1>2, <1>3, <1>4, <1>5, <1>6, <1>7, <1>8, <1>9, <1>10, <1>11, <1>12,
     <1>13, <1>14, <1>15, <1>16, <1>17, <1>18, <1>19, <1>0
  DEF Next, ReceiverStep, SenderStep, Environment

-----------------------------------------------------------------------------
(* Descriptors refer to files that exist. *)

\* At the start no descriptor is open and no stream carries anything.
LEMMA InitTransfer == Init => TransferInv
BY DEF Init, TransferInv, HandleInv, StreamInv, StreamOf, Blocks

\* A write makes no file disappear.
LEMMA WriteThroughKeeps ==
  ASSUME TypeOK, HandleInv, NEW t \in Transfers, NEW i \in Nat \ {0},
         NEW data \in Block, WriteThrough(t, i, data)
  PROVE  /\ tmp # Absent => tmp' # Absent
         /\ disk[Dest] # Absent => disk'[Dest] # Absent
<1> USE DEF TypeOK, HandleInv
<1>a. Dest \in Paths
  BY DEF Paths
<1>1. CASE handle[t] = "tmp"
  <2>1. WriteAt(tmp, i, data) \in File
    BY <1>1, WriteAtHolds
  <2> QED BY <1>1, <2>1, BlockAssumption DEF WriteThrough
<1>2. CASE handle[t] = "dest"
  <2>1. WriteAt(disk[Dest], i, data) \in File
    BY <1>2, <1>a, WriteAtHolds
  <2> QED BY <1>2, <1>a, <2>1, BlockAssumption DEF WriteThrough
<1>3. CASE handle[t] = "gone"
  BY <1>3 DEF WriteThrough
<1> QED BY <1>1, <1>2, <1>3 DEF WriteThrough

\* Every step keeps open descriptors on files that exist: the rename and the
\* removal of the destination carry the descriptors along.
LEMMA HandleStep == TypeOK /\ TransferInv /\ [Next]_vars => HandleInv'
<1> SUFFICES ASSUME TypeOK, HandleInv, StreamInv, [Next]_vars PROVE HandleInv'
  BY DEF TransferInv
<1>a. Dest \in Paths
  BY DEF Paths
\* Steps that touch neither a file of Dest nor a descriptor.
<1>1. ASSUME UNCHANGED <<tmp, disk, handle, pre>>,
             \A t \in Transfers : rpc'[t] = "preparing" => rpc[t] = "preparing"
      PROVE  HandleInv'
  BY <1>1 DEF HandleInv
<1>2. ASSUME NEW t \in Transfers,
             \/ StatSource(t) \/ SendBlockMap(t) \/ SendBlock(t)
             \/ FinishSending(t) \/ RenameFails(t) \/ FinishReceiving(t)
      PROVE  HandleInv'
  <2>1. UNCHANGED <<tmp, disk, handle, pre>>
    BY <1>2 DEF StatSource, SendBlockMap, SendBlock, FinishSending,
       RenameFails, FinishReceiving, fileVars, recvVars, askVars
  <2>2. \A u \in Transfers : rpc'[u] = "preparing" => rpc[u] = "preparing"
    BY <1>2 DEF StatSource, SendBlockMap, SendBlock, FinishSending,
       RenameFails, FinishReceiving, recvVars, TypeOK
  <2> QED BY <1>1, <2>1, <2>2
<1>0. ASSUME NEW t \in Transfers, Request(t) PROVE HandleInv'
  <2>1. /\ UNCHANGED <<tmp, disk, handle>> /\ rpc'[t] = "requested"
        /\ \A u \in Transfers : u # t => rpc'[u] = rpc[u] /\ pre'[u] = pre[u]
    BY <1>0 DEF Request, fileVars, TypeOK
  <2> QED BY <2>1 DEF HandleInv
<1>3. ASSUME NEW t \in Transfers, HandleBlockMap(t) PROVE HandleInv'
  <2>1. tmp' # Absent
    <3>1. [i \in 1..size[t] |-> Zero] \in File
      BY DEF File, TypeOK
    <3> QED BY <1>3, <3>1, BlockAssumption DEF HandleBlockMap
  <2> QED BY <1>3, <2>1 DEF HandleBlockMap, HandleInv, TypeOK
<1>4. ASSUME NEW t \in Transfers, PreWrite(t) PROVE HandleInv'
  <2> DEFINE h == map[t][pre[t]]
  <2>1. pre[t] \in Nat \ {0} /\ h \in Block
    BY <1>4 DEF PreWrite, HandleInv, TypeOK
  <2>2. /\ tmp # Absent => tmp' # Absent
        /\ disk[Dest] # Absent => disk'[Dest] # Absent
    BY <1>4, <2>1, WriteThroughKeeps DEF PreWrite, HaveLocally
  <2>3. UNCHANGED <<rpc, handle>> /\ pre' = [pre EXCEPT ![t] = pre[t] + 1]
    BY <1>4 DEF PreWrite
  <2> HIDE DEF h
  <2>4. ASSUME NEW u \in Transfers, rpc'[u] = "preparing"
        PROVE  pre'[u] \in Nat \ {0}
    <3>1. pre[u] \in Nat \ {0} /\ pre \in [Transfers -> Nat]
      BY <2>3, <2>4 DEF HandleInv, TypeOK
    <3> QED BY <2>3, <3>1
  <2> QED BY <2>2, <2>3, <2>4 DEF HandleInv
<1>5. ASSUME NEW t \in Transfers, SendBlockNeed(t) \/ StreamLost(t)
      PROVE  HandleInv'
  BY <1>5, SMTT(30)
  DEF SendBlockNeed, StreamLost, fileVars, askVars, HandleInv, TypeOK
<1>6. ASSUME NEW t \in Transfers, ReceiveBlock(t) PROVE HandleInv'
  <2>1. <<>> # Absent
    <3>1. <<>> \in File
      BY DEF File
    <3> QED BY <3>1, BlockAssumption
  <2>2. tmp # Absent => tmp' # Absent
    BY <1>6 DEF ReceiveBlock
  <2>3. handle' = handle \/ (handle' = [handle EXCEPT ![t] = "tmp"] /\ tmp' # Absent)
    BY <1>6, <2>1 DEF ReceiveBlock
  <2>4. UNCHANGED <<disk, pre>> /\ \A u \in Transfers : rpc'[u] = "preparing" => rpc[u] = "preparing"
    BY <1>6 DEF ReceiveBlock, askVars, TypeOK
  <2> QED BY <2>2, <2>3, <2>4 DEF HandleInv, TypeOK
<1>7. ASSUME NEW t \in Transfers, WriteBlock(t) PROVE HandleInv'
  <2> DEFINE b == Head(net[t])
  <2>1. b \in BlockData
    BY <1>7 DEF WriteBlock, StreamInv, StreamOf, TypeOK
  <2>2. b.at \in Nat \ {0} /\ b.data \in Block /\ WriteThrough(t, b.at, b.data)
    BY <1>7, <2>1 DEF BlockData, WriteBlock
  <2>3. /\ tmp # Absent => tmp' # Absent
        /\ disk[Dest] # Absent => disk'[Dest] # Absent
    BY <2>2, WriteThroughKeeps
  <2> QED BY <1>7, <2>3 DEF WriteBlock, askVars, HandleInv, TypeOK
<1>8. ASSUME NEW t \in Transfers, RemoveDest(t) PROVE HandleInv'
  BY <1>8 DEF RemoveDest, HandlesAfterRemove, askVars, HandleInv, TypeOK
<1>9. ASSUME NEW t \in Transfers, RenameTemp(t) PROVE HandleInv'
  BY <1>9, <1>a DEF RenameTemp, HandlesAfterRename, askVars, HandleInv, TypeOK
<1>10. ASSUME NEW c \in SourceContents, SourceEdit(c) PROVE HandleInv'
  BY <1>1, <1>10 DEF SourceEdit, fileVars, recvVars, askVars
<1>11. ASSUME NEW p \in Paths, NEW c \in LocalContents, LocalEdit(p, c)
       PROVE  HandleInv'
  <2>1. c # Absent
    BY ContentAssumption, BlockAssumption DEF File
  <2>2. disk[Dest] # Absent => disk'[Dest] # Absent
    BY <1>11, <1>a, <2>1 DEF LocalEdit, TypeOK
  <2> QED BY <1>11, <2>2 DEF LocalEdit, recvVars, askVars, HandleInv
<1>12. ASSUME NEW p \in Paths, ServeLocalFile(p) PROVE HandleInv'
  BY <1>1, <1>12 DEF ServeLocalFile, recvVars, askVars
<1>13. CASE Restart
  BY <1>13 DEF Restart, askVars, HandleInv, TypeOK
<1>14. CASE UNCHANGED vars
  BY <1>1, <1>14 DEF vars, fileVars, recvVars, askVars
<1> QED
  BY <1>2, <1>0, <1>3, <1>4, <1>5, <1>6, <1>7, <1>8, <1>9, <1>10, <1>11, <1>12,
     <1>13, <1>14
  DEF Next, ReceiverStep, SenderStep, Environment

-----------------------------------------------------------------------------
(* What is asked for and sent comes from the announced BlockMap. *)

\* A hash joins a list of needed hashes.
LEMMA BlocksOfAppend ==
  ASSUME NEW S, NEW seq \in Seq(S), NEW h \in S
  PROVE  Blocks(Append(seq, h)) = Blocks(seq) \cup {h}
<1>1. \A i \in 1..Len(seq) : Append(seq, h)[i] = seq[i]
  OBVIOUS
<1>2. /\ DOMAIN Append(seq, h) = (1..Len(seq)) \cup {Len(seq) + 1}
      /\ Append(seq, h)[Len(seq) + 1] = h
      /\ DOMAIN seq = 1..Len(seq)
  OBVIOUS
<1> QED BY <1>1, <1>2 DEF Blocks

\* The extra hashes follow the needed ones.
LEMMA BlocksOfConcat ==
  ASSUME NEW S, NEW s1 \in Seq(S), NEW s2 \in Seq(S)
  PROVE  Blocks(s1 \o s2) \subseteq Blocks(s1) \cup Blocks(s2)
<1>1. ASSUME NEW i \in DOMAIN (s1 \o s2)
      PROVE  (s1 \o s2)[i] \in Blocks(s1) \cup Blocks(s2)
  <2>1. CASE i <= Len(s1)
    BY <2>1 DEF Blocks
  <2>2. CASE i > Len(s1)
    <3>1. (s1 \o s2)[i] = s2[i - Len(s1)] /\ i - Len(s1) \in DOMAIN s2
      BY <2>2
    <3> QED BY <3>1 DEF Blocks
  <2> QED BY <2>1, <2>2
<1> QED BY <1>1 DEF Blocks

\* A transfer none of whose own variables changes keeps its invariant.
LEMMA StreamUntouched ==
  ASSUME NEW t \in Transfers, StreamOf(t), announced \subseteq announced',
         map'[t] = map[t], rpc'[t] = rpc[t], need'[t] = need[t],
         extra'[t] = extra[t], net'[t] = net[t], spc'[t] = spc[t]
  PROVE  StreamOf(t)'
BY DEF StreamOf, BlockAccepted, Blocks

\* Nor does it matter that a transfer goes on without touching its lists.
LEMMA StreamMoves ==
  ASSUME NEW t \in Transfers, StreamOf(t), announced \subseteq announced',
         map'[t] = map[t], need'[t] = need[t], extra'[t] = extra[t],
         net'[t] = net[t], rpc'[t] # "writing",
         rpc'[t] \in {"idle", "requested"} =>
           rpc[t] \in {"idle", "requested"} /\ spc'[t] # "sending"
  PROVE  StreamOf(t)'
BY DEF StreamOf, Blocks

\* A transfer whose stream is lost carries nothing any more.
LEMMA StreamServed ==
  ASSUME NEW t \in Transfers, StreamOf(t), announced \subseteq announced',
         map'[t] = map[t], rpc'[t] = rpc[t], need'[t] = need[t],
         extra'[t] = extra[t], net'[t] = net[t], spc'[t] # "sending"
  PROVE  StreamOf(t)'
BY DEF StreamOf, BlockAccepted, Blocks

\* A transfer past its request whose stream changes.
LEMMA StreamCarries ==
  ASSUME NEW t \in Transfers, StreamOf(t), announced \subseteq announced',
         map'[t] = map[t], need'[t] = need[t], extra'[t] = extra[t],
         rpc'[t] \notin {"idle", "requested"},
         \A k \in DOMAIN net'[t] :
           /\ net'[t][k].at \in DOMAIN map[t]
           /\ map[t][net'[t][k].at] = net'[t][k].hash,
         rpc'[t] = "writing" =>
           net'[t] # <<>> /\ BlockAccepted(Head(net'[t]))
  PROVE  StreamOf(t)'
<1>1. map[t] # <<>> => map[t] \in announced
  BY DEF StreamOf
<1>2. Blocks(need[t]) \cup Blocks(extra[t]) \subseteq Blocks(map[t])
  BY DEF StreamOf
<1>3. (Blocks(need[t]) \cup Blocks(extra[t]) \subseteq Blocks(map[t]))'
  BY <1>2 DEF Blocks
<1>4. (map[t] # <<>> => map[t] \in announced)'
  BY <1>1
<1>5. (rpc[t] = "writing" => net[t] # <<>> /\ BlockAccepted(Head(net[t])))'
  BY DEF BlockAccepted
<1> QED BY <1>3, <1>4, <1>5, Zenon DEF StreamOf

\* A message sent does not change the one to be read next.
LEMMA HeadAppend ==
  ASSUME NEW S, NEW seq \in Seq(S), NEW e \in S, seq # <<>>
  PROVE  Append(seq, e) # <<>> /\ Head(Append(seq, e)) = Head(seq)
OBVIOUS

\* A message read off the stream leaves the later ones as they were.
LEMMA TailKeeps ==
  ASSUME NEW S, NEW seq \in Seq(S), seq # <<>>
  PROVE  \A k \in DOMAIN Tail(seq) : k + 1 \in DOMAIN seq /\ Tail(seq)[k] = seq[k + 1]
OBVIOUS

\* Every step keeps what a transfer asks for, and what it is sent, within the
\* BlockMap the sender announced for it.
LEMMA StreamStep == TypeOK /\ TransferInv /\ [Next]_vars => StreamInv'
<1> SUFFICES ASSUME TypeOK, HandleInv, StreamInv, [Next]_vars,
                    NEW u \in Transfers
             PROVE  StreamOf(u)'
  BY DEF TransferInv, StreamInv
<1>a. StreamOf(u)
  BY DEF StreamInv
<1>1. ASSUME NEW t \in Transfers,
             \/ StatSource(t) \/ HandleBlockMap(t)
             \/ FinishSending(t) \/ RemoveDest(t) \/ RenameTemp(t)
             \/ RenameFails(t) \/ FinishReceiving(t)
      PROVE  StreamOf(u)'
  <2>1. UNCHANGED <<map, need, extra, net, announced>>
    BY <1>1 DEF StatSource, HandleBlockMap, FinishSending, RemoveDest,
       RenameTemp, RenameFails, FinishReceiving, recvVars, mapVars, askVars
  <2>2. CASE u # t
    <3>1. rpc'[u] = rpc[u] /\ spc'[u] = spc[u]
      BY <1>1, <2>2 DEF StatSource, HandleBlockMap, FinishSending,
         RemoveDest, RenameTemp, RenameFails, FinishReceiving, recvVars,
         sendVars, TypeOK
    <3> QED BY <1>a, <2>1, <3>1, StreamUntouched
  <2>3. CASE u = t
    <3>1. rpc'[u] # "writing" \/ FinishSending(u)
      BY <1>1, <2>3 DEF StatSource, HandleBlockMap, RemoveDest,
         RenameTemp, RenameFails, FinishReceiving, TypeOK
    <3>2. rpc'[u] \in {"idle", "requested"} =>
            rpc[u] \in {"idle", "requested"} /\ spc'[u] # "sending"
      BY <1>1, <1>a, <2>3 DEF StatSource, HandleBlockMap,
         FinishSending, RemoveDest, RenameTemp, RenameFails, FinishReceiving,
         recvVars, sendVars, StreamOf, TypeOK
    <3>3. CASE FinishSending(u)
      <4>1. rpc'[u] = rpc[u] /\ spc'[u] # "sending"
        BY <3>3 DEF FinishSending, recvVars, TypeOK
      <4> QED BY <1>a, <2>1, <4>1, StreamServed
    <3>4. CASE rpc'[u] # "writing"
      BY <1>a, <2>1, <3>2, <3>4, StreamMoves
    <3> QED BY <3>1, <3>3, <3>4
  <2> QED BY <2>2, <2>3
<1>0. ASSUME NEW t \in Transfers, Request(t) PROVE StreamOf(u)'
  <2>1. CASE u # t
    <3>1. /\ map'[u] = map[u] /\ rpc'[u] = rpc[u] /\ need'[u] = need[u]
          /\ extra'[u] = extra[u] /\ net'[u] = net[u] /\ spc'[u] = spc[u]
          /\ announced' = announced
      BY <1>0, <2>1 DEF Request, TypeOK
    <3> QED BY <1>a, <3>1, StreamUntouched
  <2>2. CASE u = t
    <3>1. /\ map'[u] = <<>> /\ need'[u] = <<>> /\ extra'[u] = <<>> /\ net'[u] = <<>>
          /\ rpc'[u] = "requested" /\ spc'[u] = "idle"
      BY <1>0, <2>2 DEF Request, TypeOK
    <3> QED BY <3>1 DEF StreamOf, Blocks
  <2> QED BY <2>1, <2>2
<1>2. ASSUME NEW t \in Transfers, SendBlockMap(t) PROVE StreamOf(u)'
  <2>1. UNCHANGED <<rpc, need, extra, net>> /\ announced \subseteq announced'
    BY <1>2 DEF SendBlockMap, askVars
  <2>2. CASE u # t
    <3>1. map'[u] = map[u] /\ spc'[u] = spc[u]
      BY <1>2, <2>2 DEF SendBlockMap, TypeOK
    <3> QED BY <1>a, <2>1, <3>1, StreamUntouched
  <2>3. CASE u = t
    <3>1. /\ need[u] = <<>> /\ extra[u] = <<>> /\ net[u] = <<>>
          /\ rpc[u] = "requested"
      BY <1>2, <1>a, <2>3 DEF SendBlockMap, StreamOf
    <3>2. map'[u] \in announced' /\ spc'[u] # "sending"
      BY <1>2, <2>3 DEF SendBlockMap, TypeOK
    <3> QED BY <2>1, <3>1, <3>2 DEF StreamOf, Blocks
  <2> QED BY <2>2, <2>3
<1>3. ASSUME NEW t \in Transfers, PreWrite(t) PROVE StreamOf(u)'
  <2> DEFINE h == map[t][pre[t]]
  <2>1. UNCHANGED <<rpc, map, net, spc, announced>>
    BY <1>3 DEF PreWrite, mapVars, sendVars
  <2>2. h \in Blocks(map[t]) /\ h \in Block
    <3>1. pre[t] \in DOMAIN map[t] /\ map[t] \in Seq(Block)
      <4>1. pre[t] <= Len(map[t]) /\ rpc[t] = "preparing"
        BY <1>3 DEF PreWrite
      <4>2. pre[t] \in Nat \ {0}
        BY <4>1 DEF HandleInv
      <4>3. map[t] \in Seq(Block)
        BY DEF TypeOK
      <4> QED BY <4>1, <4>2, <4>3
    <3> QED BY <3>1 DEF Blocks
  <2>3. /\ need' = need \/ need' = [need EXCEPT ![t] = Append(need[t], h)]
        /\ extra' = extra \/ extra' = [extra EXCEPT ![t] = Append(extra[t], h)]
    BY <1>3 DEF PreWrite
  <2>4. rpc[t] = "preparing"
    BY <1>3 DEF PreWrite
  <2> HIDE DEF h
  <2>5. CASE u # t
    <3>1. need'[u] = need[u] /\ extra'[u] = extra[u]
      BY <2>3, <2>5 DEF TypeOK
    <3> QED BY <1>a, <2>1, <3>1, StreamUntouched
  <2>6. CASE u = t
    <3>1. /\ Blocks(need'[u]) \subseteq Blocks(need[u]) \cup {h}
          /\ Blocks(extra'[u]) \subseteq Blocks(extra[u]) \cup {h}
      <4>1. /\ Blocks(Append(need[u], h)) = Blocks(need[u]) \cup {h}
            /\ Blocks(Append(extra[u], h)) = Blocks(extra[u]) \cup {h}
        BY <2>2, BlocksOfAppend, SMTT(30) DEF TypeOK
      <4>2. /\ need'[u] = need[u] \/ need'[u] = Append(need[u], h)
            /\ extra'[u] = extra[u] \/ extra'[u] = Append(extra[u], h)
        BY <2>3, <2>6 DEF TypeOK
      <4> QED BY <4>1, <4>2
    <3>2. Blocks(need[u]) \cup Blocks(extra[u]) \subseteq Blocks(map[u])
      BY <1>a DEF StreamOf
    <3>3. (Blocks(need[u]) \cup Blocks(extra[u]) \subseteq Blocks(map[u]))'
      BY <2>1, <2>2, <2>6, <3>1, <3>2 DEF Blocks
    <3> QED BY <1>a, <2>1, <2>4, <2>6, <3>3 DEF StreamOf
  <2> QED BY <2>5, <2>6
<1>4. ASSUME NEW t \in Transfers, SendBlockNeed(t) PROVE StreamOf(u)'
  <2>1. UNCHANGED <<map, net, announced>>
    BY <1>4 DEF SendBlockNeed, mapVars
  <2>2. CASE u # t
    <3>1. /\ rpc'[u] = rpc[u] /\ need'[u] = need[u] /\ extra'[u] = extra[u]
          /\ spc'[u] = spc[u]
      BY <1>4, <2>2 DEF SendBlockNeed, TypeOK
    <3> QED BY <1>a, <2>1, <3>1, StreamUntouched
  <2>3. CASE u = t
    <3>1. /\ need'[u] = need[u] \o extra[u] /\ extra'[u] = <<>>
          /\ rpc'[u] \in {"removing", "receiving"}
      BY <1>4, <2>3 DEF SendBlockNeed, TypeOK
    <3>2. Blocks(need[u] \o extra[u]) \subseteq Blocks(need[u]) \cup Blocks(extra[u])
      BY BlocksOfConcat DEF TypeOK
    <3>3. Blocks(<<>>) = {}
      BY DEF Blocks
    <3>4. Blocks(need'[u]) \cup Blocks(extra'[u]) \subseteq Blocks(map[u])
      BY <1>a, <3>1, <3>2, <3>3 DEF StreamOf
    <3>5. (Blocks(need[u]) \cup Blocks(extra[u]) \subseteq Blocks(map[u]))'
      BY <2>1, <3>4 DEF Blocks
    <3> QED BY <1>a, <2>1, <3>1, <3>5 DEF StreamOf
  <2> QED BY <2>2, <2>3
<1>5. ASSUME NEW t \in Transfers, SendBlock(t) PROVE StreamOf(u)'
  <2>1. UNCHANGED <<rpc, map, need, extra, spc, announced>> /\ spc[t] = "sending"
    BY <1>5 DEF SendBlock, recvVars, mapVars, askVars
  <2>2. CASE u # t \/ net' = net
    <3>1. net'[u] = net[u]
      BY <1>5, <2>2 DEF SendBlock, TypeOK
    <3> QED BY <1>a, <2>1, <3>1, StreamUntouched
  <2>3. CASE u = t /\ net' # net
    <3>1. PICK b \in BlockData :
            /\ b.at \in DOMAIN map[u] /\ map[u][b.at] = b.hash
            /\ net' = [net EXCEPT ![u] = Append(net[u], b)]
      BY <1>5, <2>3, SendBlockSends
    <3>2. net'[u] = Append(net[u], b) /\ net[u] \in Seq(BlockData)
      BY <3>1 DEF TypeOK
    <3>3. ASSUME NEW k \in DOMAIN net'[u]
          PROVE  /\ net'[u][k].at \in DOMAIN map[u]
                 /\ map[u][net'[u][k].at] = net'[u][k].hash
      <4>1. CASE k \in DOMAIN net[u]
        BY <1>a, <3>2, <4>1 DEF StreamOf
      <4>2. CASE k = Len(net[u]) + 1
        BY <3>1, <3>2, <4>2
      <4> QED BY <3>2, <4>1, <4>2
    <3>4. rpc[u] = "writing" =>
            net'[u] # <<>> /\ Head(net'[u]) = Head(net[u])
      BY <1>a, <3>2, HeadAppend DEF StreamOf
    <3>5. rpc[u] \notin {"idle", "requested"}
      BY <1>a, <2>1, <2>3 DEF StreamOf
    <3>6. rpc[u] = "writing" => BlockAccepted(Head(net[u]))
      BY <1>a DEF StreamOf
    <3> QED BY <1>a, <2>1, <3>3, <3>4, <3>5, <3>6, StreamCarries
  <2> QED BY <2>2, <2>3
<1>6. ASSUME NEW t \in Transfers, ReceiveBlock(t) PROVE StreamOf(u)'
  <2>1. UNCHANGED <<map, need, extra, spc, announced>> /\ rpc[t] = "receiving"
    BY <1>6 DEF ReceiveBlock, mapVars, askVars, sendVars
  <2>2. CASE u # t
    <3>1. rpc'[u] = rpc[u] /\ net'[u] = net[u]
      BY <1>6, <2>2 DEF ReceiveBlock, TypeOK
    <3> QED BY <1>a, <2>1, <3>1, StreamUntouched
  <2>3. CASE u = t
    <3>1. /\ net[u] # <<>> /\ net[u] \in Seq(BlockData)
          /\ \/ rpc'[u] = rpc[u] /\ net'[u] = Tail(net[u])
             \/ /\ rpc'[u] = "writing" /\ net'[u] = net[u]
                /\ BlockAccepted(Head(net[u]))
      BY <1>6, <2>3 DEF ReceiveBlock, TypeOK
    <3>2. ASSUME NEW k \in DOMAIN net'[u]
          PROVE  /\ net'[u][k].at \in DOMAIN map[u]
                 /\ map[u][net'[u][k].at] = net'[u][k].hash
      <4>1. \/ k \in DOMAIN net[u] /\ net'[u][k] = net[u][k]
            \/ k + 1 \in DOMAIN net[u] /\ net'[u][k] = net[u][k + 1]
        <5>1. CASE net'[u] = net[u]
          BY <5>1
        <5>2. CASE net'[u] = Tail(net[u])
          BY <3>1, <5>2, TailKeeps
        <5> QED BY <3>1, <5>1, <5>2
      <4> QED BY <1>a, <4>1 DEF StreamOf
    <3>3. rpc'[u] = "writing" => net'[u] # <<>> /\ BlockAccepted(Head(net'[u]))
      BY <2>1, <2>3, <3>1
    <3>4. rpc'[u] \notin {"idle", "requested"}
      BY <2>1, <2>3, <3>1
    <3> QED BY <1>a, <2>1, <3>2, <3>3, <3>4, StreamCarries
  <2> QED BY <2>2, <2>3
<1>7. ASSUME NEW t \in Transfers, WriteBlock(t) PROVE StreamOf(u)'
  <2>1. UNCHANGED <<map, need, extra, spc, announced>> /\ rpc[t] = "writing"
    BY <1>7 DEF WriteBlock, mapVars, askVars, sendVars
  <2>2. CASE u # t
    <3>1. rpc'[u] = rpc[u] /\ net'[u] = net[u]
      BY <1>7, <2>2 DEF WriteBlock, TypeOK
    <3> QED BY <1>a, <2>1, <3>1, StreamUntouched
  <2>3. CASE u = t
    <3>1. /\ net[u] # <<>> /\ net[u] \in Seq(BlockData)
          /\ rpc'[u] \in {"removing", "receiving"} /\ net'[u] = Tail(net[u])
      BY <1>7, <1>a, <2>1, <2>3 DEF WriteBlock, StreamOf, TypeOK
    <3>2. ASSUME NEW k \in DOMAIN net'[u]
          PROVE  /\ net'[u][k].at \in DOMAIN map[u]
                 /\ map[u][net'[u][k].at] = net'[u][k].hash
      BY <1>a, <3>1, TailKeeps DEF StreamOf
    <3> QED BY <1>a, <2>1, <3>1, <3>2, StreamCarries
  <2> QED BY <2>2, <2>3
<1>8. ASSUME NEW t \in Transfers, StreamLost(t) PROVE StreamOf(u)'
  <2>1. UNCHANGED <<map, need, extra, announced>>
    BY <1>8 DEF StreamLost, mapVars, askVars
  <2>2. CASE u # t
    <3>1. rpc'[u] = rpc[u] /\ net'[u] = net[u] /\ spc'[u] = spc[u]
      BY <1>8, <2>2 DEF StreamLost, TypeOK
    <3> QED BY <1>a, <2>1, <3>1, StreamUntouched
  <2>3. CASE u = t
    <3>1. rpc'[u] = "failed" /\ net'[u] = <<>>
      BY <1>8, <2>3 DEF StreamLost, TypeOK
    <3> QED BY <1>a, <2>1, <3>1, StreamCarries
  <2> QED BY <2>2, <2>3
<1>9. CASE Restart
  <2>1. UNCHANGED <<map, need, extra, announced>> /\ net'[u] = <<>>
    BY <1>9 DEF Restart, mapVars, askVars
  <2>2. rpc[u] = "idle" =>
          rpc'[u] = rpc[u] /\ spc'[u] = spc[u] /\ net'[u] = net[u]
    BY <1>9, <1>a, <2>1 DEF Restart, Active, StreamOf
  <2>3. rpc[u] # "idle" => rpc'[u] \in {"done", "failed"}
    BY <1>9 DEF Restart, Active, TypeOK
  <2>4. CASE rpc[u] = "idle"
    BY <1>a, <2>1, <2>2, <2>4, StreamUntouched
  <2>5. CASE rpc[u] # "idle"
    BY <1>a, <2>1, <2>3, <2>5, StreamCarries
  <2> QED BY <2>4, <2>5
<1>10. ASSUME UNCHANGED <<rpc, map, need, extra, net, spc, announced>>
       PROVE  StreamOf(u)'
  BY <1>a, <1>10, StreamUntouched
<1>11. CASE \/ \E c \in SourceContents : SourceEdit(c)
            \/ \E p \in Paths, c \in LocalContents : LocalEdit(p, c)
            \/ \E p \in Paths : ServeLocalFile(p)
            \/ UNCHANGED vars
  BY <1>10, <1>11 DEF SourceEdit, LocalEdit, ServeLocalFile, vars, recvVars,
     mapVars, askVars, sendVars
<1> QED
  BY <1>1, <1>0, <1>2, <1>3, <1>4, <1>5, <1>6, <1>7, <1>8, <1>9, <1>11
  DEF Next, ReceiverStep, SenderStep, Environment

-----------------------------------------------------------------------------
(* Where the blocks of Dest come from. *)

\* What position i of a file on the receiver's side may hold.
Rightful(i) == {Zero} \cup Announced(i) \cup Written(i)

\* A BlockMap adds to what positions may hold and takes nothing away.
LEMMA AnnouncedGrows ==
  ASSUME announced \subseteq announced'
  PROVE  \A i : Announced(i) \subseteq Announced(i)'
BY DEF Announced

\* The block of a transfer's own map is an announced one.
LEMMA MapIsAnnounced ==
  ASSUME StreamInv, NEW t \in Transfers, NEW i \in DOMAIN map[t],
         map[t] \in Seq(Block)
  PROVE  map[t][i] \in Announced(i)
<1>1. map[t] # <<>>
  OBVIOUS
<1>2. map[t] \in announced
  BY <1>1 DEF StreamInv, StreamOf
<1> QED BY <1>2 DEF Announced

\* Writing an announced block where it belongs keeps the file rightful.
LEMMA WriteThroughProvenance ==
  ASSUME TypeOK, HandleInv, BlockProvenance, IntegrityCheckEnabled,
         NEW t \in Transfers, NEW i \in Nat \ {0}, NEW data \in Block,
         data \in Announced(i), WriteThrough(t, i, data),
         announced' = announced
  PROVE  BlockProvenance'
<1> USE DEF TypeOK, HandleInv
<1>a. Dest \in Paths
  BY DEF Paths
<1>b. /\ tmp # Absent => \A j \in DOMAIN tmp : tmp[j] \in {Zero} \cup Announced(j)
      /\ disk[Dest] # Absent =>
           \A j \in DOMAIN disk[Dest] : disk[Dest][j] \in Rightful(j)
  BY DEF BlockProvenance, Rightful
<1>c. \A j : Announced(j)' = Announced(j) /\ Written(j)' = Written(j)
  BY DEF Announced, Written
<1>1. CASE handle[t] = "tmp"
  <2>1. tmp \in File /\ tmp' = WriteAt(tmp, i, data) /\ disk' = disk
    BY <1>1 DEF WriteThrough
  <2>2. \A j \in DOMAIN tmp' : tmp'[j] \in {Zero} \cup Announced(j)
    <3>1. tmp # Absent
      BY <1>1
    <3>2. \A j \in DOMAIN tmp' :
            \/ j = i /\ tmp'[j] = data
            \/ j \in DOMAIN tmp /\ tmp'[j] = tmp[j]
            \/ tmp'[j] = Zero
      BY <2>1, WriteAtHolds
    <3> HIDE DEF TypeOK, HandleInv
    <3> QED BY <1>b, <3>1, <3>2
  <2> QED BY <1>b, <1>c, <2>1, <2>2 DEF BlockProvenance, Rightful
<1>2. CASE handle[t] = "dest"
  <2>1. /\ disk[Dest] \in File /\ disk'[Dest] = WriteAt(disk[Dest], i, data)
        /\ tmp' = tmp
    BY <1>2, <1>a DEF WriteThrough
  <2>2. \A j \in DOMAIN disk'[Dest] : disk'[Dest][j] \in Rightful(j)
    <3>1. \A j \in DOMAIN disk[Dest] : disk[Dest][j] \in Rightful(j)
      BY <1>b, <1>2
    <3>2. data \in Rightful(i) /\ \A j : Zero \in Rightful(j)
      BY DEF Rightful
    <3>3. \A j \in DOMAIN disk'[Dest] :
            \/ j = i /\ disk'[Dest][j] = data
            \/ j \in DOMAIN disk[Dest] /\ disk'[Dest][j] = disk[Dest][j]
            \/ disk'[Dest][j] = Zero
      BY <2>1, WriteAtHolds
    <3> HIDE DEF TypeOK, HandleInv
    <3> QED BY <3>1, <3>2, <3>3
  <2> QED BY <1>b, <1>c, <2>1, <2>2 DEF BlockProvenance, Rightful
<1>3. CASE handle[t] = "gone"
  BY <1>b, <1>c, <1>3 DEF WriteThrough, BlockProvenance, Rightful
<1> QED BY <1>1, <1>2, <1>3 DEF WriteThrough

\* Every step leaves at each position only blocks that belong there.
LEMMA ProvenanceStep ==
  TypeOK /\ TransferInv /\ BlockProvenance /\ [Next]_vars => BlockProvenance'
<1> SUFFICES ASSUME TypeOK, HandleInv, StreamInv, BlockProvenance, [Next]_vars,
                    IntegrityCheckEnabled
             PROVE  BlockProvenance'
  BY DEF TransferInv, BlockProvenance
<1>a. Dest \in Paths
  BY DEF Paths
<1>b. /\ tmp # Absent => \A j \in DOMAIN tmp : tmp[j] \in {Zero} \cup Announced(j)
      /\ disk[Dest] # Absent =>
           \A j \in DOMAIN disk[Dest] : disk[Dest][j] \in Rightful(j)
  BY DEF BlockProvenance, Rightful
\* Steps that write no file of Dest.
<1>1. ASSUME UNCHANGED <<tmp, disk>>, announced \subseteq announced'
      PROVE  BlockProvenance'
  <2>1. \A j : Announced(j) \subseteq Announced(j)' /\ Written(j)' = Written(j)
    BY <1>1, AnnouncedGrows DEF Written
  <2> QED BY <1>1, <1>b, <2>1 DEF BlockProvenance, Rightful
<1>2. ASSUME NEW t \in Transfers,
             \/ Request(t) \/ StatSource(t) \/ SendBlockMap(t)
             \/ SendBlockNeed(t) \/ SendBlock(t) \/ FinishSending(t)
             \/ RenameFails(t) \/ FinishReceiving(t) \/ StreamLost(t)
      PROVE  BlockProvenance'
  BY <1>1, <1>2 DEF Request, StatSource, SendBlockMap, SendBlockNeed,
     SendBlock, FinishSending, RenameFails, FinishReceiving, StreamLost, fileVars
<1>3. ASSUME NEW t \in Transfers, HandleBlockMap(t) PROVE BlockProvenance'
  <2>1. /\ \A j \in DOMAIN tmp' : tmp'[j] = Zero
        /\ UNCHANGED <<disk, announced>>
    BY <1>3 DEF HandleBlockMap
  <2>2. \A j : Announced(j)' = Announced(j) /\ Written(j)' = Written(j)
    BY <2>1 DEF Announced, Written
  <2> QED BY <1>b, <2>1, <2>2 DEF BlockProvenance, Rightful
<1>4. ASSUME NEW t \in Transfers, PreWrite(t) PROVE BlockProvenance'
  <2> DEFINE h == map[t][pre[t]]
  <2>1. pre[t] \in DOMAIN map[t] /\ pre[t] \in Nat \ {0}
    BY <1>4 DEF PreWrite, HandleInv, TypeOK
  <2>2. h \in Announced(pre[t]) /\ h \in Block
    BY <2>1, MapIsAnnounced DEF TypeOK
  <2>3. announced' = announced
    BY <1>4 DEF PreWrite
  <2>4. UNCHANGED <<tmp, disk>> \/ WriteThrough(t, pre[t], h)
    BY <1>4 DEF PreWrite, HaveLocally
  <2> HIDE DEF h
  <2> QED BY <1>1, <2>1, <2>2, <2>3, <2>4, WriteThroughProvenance
<1>5. ASSUME NEW t \in Transfers, ReceiveBlock(t) PROVE BlockProvenance'
  <2>1. UNCHANGED <<disk, announced>> /\ (tmp' = tmp \/ tmp' = <<>>)
    BY <1>5 DEF ReceiveBlock
  <2>2. \A j : Announced(j)' = Announced(j) /\ Written(j)' = Written(j)
    BY <2>1 DEF Announced, Written
  <2>3. CASE tmp' = <<>>
    BY <1>b, <2>1, <2>2, <2>3 DEF BlockProvenance, Rightful
  <2> QED BY <1>1, <2>1, <2>3
<1>6. ASSUME NEW t \in Transfers, WriteBlock(t) PROVE BlockProvenance'
  <2> DEFINE b == Head(net[t])
  <2>1. StreamOf(t) /\ net[t] \in Seq(BlockData) /\ net[t] # <<>>
    BY <1>6 DEF WriteBlock, StreamInv, StreamOf, TypeOK
  <2>2. b \in BlockData /\ b = net[t][1] /\ 1 \in DOMAIN net[t]
    BY <2>1
  <2>3. b.at \in DOMAIN map[t] /\ map[t][b.at] = b.hash /\ b.data = b.hash
    BY <1>6, <2>1, <2>2 DEF WriteBlock, StreamOf, BlockAccepted
  <2>4. b.at \in Nat \ {0} /\ b.data \in Block
    BY <2>2 DEF BlockData
  <2>5. b.data \in Announced(b.at)
    BY <2>3, MapIsAnnounced DEF TypeOK
  <2>6. WriteThrough(t, b.at, b.data) /\ announced' = announced
    BY <1>6 DEF WriteBlock
  <2> HIDE DEF b
  <2> QED BY <2>4, <2>5, <2>6, WriteThroughProvenance
<1>7. ASSUME NEW t \in Transfers, RemoveDest(t) PROVE BlockProvenance'
  <2>1. UNCHANGED <<tmp, announced>> /\ disk'[Dest] = Absent
    BY <1>7, <1>a DEF RemoveDest, TypeOK
  <2>2. \A j : Announced(j)' = Announced(j)
    BY <2>1 DEF Announced
  <2> QED BY <1>b, <2>1, <2>2 DEF BlockProvenance
<1>8. ASSUME NEW t \in Transfers, RenameTemp(t) PROVE BlockProvenance'
  <2>1. tmp' = Absent /\ announced' = announced /\ disk'[Dest] = tmp /\ tmp # Absent
    BY <1>8, <1>a DEF RenameTemp, TypeOK
  <2>2. \A j : Announced(j)' = Announced(j)
    BY <2>1 DEF Announced
  <2> QED BY <1>b, <2>1, <2>2 DEF BlockProvenance
<1>9. ASSUME NEW p \in Paths, NEW c \in LocalContents, LocalEdit(p, c)
      PROVE  BlockProvenance'
  <2>1. UNCHANGED <<tmp, announced>> /\ disk'[Dest] \in {disk[Dest], c}
    BY <1>9, <1>a DEF LocalEdit, TypeOK
  <2>2. \A j : Announced(j)' = Announced(j) /\ Written(j)' = Written(j)
    BY <2>1 DEF Announced, Written
  <2>3. \A j \in DOMAIN c : c[j] \in Written(j)
    BY DEF Written
  <2> QED BY <1>b, <2>1, <2>2, <2>3 DEF BlockProvenance, Rightful
<1>10. CASE \/ \E c \in SourceContents : SourceEdit(c)
            \/ \E p \in Paths : ServeLocalFile(p)
            \/ Restart
            \/ UNCHANGED vars
  BY <1>1, <1>10 DEF SourceEdit, ServeLocalFile, Restart, vars, fileVars
<1> QED
  BY <1>2, <1>3, <1>4, <1>5, <1>6, <1>7, <1>8, <1>9, <1>10
  DEF Next, ReceiverStep, SenderStep, Environment

\* At the start the destination is what a local user wrote.
LEMMA InitProvenance == Init => BlockProvenance
<1> SUFFICES ASSUME Init PROVE BlockProvenance
  OBVIOUS
<1>1. tmp = Absent /\ (disk[Dest] = Absent \/ disk[Dest] \in LocalContents)
  BY DEF Init, Paths
<1> QED BY <1>1 DEF BlockProvenance, Written

-----------------------------------------------------------------------------
(* One transfer at a time.                                                  *)

OneAtATime == MaxParallel = 1

\* The sender's file stays as it is and repeats no block.
SteadySource ==
  /\ MaxSourceEdits = 0
  /\ \A c \in SourceContents : \A i, j \in DOMAIN c : c[i] = c[j] => i = j

Working == {"preparing", "receiving", "writing", "removing", "renaming"}

\* The transfer under way has the temporary file for its own: nobody else
\* creates it anew, moves it away or removes the file it replaces.
Alone(t) ==
  /\ Active(t) => status = "syncing"
  /\ handle[t] = IF rpc[t] \in {"preparing", "writing"} THEN "tmp" ELSE "none"
  /\ rpc[t] \in Working => tmp # Absent
  /\ rpc[t] = "renaming" => disk[Dest] = Absent \/ localEdits > 0

\* What the transfer is about to replace has been saved.
Saved(t) ==
  /\ rpc[t] \in Working
  /\ VersioningEnabled /\ localEdits = 0
  => disk[Dest] \in {Absent} \cup versions \cup announced

SingleInv ==
  /\ \A t, u \in Transfers : Active(t) /\ Active(u) => t = u
  /\ \A t \in Transfers : Alone(t) /\ Saved(t)

\* Block h is under way to the receiver, or the sender has yet to get to it.
ComesIn(t, h) ==
  \/ \E k \in DOMAIN net[t] : net[t][k].hash = h
  \/ \E k \in DOMAIN need[t] : k > pos[t] /\ need[t][k] = h

\* Every position of the temporary file holds its block already or the block
\* is asked for, and comes in no later than the one marked last.
Filling(t) ==
  /\ rpc[t] \in Working =>
       map[t] = src /\ tmp \in File /\ Len(tmp) = Len(src)
  /\ rpc[t] = "preparing" =>
       /\ pre[t] <= Len(src) + 1
       /\ \A i \in DOMAIN src : i < pre[t] =>
            tmp[i] = src[i] \/ src[i] \in Blocks(need[t]) \cup Blocks(extra[t])
  /\ rpc[t] \in {"receiving", "writing"} =>
       \A i \in DOMAIN src : tmp[i] = src[i] \/ ComesIn(t, src[i])
  /\ rpc[t] \in {"removing", "renaming"} => tmp = src

\* The two ends of the stream agree on how far it has got.
InStep(t) ==
  /\ map[t] \in {<<>>, src}
  /\ sent[t] = pos[t] /\ pos[t] <= Len(need[t])
  /\ rpc[t] \in {"idle", "requested", "preparing"} => pos[t] = 0 /\ net[t] = <<>>
  /\ rpc[t] = "requested" /\ spc[t] \in {"chunking", "awaitNeed"} =>
       size[t] = Len(src)
  /\ rpc[t] = "requested" /\ spc[t] = "awaitNeed" => map[t] = src
  /\ rpc[t] = "idle" => spc[t] = "idle"
  /\ rpc[t] = "preparing" => spc[t] = "awaitNeed"
  /\ \A k \in DOMAIN net[t] :
       /\ net[t][k].data = net[t][k].hash
       /\ net[t][k].last => k = Len(net[t]) /\ pos[t] = Len(need[t])

WholeInv == \A t \in Transfers : Filling(t) /\ InStep(t)

-----------------------------------------------------------------------------
(* The temporary file and the destination of a transfer that runs alone.    *)

\* The file being received is one of the receiver's.
LEMMA DestIsPath == Dest \in Paths
BY DEF Paths

\* At the start no transfer runs.
LEMMA InitSingle == Init => SingleInv
BY DEF Init, SingleInv, Alone, Saved, Active, Working

\* The others do not run.
LEMMA Bystander ==
  ASSUME NEW u \in Transfers, ~Active(u), Alone(u), rpc'[u] = rpc[u],
         handle[u] = "none" => handle'[u] = "none"
  PROVE  ~Active(u)' /\ Alone(u)' /\ Saved(u)'
BY DEF Active, Alone, Saved, Working

\* A step of the transfer that runs has to be right for itself only.
LEMMA SoleStep ==
  ASSUME SingleInv, NEW t \in Transfers, Active(t),
         \A u \in Transfers : u # t =>
           /\ rpc'[u] = rpc[u]
           /\ handle[u] = "none" => handle'[u] = "none",
         Alone(t)', Saved(t)'
  PROVE  SingleInv'
<1>1. ASSUME NEW u \in Transfers, u # t
      PROVE  ~Active(u)' /\ Alone(u)' /\ Saved(u)'
  <2>1. ~Active(u) /\ Alone(u)
    BY <1>1 DEF SingleInv
  <2> QED BY <1>1, <2>1, Bystander
<1>2. ASSUME NEW u \in Transfers, NEW v \in Transfers, Active(u)', Active(v)'
      PROVE  u = v
  <2>1. u = t /\ v = t
    BY <1>1, <1>2
  <2> QED BY <2>1
<1>3. \A u \in Transfers : Alone(u)' /\ Saved(u)'
  BY <1>1
<1> QED BY <1>2, <1>3 DEF SingleInv

\* Steps that concern neither files nor descriptors nor the receiver's place.
LEMMA SingleFrame ==
  ASSUME SingleInv, UNCHANGED <<rpc, handle, status, tmp, disk, versions>>,
         announced \subseteq announced', localEdits' = localEdits
  PROVE  SingleInv'
BY DEF SingleInv, Active, Alone, Saved, Working

\* What a write does when the transfer has its descriptor on the temporary
\* file: the destination stays as it is.
LEMMA WriteToTemp ==
  ASSUME TypeOK, NEW t \in Transfers, handle[t] = "tmp", tmp # Absent,
         NEW i \in Nat \ {0}, NEW data \in Block \cup {Zero},
         WriteThrough(t, i, data)
  PROVE  /\ disk' = disk /\ tmp \in File /\ tmp' \in File /\ tmp' # Absent
         /\ tmp' = WriteAt(tmp, i, data)
<1>1. tmp \in File /\ tmp' = WriteAt(tmp, i, data) /\ disk' = disk
  BY DEF WriteThrough, TypeOK
<1> QED BY <1>1, WriteAtHolds, BlockAssumption

\* Every step of the transfer, of its peer and of the users on both sides
\* leaves the temporary file to the transfer that runs.
LEMMA SingleStep ==
  ASSUME OneAtATime, TypeOK, TransferInv, SingleInv, [Next]_vars
  PROVE  SingleInv'
<1>a. Dest \in Paths
  BY DestIsPath
<1>b. \A t \in Transfers : Alone(t) /\ Saved(t)
  BY DEF SingleInv
<1>1. ASSUME NEW t \in Transfers, Request(t) PROVE SingleInv'
  <2> DEFINE A == {u \in Transfers : Active(u)}
  <2>1. A = {}
    <3>1. SUFFICES ASSUME NEW v \in A PROVE FALSE
      OBVIOUS
    <3>2. A = {v}
      BY DEF SingleInv
    <3>3. Cardinality(A) = 1
      BY <3>2, FS_Singleton
    <3> QED BY <1>1, <3>3 DEF Request, OneAtATime
  <2>2. ASSUME NEW u \in Transfers, u # t
        PROVE  ~Active(u)' /\ Alone(u)' /\ Saved(u)'
    <3>1. ~Active(u) /\ rpc'[u] = rpc[u] /\ handle' = handle
      BY <1>1, <2>1, <2>2 DEF Request
    <3> QED BY <1>b, <3>1, Bystander
  <2>3. Alone(t)' /\ Saved(t)'
    <3>1. /\ ~Active(t) /\ rpc'[t] = "requested" /\ handle' = handle
          /\ status' = "syncing"
      BY <1>1 DEF Request, TypeOK
    <3>2. handle[t] = "none"
      BY <1>b, <3>1 DEF Alone, Active
    <3> QED BY <3>1, <3>2 DEF Alone, Saved, Working
  <2>5. \A u \in Transfers : Alone(u)' /\ Saved(u)'
    BY <2>2, <2>3
  <2>6. \A u, v \in Transfers : Active(u)' /\ Active(v)' => u = v
    <3>1. \A u \in Transfers : Active(u)' => u = t
      BY <2>2
    <3> QED BY <3>1
  <2> QED BY <2>5, <2>6 DEF SingleInv
<1>2. ASSUME NEW t \in Transfers,
             \/ StatSource(t) \/ SendBlockMap(t) \/ SendBlock(t) \/ FinishSending(t)
      PROVE  SingleInv'
  BY <1>2, SingleFrame
  DEF StatSource, SendBlockMap, SendBlock, FinishSending, fileVars, shownVars,
      recvVars, envVars
<1>3. ASSUME NEW t \in Transfers, HandleBlockMap(t) PROVE SingleInv'
  <2>1. /\ rpc[t] = "requested" /\ rpc'[t] = "preparing" /\ handle'[t] = "tmp"
        /\ tmp' = [i \in 1..size[t] |-> Zero] /\ UNCHANGED <<disk, status, localEdits>>
        /\ versions' = SavedVersions(t) /\ announced' = announced
        /\ \A u \in Transfers : u # t => rpc'[u] = rpc[u] /\ handle'[u] = handle[u]
    BY <1>3 DEF HandleBlockMap, TypeOK, shownVars, envVars
  <2>2. tmp' # Absent
    <3>1. [i \in 1..size[t] |-> Zero] \in File
      BY DEF File, TypeOK
    <3> QED BY <2>1, <3>1, BlockAssumption
  <2>3. Active(t) /\ Alone(t)'
    BY <1>b, <2>1, <2>2 DEF Alone, Active, Working
  <2>4. Saved(t)'
    BY <2>1 DEF Saved, SavedVersions
  <2> QED BY <2>1, <2>3, <2>4, SoleStep
<1>4. ASSUME NEW t \in Transfers, PreWrite(t) PROVE SingleInv'
  <2>1. /\ rpc[t] = "preparing" /\ UNCHANGED <<rpc, handle, status, versions,
                                              announced, localEdits>>
    BY <1>4 DEF PreWrite, shownVars, envVars
  <2>2. Active(t) /\ handle[t] = "tmp" /\ tmp # Absent /\ status = "syncing"
    BY <1>b, <2>1 DEF Alone, Active, Working
  <2>3. disk' = disk /\ tmp' # Absent
    <3>1. CASE UNCHANGED <<disk, tmp>>
      BY <2>2, <3>1
    <3>2. CASE WriteThrough(t, pre[t], map[t][pre[t]])
      <4>1. pre[t] \in Nat \ {0} /\ map[t][pre[t]] \in Block
        BY <1>4, <2>1 DEF PreWrite, TypeOK, TransferInv, HandleInv
      <4> QED BY <2>2, <3>2, <4>1, WriteToTemp
    <3> QED BY <1>4, <3>1, <3>2 DEF PreWrite, HaveLocally
  <2>4. Alone(t)' /\ Saved(t)'
    BY <1>b, <2>1, <2>2, <2>3 DEF Alone, Saved, Active, Working
  <2> QED BY <2>1, <2>2, <2>4, SoleStep
<1>5. ASSUME NEW t \in Transfers, SendBlockNeed(t) PROVE SingleInv'
  <2>1. /\ rpc[t] = "preparing" /\ rpc'[t] \in {"receiving", "removing"}
        /\ handle'[t] = "none"
        /\ UNCHANGED <<tmp, disk, status, versions, announced, localEdits>>
        /\ \A u \in Transfers : u # t => rpc'[u] = rpc[u] /\ handle'[u] = handle[u]
    BY <1>5 DEF SendBlockNeed, TypeOK, fileVars, shownVars, envVars
  <2>2. Active(t) /\ tmp # Absent /\ status = "syncing"
    BY <1>b, <2>1 DEF Alone, Active, Working
  <2>3. Alone(t)' /\ Saved(t)'
    BY <1>b, <2>1, <2>2 DEF Alone, Saved, Active, Working
  <2> QED BY <2>1, <2>2, <2>3, SoleStep
<1>6. ASSUME NEW t \in Transfers, ReceiveBlock(t) PROVE SingleInv'
  <2>1. /\ rpc[t] = "receiving"
        /\ UNCHANGED <<disk, status, versions, announced, localEdits>>
        /\ \A u \in Transfers : u # t => rpc'[u] = rpc[u] /\ handle'[u] = handle[u]
        /\ \/ UNCHANGED <<tmp, rpc, handle>>
           \/ /\ tmp' = IF tmp = Absent THEN <<>> ELSE tmp
              /\ rpc'[t] = "writing" /\ handle'[t] = "tmp"
    BY <1>6 DEF ReceiveBlock, TypeOK, shownVars, envVars
  <2>2. Active(t) /\ tmp # Absent /\ status = "syncing"
    BY <1>b, <2>1 DEF Alone, Active, Working
  <2>3. Alone(t)' /\ Saved(t)'
    BY <1>b, <2>1, <2>2 DEF Alone, Saved, Active, Working
  <2> QED BY <2>1, <2>2, <2>3, SoleStep
<1>7. ASSUME NEW t \in Transfers, WriteBlock(t) PROVE SingleInv'
  <2> DEFINE b == Head(net[t])
  <2>1. /\ rpc[t] = "writing" /\ rpc'[t] \in {"receiving", "removing"}
        /\ handle'[t] = "none" /\ WriteThrough(t, b.at, b.data)
        /\ UNCHANGED <<status, versions, announced, localEdits>>
        /\ \A u \in Transfers : u # t => rpc'[u] = rpc[u] /\ handle'[u] = handle[u]
    BY <1>7 DEF WriteBlock, TypeOK, shownVars, envVars
  <2>2. Active(t) /\ tmp # Absent /\ status = "syncing" /\ handle[t] = "tmp"
    BY <1>b, <2>1 DEF Alone, Active, Working
  <2>3. b \in BlockData
    BY <2>1 DEF TransferInv, StreamInv, StreamOf, TypeOK
  <2>4. b.at \in Nat \ {0} /\ b.data \in Block
    BY <2>3 DEF BlockData
  <2>5. disk' = disk /\ tmp' # Absent
    BY <2>1, <2>2, <2>4, WriteToTemp
  <2>6. Alone(t)' /\ Saved(t)'
    BY <1>b, <2>1, <2>2, <2>5 DEF Alone, Saved, Active, Working
  <2> QED BY <2>1, <2>2, <2>6, SoleStep
<1>8. ASSUME NEW t \in Transfers, RemoveDest(t) PROVE SingleInv'
  <2>1. /\ rpc[t] = "removing" /\ rpc'[t] = "renaming" /\ disk'[Dest] = Absent
        /\ UNCHANGED <<tmp, status, versions, announced, localEdits>>
        /\ \A u \in Transfers : handle[u] = "none" => handle'[u] = "none"
        /\ \A u \in Transfers : u # t => rpc'[u] = rpc[u]
    BY <1>8, <1>a DEF RemoveDest, HandlesAfterRemove, TypeOK, shownVars, envVars
  <2>2. Active(t) /\ tmp # Absent /\ status = "syncing" /\ handle[t] = "none"
    BY <1>b, <2>1 DEF Alone, Active, Working
  <2>3. Alone(t)' /\ Saved(t)'
    BY <2>1, <2>2 DEF Alone, Saved, Active, Working
  <2> QED BY <2>1, <2>2, <2>3, SoleStep
<1>9. ASSUME NEW t \in Transfers, RenameTemp(t) PROVE SingleInv'
  <2>1. /\ rpc[t] = "renaming" /\ rpc'[t] = "finishing" /\ disk'[Dest] = tmp
        /\ tmp # Absent
        /\ UNCHANGED <<status, versions, announced, localEdits>>
        /\ \A u \in Transfers : handle[u] = "none" => handle'[u] = "none"
        /\ \A u \in Transfers : u # t => rpc'[u] = rpc[u]
    BY <1>9, <1>a DEF RenameTemp, HandlesAfterRename, TypeOK, shownVars, envVars
  <2>2. Active(t) /\ status = "syncing" /\ handle[t] = "none"
    BY <1>b, <2>1 DEF Alone, Active, Working
  <2>3. Alone(t)' /\ Saved(t)'
    BY <2>1, <2>2 DEF Alone, Saved, Active, Working
  <2> QED BY <2>1, <2>2, <2>3, SoleStep
<1>10. ASSUME NEW t \in Transfers, RenameFails(t) PROVE SingleInv'
  <2>1. /\ rpc[t] \in {"removing", "renaming"}
        /\ rpc'[t] \in {"removing", "receiving", "finishing"}
        /\ UNCHANGED <<tmp, disk, handle, status, versions, announced, localEdits>>
        /\ \A u \in Transfers : u # t => rpc'[u] = rpc[u]
    BY <1>10 DEF RenameFails, AttemptFails, TypeOK, fileVars, shownVars, envVars
  <2>2. Active(t) /\ tmp # Absent /\ status = "syncing" /\ handle[t] = "none"
    BY <1>b, <2>1 DEF Alone, Active, Working
  <2>3. Alone(t)' /\ Saved(t)'
    BY <1>b, <2>1, <2>2 DEF Alone, Saved, Active, Working
  <2> QED BY <2>1, <2>2, <2>3, SoleStep
<1>11. ASSUME NEW t \in Transfers, FinishReceiving(t) PROVE SingleInv'
  <2>1. /\ rpc[t] = "finishing" /\ rpc'[t] = "done" /\ UNCHANGED <<disk, handle>>
        /\ \A u \in Transfers : u # t => rpc'[u] = rpc[u]
    BY <1>11 DEF FinishReceiving, TypeOK, fileVars
  <2>2. Active(t) /\ handle[t] = "none"
    BY <1>b, <2>1 DEF Alone, Active
  <2>3. Alone(t)' /\ Saved(t)'
    BY <2>1, <2>2 DEF Alone, Saved, Active, Working
  <2> QED BY <2>1, <2>2, <2>3, SoleStep
<1>12. ASSUME NEW t \in Transfers, StreamLost(t) PROVE SingleInv'
  <2>1. /\ rpc[t] \in {"requested", "receiving", "preparing"} /\ rpc'[t] = "failed"
        /\ handle'[t] = "none" /\ UNCHANGED <<disk, status>>
        /\ \A u \in Transfers : u # t => rpc'[u] = rpc[u] /\ handle'[u] = handle[u]
    BY <1>12 DEF StreamLost, TypeOK, fileVars, shownVars
  <2>2. Active(t) /\ status = "syncing"
    BY <1>b, <2>1 DEF Alone, Active
  <2>3. Alone(t)' /\ Saved(t)'
    BY <2>1, <2>2 DEF Alone, Saved, Active, Working
  <2> QED BY <2>1, <2>2, <2>3, SoleStep
<1>13. ASSUME NEW p \in Paths, NEW c \in LocalContents, LocalEdit(p, c)
       PROVE  SingleInv'
  <2>1. c # Absent
    BY ContentAssumption, BlockAssumption DEF File
  <2>2. /\ UNCHANGED <<rpc, handle, status, tmp>> /\ localEdits' > 0
        /\ disk[Dest] # Absent => disk'[Dest] # Absent
    BY <1>13, <1>a, <2>1 DEF LocalEdit, TypeOK, shownVars, recvVars
  <2> QED BY <2>2 DEF SingleInv, Active, Alone, Saved, Working
<1>14. ASSUME NEW p \in Paths, ServeLocalFile(p) PROVE SingleInv'
  BY <1>14, SingleFrame DEF ServeLocalFile, shownVars, recvVars, envVars
<1>15. ASSUME NEW c \in SourceContents, SourceEdit(c) PROVE SingleInv'
  BY <1>15, SingleFrame DEF SourceEdit, fileVars, shownVars, recvVars
<1>16. CASE Restart
  <2>1. /\ \A u \in Transfers : rpc'[u] \in {"idle", "done", "failed"}
                                /\ handle'[u] = "none"
        /\ status' = "unknown"
    BY <1>16 DEF Restart, Active, TypeOK
  <2> QED BY <2>1 DEF SingleInv, Active, Alone, Saved, Working
<1>17. CASE UNCHANGED vars
  BY <1>17, SingleFrame DEF vars, fileVars, shownVars, recvVars, envVars
<1> QED
  BY <1>1, <1>2, <1>3, <1>4, <1>5, <1>6, <1>7, <1>8, <1>9, <1>10, <1>11, <1>12,
     <1>13, <1>14, <1>15, <1>16, <1>17
  DEF Next, ReceiverStep, SenderStep, Environment

-----------------------------------------------------------------------------
(* What a transfer that runs alone publishes.                               *)

\* At the start nothing has been announced, asked for or sent.
LEMMA InitWhole == Init => WholeInv
BY DEF Init, WholeInv, Filling, InStep, Working

\* What was needed, and what turned out to be, is asked for.
LEMMA ConcatAsksAll ==
  ASSUME NEW S, NEW s1 \in Seq(S), NEW s2 \in Seq(S)
  PROVE  Blocks(s1) \cup Blocks(s2) \subseteq Blocks(s1 \o s2)
<1>1. ASSUME NEW i \in DOMAIN s1 PROVE s1[i] \in Blocks(s1 \o s2)
  <2>1. i \in DOMAIN (s1 \o s2) /\ (s1 \o s2)[i] = s1[i]
    OBVIOUS
  <2> QED BY <2>1 DEF Blocks
<1>2. ASSUME NEW i \in DOMAIN s2 PROVE s2[i] \in Blocks(s1 \o s2)
  <2>1. Len(s1) + i \in DOMAIN (s1 \o s2) /\ (s1 \o s2)[Len(s1) + i] = s2[i]
    OBVIOUS
  <2> QED BY <2>1 DEF Blocks
<1> QED BY <1>1, <1>2 DEF Blocks

\* A write within the file changes one position and nothing else.
LEMMA WriteInside ==
  ASSUME NEW file \in File, NEW i \in DOMAIN file, NEW data \in Block
  PROVE  /\ WriteAt(file, i, data) \in File
         /\ Len(WriteAt(file, i, data)) = Len(file)
         /\ WriteAt(file, i, data)[i] = data
         /\ \A j \in DOMAIN file : j # i => WriteAt(file, i, data)[j] = file[j]
BY DEF File, WriteAt

\* A transfer none of whose own variables changes keeps its invariant, and
\* the temporary file is nothing to one that does not use it.
LEMMA WholeFrame ==
  ASSUME NEW u \in Transfers, Filling(u), InStep(u), src' = src,
         rpc'[u] = rpc[u], spc'[u] = spc[u], map'[u] = map[u],
         size'[u] = size[u], need'[u] = need[u], extra'[u] = extra[u],
         pre'[u] = pre[u], pos'[u] = pos[u], sent'[u] = sent[u],
         net'[u] = net[u], tmp' = tmp \/ rpc[u] \notin Working
  PROVE  Filling(u)' /\ InStep(u)'
<1>1. CASE rpc[u] \notin Working
  <2>1. Filling(u)'
    BY <1>1 DEF Filling, Working
  <2>2. InStep(u)'
    BY DEF InStep
  <2> QED BY <2>1, <2>2
<1>2. CASE tmp' = tmp
  BY <1>2 DEF Filling, InStep, ComesIn, Blocks, Working
<1> QED BY <1>1, <1>2

\* Every step keeps each position of the temporary file filled or on its way,
\* up to the block that is marked last.
LEMMA WholeStep ==
  ASSUME OneAtATime, SteadySource, TypeOK, TransferInv, SingleInv, WholeInv,
         [Next]_vars
  PROVE  WholeInv'
<1> SUFFICES ASSUME NEW u \in Transfers PROVE Filling(u)' /\ InStep(u)'
  BY DEF WholeInv
<1>a. Filling(u) /\ InStep(u) /\ Alone(u) /\ StreamOf(u)
  BY DEF WholeInv, SingleInv, TransferInv, StreamInv
<1>b. src \in Seq(Block) /\ src # <<>>
  BY ContentAssumption DEF TypeOK
<1>c. \A i, j \in DOMAIN src : src[i] = src[j] => i = j
  BY DEF SteadySource, TypeOK
<1>d. rpc[u] \in Working => map[u] = src /\ tmp \in File /\ Len(tmp) = Len(src)
  BY <1>a DEF Filling
\* Somebody else's step.
<1>e. ASSUME NEW t \in Transfers, t # u, rpc[t] \in Working PROVE rpc[u] \notin Working
  BY <1>e DEF SingleInv, Active, Working
<1>1. ASSUME NEW t \in Transfers, Request(t) PROVE Filling(u)' /\ InStep(u)'
  <2>2. CASE u # t
    <3>1. /\ src' = src /\ tmp' = tmp /\ rpc'[u] = rpc[u] /\ spc'[u] = spc[u]
          /\ map'[u] = map[u] /\ size'[u] = size[u] /\ need'[u] = need[u]
          /\ extra'[u] = extra[u] /\ pre'[u] = pre[u] /\ pos'[u] = pos[u]
          /\ sent'[u] = sent[u] /\ net'[u] = net[u]
      BY <1>1, <2>2 DEF Request, fileVars, TypeOK
    <3> QED BY <1>a, <3>1, WholeFrame
  <2>3. CASE u = t
    <3>1. /\ rpc'[u] = "requested" /\ spc'[u] = "idle" /\ map'[u] = <<>>
          /\ need'[u] = <<>> /\ pos'[u] = 0 /\ sent'[u] = 0 /\ net'[u] = <<>>
      BY <1>1, <2>3 DEF Request, TypeOK
    <3>2. Filling(u)'
      BY <3>1 DEF Filling, Working
    <3>3. InStep(u)'
      BY <3>1 DEF InStep
    <3> QED BY <3>2, <3>3
  <2> QED BY <2>2, <2>3
<1>2. ASSUME NEW t \in Transfers, StatSource(t) PROVE Filling(u)' /\ InStep(u)'
  <2>1. UNCHANGED <<tmp, src, rpc, map, need, extra, pre, pos, sent, net>>
    BY <1>2 DEF StatSource, fileVars, askVars
  <2>2. CASE u # t
    <3>1. spc'[u] = spc[u] /\ size'[u] = size[u]
      BY <1>2, <2>2 DEF StatSource, TypeOK
    <3> QED BY <1>a, <2>1, <3>1, WholeFrame
  <2>3. CASE u = t
    <3>1. rpc[u] = "requested" /\ spc'[u] = "chunking" /\ size'[u] = Len(src)
      BY <1>2, <2>3 DEF StatSource, TypeOK
    <3>2. Filling(u)'
      BY <2>1, <3>1 DEF Filling, Working
    <3>3. InStep(u)'
      BY <1>a, <2>1, <3>1 DEF InStep
    <3> QED BY <3>2, <3>3
  <2> QED BY <2>2, <2>3
<1>3. ASSUME NEW t \in Transfers, SendBlockMap(t) PROVE Filling(u)' /\ InStep(u)'
  <2>1. UNCHANGED <<tmp, src, rpc, size, need, extra, pre, pos, sent, net>>
    BY <1>3 DEF SendBlockMap, fileVars, askVars
  <2>2. CASE u # t
    <3>1. spc'[u] = spc[u] /\ map'[u] = map[u]
      BY <1>3, <2>2 DEF SendBlockMap, TypeOK
    <3> QED BY <1>a, <2>1, <3>1, WholeFrame
  <2>3. CASE u = t
    <3>1. /\ rpc[u] = "requested" /\ spc[u] = "chunking" /\ spc'[u] = "awaitNeed"
          /\ map'[u] = src
      BY <1>3, <2>3 DEF SendBlockMap, TypeOK
    <3>2. Filling(u)'
      BY <2>1, <3>1 DEF Filling, Working
    <3>3. InStep(u)'
      BY <1>a, <2>1, <3>1 DEF InStep
    <3> QED BY <3>2, <3>3
  <2> QED BY <2>2, <2>3
<1>4. ASSUME NEW t \in Transfers, HandleBlockMap(t) PROVE Filling(u)' /\ InStep(u)'
  <2>1. /\ UNCHANGED <<src, spc, map, size, need, extra, pos, sent, net>>
        /\ rpc[t] = "requested" /\ spc[t] = "awaitNeed"
    BY <1>4 DEF HandleBlockMap, mapVars, sendVars
  <2>2. CASE u # t
    <3>1. rpc'[u] = rpc[u] /\ pre'[u] = pre[u] /\ rpc[u] \notin Working
      BY <1>4, <2>1, <2>2 DEF HandleBlockMap, TypeOK, SingleInv, Active, Working
    <3> QED BY <1>a, <2>1, <3>1, WholeFrame
  <2>3. CASE u = t
    <3>1. /\ rpc'[u] = "preparing" /\ pre'[u] = 1
          /\ tmp' = [i \in 1..size[u] |-> Zero]
      BY <1>4, <2>3 DEF HandleBlockMap, TypeOK
    <3>2. map[u] = src /\ size[u] = Len(src) /\ pos[u] = 0 /\ net[u] = <<>>
      BY <1>a, <2>1, <2>3 DEF InStep
    <3>3. tmp' \in File /\ Len(tmp') = Len(src)
      BY <1>b, <3>1, <3>2 DEF File
    <3>4. Filling(u)'
      <4>1. 1 <= Len(src) + 1 /\ \A i \in DOMAIN src : ~(i < 1)
        BY <1>b
      <4> QED BY <2>1, <3>1, <3>2, <3>3, <4>1 DEF Filling
    <3>5. InStep(u)'
      BY <1>a, <2>1, <2>3, <3>1, <3>2 DEF InStep
    <3> QED BY <3>4, <3>5
  <2> QED BY <2>2, <2>3
<1>5. ASSUME NEW t \in Transfers, PreWrite(t) PROVE Filling(u)' /\ InStep(u)'
  <2> DEFINE h == map[t][pre[t]]
  <2>1. /\ UNCHANGED <<src, rpc, spc, map, size, pos, sent, net>>
        /\ rpc[t] = "preparing" /\ pre[t] <= Len(map[t]) /\ pre[t] \in Nat \ {0}
    BY <1>5 DEF PreWrite, mapVars, sendVars, TransferInv, HandleInv
  <2>2. CASE u # t
    <3>1. /\ pre'[u] = pre[u] /\ need'[u] = need[u] /\ extra'[u] = extra[u]
          /\ rpc[u] \notin Working
      BY <1>5, <2>1, <2>2 DEF PreWrite, TypeOK, SingleInv, Active, Working
    <3> QED BY <1>a, <2>1, <3>1, WholeFrame
  <2>3. CASE u = t
    <3>1. /\ map[u] = src /\ tmp \in File /\ Len(tmp) = Len(src)
          /\ pre[u] \in DOMAIN src /\ h = src[pre[u]] /\ h \in Block
          /\ handle[u] = "tmp" /\ tmp # Absent
      <4>1. rpc[u] \in Working /\ handle[u] = "tmp" /\ tmp # Absent
        BY <1>a, <2>1, <2>3 DEF Alone, Working
      <4>2. map[u] = src /\ tmp \in File /\ Len(tmp) = Len(src)
        BY <1>d, <4>1
      <4>3. pre[u] \in DOMAIN src
        BY <1>b, <2>1, <2>3, <4>2
      <4>4. h = src[pre[u]] /\ h \in Block
        BY <1>b, <2>3, <4>2, <4>3
      <4> QED BY <4>1, <4>2, <4>3, <4>4
    <3>2. pre'[u] = pre[u] + 1 /\ pre'[u] <= Len(src) + 1
      BY <1>5, <2>1, <2>3, <3>1, SMTT(30) DEF PreWrite, TypeOK
    <3>3. \/ /\ tmp' = tmp /\ extra'[u] = extra[u]
             /\ need'[u] = Append(need[u], h)
          \/ /\ tmp' = tmp /\ need'[u] = need[u]
             /\ extra'[u] = Append(extra[u], h)
          \/ /\ tmp' = WriteAt(tmp, pre[u], h)
             /\ need'[u] = need[u] /\ extra'[u] = extra[u]
      <4> HIDE DEF h
      <4>1. HaveLocally(h) => BlockOnDisk(h) = h
        BY DEF HaveLocally
      <4>2. \/ UNCHANGED <<tmp, extra>> /\ need' = [need EXCEPT ![t] = Append(@, h)]
            \/ UNCHANGED <<tmp, need>> /\ extra' = [extra EXCEPT ![t] = Append(@, h)]
            \/ WriteThrough(t, pre[t], h) /\ UNCHANGED <<need, extra>>
        BY <1>5, <4>1 DEF PreWrite, h
      <4>3. CASE UNCHANGED <<tmp, extra>> /\ need' = [need EXCEPT ![t] = Append(@, h)]
        BY <2>3, <4>3 DEF TypeOK
      <4>4. CASE UNCHANGED <<tmp, need>> /\ extra' = [extra EXCEPT ![t] = Append(@, h)]
        BY <2>3, <4>4 DEF TypeOK
      <4>5. CASE WriteThrough(t, pre[t], h) /\ UNCHANGED <<need, extra>>
        BY <2>3, <3>1, <4>5 DEF WriteThrough
      <4> QED BY <4>2, <4>3, <4>4, <4>5
    <3> HIDE DEF h
    <3>4. need[u] \in Seq(Block) /\ extra[u] \in Seq(Block)
      BY DEF TypeOK
    <3>5. /\ Blocks(Append(need[u], h)) = Blocks(need[u]) \cup {h}
          /\ Blocks(Append(extra[u], h)) = Blocks(extra[u]) \cup {h}
      BY <3>1, <3>4, BlocksOfAppend
    <3>6. \A i \in DOMAIN src : i < pre[u] =>
            tmp[i] = src[i] \/ src[i] \in Blocks(need[u]) \cup Blocks(extra[u])
      BY <1>a, <2>1, <2>3 DEF Filling
    <3>7. /\ tmp' \in File /\ Len(tmp') = Len(src)
          /\ \A i \in DOMAIN src : i < pre[u] + 1 =>
               tmp'[i] = src[i] \/ src[i] \in Blocks(need'[u]) \cup Blocks(extra'[u])
      <4>1. \A i \in DOMAIN src : i < pre[u] + 1 => i < pre[u] \/ i = pre[u]
        BY <2>1, <2>3, <1>b
      <4>2. CASE /\ tmp' = tmp /\ extra'[u] = extra[u]
                 /\ need'[u] = Append(need[u], h)
        BY <3>1, <3>5, <3>6, <4>1, <4>2
      <4>3. CASE /\ tmp' = tmp /\ need'[u] = need[u]
                 /\ extra'[u] = Append(extra[u], h)
        BY <3>1, <3>5, <3>6, <4>1, <4>3
      <4>4. CASE /\ tmp' = WriteAt(tmp, pre[u], h)
                 /\ need'[u] = need[u] /\ extra'[u] = extra[u]
        <5>1. DOMAIN tmp = DOMAIN src
          BY <1>b, <3>1 DEF File
        <5>2. /\ tmp' \in File /\ Len(tmp') = Len(src) /\ tmp'[pre[u]] = h
              /\ \A j \in DOMAIN src : j # pre[u] => tmp'[j] = tmp[j]
          <6>1. pre[u] \in DOMAIN tmp /\ tmp \in File /\ h \in Block
            BY <3>1, <5>1
          <6>2. /\ WriteAt(tmp, pre[u], h) \in File
                /\ Len(WriteAt(tmp, pre[u], h)) = Len(tmp)
                /\ WriteAt(tmp, pre[u], h)[pre[u]] = h
                /\ \A j \in DOMAIN tmp :
                     j # pre[u] => WriteAt(tmp, pre[u], h)[j] = tmp[j]
            BY <6>1, WriteInside
          <6> QED BY <3>1, <4>4, <5>1, <6>2
        <5> QED BY <3>1, <3>6, <4>1, <4>4, <5>2
      <4> QED BY <3>3, <4>2, <4>3, <4>4
    <3>8. Filling(u)'
      <4>1. rpc'[u] = "preparing" /\ map'[u] = src /\ src' = src
        BY <2>1, <2>3, <3>1
      <4> QED BY <3>2, <3>7, <4>1 DEF Filling, Blocks
    <3>9. pos[u] = 0 /\ sent[u] = 0 /\ 0 <= Len(need'[u])
      <4>1. need'[u] \in Seq(Block)
        <5>1. Append(need[u], h) \in Seq(Block)
          BY <3>1, <3>4
        <5> QED BY <3>3, <3>4, <5>1
      <4> QED BY <1>a, <2>1, <2>3, <4>1 DEF InStep
    <3>10. InStep(u)'
      BY <1>a, <2>1, <2>3, <3>9 DEF InStep
    <3> QED BY <3>8, <3>10
  <2> QED BY <2>2, <2>3
<1>6. ASSUME NEW t \in Transfers, SendBlockNeed(t) PROVE Filling(u)' /\ InStep(u)'
  <2>1. /\ UNCHANGED <<tmp, src, map, size, pre, pos, sent, net>>
        /\ rpc[t] = "preparing" /\ pre[t] > Len(map[t])
    BY <1>6 DEF SendBlockNeed, fileVars, mapVars
  <2>2. CASE u # t
    <3>1. /\ rpc'[u] = rpc[u] /\ spc'[u] = spc[u]
          /\ need'[u] = need[u] /\ extra'[u] = extra[u]
      BY <1>6, <2>2 DEF SendBlockNeed, TypeOK
    <3> QED BY <1>a, <2>1, <3>1, WholeFrame
  <2>3. CASE u = t
    <3> DEFINE n == need[u] \o extra[u]
    <3>1. /\ need'[u] = n /\ extra'[u] = <<>>
          /\ rpc'[u] = IF n = <<>> THEN "removing" ELSE "receiving"
          /\ spc'[u] \in {"served", "sending"}
      BY <1>6, <2>3 DEF SendBlockNeed, TypeOK
    <3>2. need[u] \in Seq(Block) /\ extra[u] \in Seq(Block) /\ pre[u] \in Nat
      BY DEF TypeOK
    <3>3. n \in Seq(Block) /\ Blocks(need[u]) \cup Blocks(extra[u]) \subseteq Blocks(n)
      BY <3>2, ConcatAsksAll
    <3> HIDE DEF n
    <3>4. rpc[u] = "preparing" /\ map[u] = src /\ tmp \in File /\ Len(tmp) = Len(src)
      BY <1>d, <2>1, <2>3 DEF Working
    <3>5. \A i \in DOMAIN src : i < pre[u]
      BY <1>b, <2>1, <2>3, <3>2, <3>4
    <3>6. \A i \in DOMAIN src : tmp[i] = src[i] \/ src[i] \in Blocks(n)
      BY <1>a, <3>3, <3>4, <3>5 DEF Filling
    <3>7. pos[u] = 0 /\ sent[u] = 0 /\ net[u] = <<>>
      BY <1>a, <3>4 DEF InStep
    <3>8. Filling(u)'
      <4>1. CASE n = <<>>
        <5>1. \A i \in DOMAIN src : tmp[i] = src[i]
          BY <3>6, <4>1 DEF Blocks
        <5>2. tmp = src
          BY <1>b, <3>4, <5>1 DEF File
        <5> QED BY <2>1, <3>1, <3>4, <4>1, <5>2 DEF Filling
      <4>2. CASE n # <<>>
        <5>1. \A i \in DOMAIN src :
                tmp[i] = src[i] \/ \E k \in DOMAIN n : k > 0 /\ n[k] = src[i]
          BY <3>3, <3>6 DEF Blocks
        <5>2. rpc'[u] = "receiving" /\ pos'[u] = 0
          BY <2>1, <3>1, <3>7, <4>2
        <5> QED BY <2>1, <3>1, <3>4, <5>1, <5>2 DEF Filling, ComesIn
      <4> QED BY <4>1, <4>2
    <3>9. InStep(u)'
      <4>1. 0 <= Len(n)
        BY <3>3
      <4> QED BY <1>a, <2>1, <3>1, <3>7, <4>1 DEF InStep
    <3> QED BY <3>8, <3>9
  <2> QED BY <2>2, <2>3
<1>7. ASSUME NEW t \in Transfers, SendBlock(t) PROVE Filling(u)' /\ InStep(u)'
  <2>1. UNCHANGED <<tmp, src, rpc, spc, map, size, need, extra, pre>>
    BY <1>7 DEF SendBlock, fileVars, recvVars, mapVars, askVars
  <2>2. CASE u # t
    <3>1. pos'[u] = pos[u] /\ sent'[u] = sent[u] /\ net'[u] = net[u]
      BY <1>7, <2>2 DEF SendBlock, TypeOK
    <3> QED BY <1>a, <2>1, <3>1, WholeFrame
  <2>3. CASE u = t
    <3> DEFINE h == need[u][pos[u] + 1]
               i == ChunkOffset(map[u], h)
               b == [hash |-> h, at |-> i, data |-> src[i], last |-> IsLast(u)]
    <3>1. /\ spc[u] = "sending" /\ pos[u] < Len(need[u])
          /\ need[u] \in Seq(Block) /\ pos[u] \in Nat /\ sent[u] = pos[u]
          /\ net[u] \in Seq(BlockData)
      BY <1>7, <1>a, <2>3 DEF SendBlock, TypeOK, InStep
    <3>2. pos[u] + 1 \in DOMAIN need[u] /\ h \in Blocks(map[u])
      <4>1. pos[u] + 1 \in DOMAIN need[u]
        BY <3>1
      <4>2. h \in Blocks(need[u])
        BY <4>1 DEF Blocks
      <4> QED BY <1>a, <4>1, <4>2 DEF StreamOf
    <3>3. map[u] = src
      <4>1. map[u] # <<>>
        BY <3>2 DEF Blocks
      <4> QED BY <1>a, <4>1 DEF InStep
    <3>4. i \in DOMAIN src /\ src[i] = h /\ i <= Len(src)
      BY <1>b, <3>2, <3>3, ChunkOffsetHolds
    <3>5. rpc[u] \notin {"idle", "requested", "preparing"}
      BY <1>a, <3>1 DEF InStep, StreamOf
    <3>6. /\ pos'[u] = pos[u] + 1 /\ sent'[u] = sent[u] + 1
          /\ net'[u] = Append(net[u], b)
      BY <1>7, <1>b, <2>3, <3>3, <3>4 DEF SendBlock, TypeOK
    <3>7. b.hash = h /\ b.data = h /\ (b.last <=> pos[u] + 1 = Len(need[u]))
      BY <3>1, <3>4 DEF IsLast
    <3> HIDE DEF h, i, b
    <3>8. \A k \in DOMAIN net'[u] :
            \/ k \in DOMAIN net[u] /\ net'[u][k] = net[u][k]
            \/ k = Len(net[u]) + 1 /\ net'[u][k] = b
      BY <3>1, <3>6
    <3>9. Len(net'[u]) = Len(net[u]) + 1 /\ Len(net[u]) + 1 \in DOMAIN net'[u]
          /\ net'[u][Len(net[u]) + 1] = b
          /\ \A k \in DOMAIN net[u] : k \in DOMAIN net'[u] /\ net'[u][k] = net[u][k]
      BY <3>1, <3>6
    <3>10. \A x : ComesIn(u, x) => ComesIn(u, x)'
      <4> SUFFICES ASSUME NEW x, ComesIn(u, x) PROVE ComesIn(u, x)'
        OBVIOUS
      <4>1. CASE \E k \in DOMAIN net[u] : net[u][k].hash = x
        BY <3>9, <4>1 DEF ComesIn
      <4>2. CASE \E k \in DOMAIN need[u] : k > pos[u] /\ need[u][k] = x
        <5>1. PICK k \in DOMAIN need[u] : k > pos[u] /\ need[u][k] = x
          BY <4>2
        <5>2. k = pos[u] + 1 \/ k > pos[u] + 1
          BY <3>1, <5>1
        <5>3. CASE k = pos[u] + 1
          BY <3>7, <3>9, <5>1, <5>3 DEF ComesIn, h
        <5>4. CASE k > pos[u] + 1
          BY <2>1, <3>6, <5>1, <5>4 DEF ComesIn
        <5> QED BY <5>2, <5>3, <5>4
      <4> QED BY <4>1, <4>2 DEF ComesIn
    <3>11. Filling(u)'
      <4>1. rpc'[u] = rpc[u] /\ map'[u] = map[u] /\ src' = src /\ tmp' = tmp
        BY <2>1
      <4>2. rpc[u] \in {"receiving", "writing"} =>
              \A j \in DOMAIN src :
                tmp[j] = src[j] \/ \E x : x = src[j] /\ ComesIn(u, x)'
        BY <1>a, <3>10 DEF Filling
      <4>3. (rpc[u] \in {"receiving", "writing"} =>
              \A j \in DOMAIN src : tmp[j] = src[j] \/ ComesIn(u, src[j]))'
        BY <4>1, <4>2 DEF ComesIn
      <4> QED BY <1>a, <3>5, <4>1, <4>3 DEF Filling
    <3>12. \A k \in DOMAIN net'[u] :
             /\ net'[u][k].data = net'[u][k].hash
             /\ net'[u][k].last => k = Len(net'[u]) /\ pos'[u] = Len(need[u])
      <4>1. ASSUME NEW k \in DOMAIN net[u]
            PROVE  net[u][k].data = net[u][k].hash /\ ~net[u][k].last
        BY <1>a, <3>1, <4>1 DEF InStep
      <4> QED BY <3>6, <3>7, <3>8, <3>9, <4>1
    <3>13. pos'[u] = sent'[u] /\ pos'[u] <= Len(need[u])
      BY <3>1, <3>6
    <3>14. InStep(u)'
      BY <1>a, <2>1, <3>5, <3>12, <3>13 DEF InStep
    <3> QED BY <3>11, <3>14
  <2> QED BY <2>2, <2>3
<1>8. ASSUME NEW t \in Transfers, FinishSending(t) PROVE Filling(u)' /\ InStep(u)'
  <2>1. /\ UNCHANGED <<tmp, src, rpc, map, size, need, extra, pre, pos, sent, net>>
        /\ spc[t] = "sending" /\ spc' = [spc EXCEPT ![t] = "served"]
    BY <1>8 DEF FinishSending, fileVars, recvVars, mapVars, askVars
  <2>2. CASE u # t
    <3>1. spc'[u] = spc[u]
      BY <2>1, <2>2 DEF TypeOK
    <3> QED BY <1>a, <2>1, <3>1, WholeFrame
  <2>3. CASE u = t
    <3>1. spc'[u] = "served" /\ rpc[u] \notin {"idle", "requested", "preparing"}
      BY <1>a, <2>1, <2>3 DEF TypeOK, InStep, StreamOf
    <3>2. Filling(u)'
      BY <1>a, <2>1 DEF Filling, ComesIn, Working, Blocks
    <3>3. InStep(u)'
      BY <1>a, <2>1, <3>1 DEF InStep
    <3> QED BY <3>2, <3>3
  <2> QED BY <2>2, <2>3
<1>9. ASSUME NEW t \in Transfers, ReceiveBlock(t) PROVE Filling(u)' /\ InStep(u)'
  <2>1. /\ UNCHANGED <<src, spc, map, size, need, extra, pre, pos, sent>>
        /\ rpc[t] = "receiving"
    BY <1>9 DEF ReceiveBlock, mapVars, askVars, sendVars
  <2>2. CASE u # t
    <3>1. rpc'[u] = rpc[u] /\ net'[u] = net[u]
      BY <1>9, <2>2 DEF ReceiveBlock, TypeOK
    <3>2. rpc[u] \notin Working
      BY <1>e, <2>1, <2>2 DEF Working
    <3> QED BY <1>a, <2>1, <3>1, <3>2, WholeFrame
  <2>3. CASE u = t
    <3>1. net[u] \in Seq(BlockData) /\ net[u] # <<>>
      BY <1>9, <2>3 DEF ReceiveBlock, TypeOK
    <3>2. 1 \in DOMAIN net[u] /\ Head(net[u]) = net[u][1]
      BY <3>1
    <3>3. BlockAccepted(Head(net[u])) /\ tmp # Absent
      BY <1>a, <2>1, <2>3, <3>2 DEF InStep, BlockAccepted, Alone, Working
    <3>4. tmp' = tmp /\ net' = net /\ rpc'[u] = "writing" /\ rpc[u] = "receiving"
      BY <1>9, <2>3, <3>3 DEF ReceiveBlock, TypeOK
    <3>5. Filling(u)'
      BY <1>a, <2>1, <3>4 DEF Filling, ComesIn, Working
    <3>6. InStep(u)'
      BY <1>a, <2>1, <3>4 DEF InStep
    <3> QED BY <3>5, <3>6
  <2> QED BY <2>2, <2>3
<1>10. ASSUME NEW t \in Transfers, WriteBlock(t) PROVE Filling(u)' /\ InStep(u)'
  <2>1. /\ UNCHANGED <<src, spc, map, size, need, extra, pre, pos, sent>>
        /\ rpc[t] = "writing"
    BY <1>10 DEF WriteBlock, mapVars, askVars, sendVars
  <2>2. CASE u # t
    <3>1. rpc'[u] = rpc[u] /\ net'[u] = net[u]
      BY <1>10, <2>2 DEF WriteBlock, TypeOK
    <3>2. rpc[u] \notin Working
      BY <1>e, <2>1, <2>2 DEF Working
    <3> QED BY <1>a, <2>1, <3>1, <3>2, WholeFrame
  <2>3. CASE u = t
    <3> DEFINE b == net[u][1]
    <3>1. /\ net[u] \in Seq(BlockData) /\ net[u] # <<>> /\ rpc[u] = "writing"
      BY <1>a, <2>1, <2>3 DEF StreamOf, TypeOK
    <3>2. 1 \in DOMAIN net[u] /\ Head(net[u]) = b /\ b \in BlockData
      BY <3>1
    <3>3. handle[u] = "tmp" /\ map[u] = src /\ tmp \in File /\ Len(tmp) = Len(src)
      BY <1>a, <1>d, <3>1 DEF Alone, Working
    <3>4. /\ b.at \in DOMAIN src /\ src[b.at] = b.hash /\ b.data = b.hash
          /\ b.last => 1 = Len(net[u]) /\ pos[u] = Len(need[u])
      BY <1>a, <3>2, <3>3 DEF StreamOf, InStep
    <3>5. b.data \in Block
      BY <3>2 DEF BlockData
    <3>6. /\ rpc'[u] = IF b.last THEN "removing" ELSE "receiving"
          /\ net'[u] = Tail(net[u]) /\ WriteThrough(u, b.at, b.data)
      BY <1>10, <2>3, <3>2 DEF WriteBlock, TypeOK
    <3> HIDE DEF b
    <3>7. tmp' = WriteAt(tmp, b.at, b.data) /\ DOMAIN tmp = DOMAIN src
      BY <1>b, <3>3, <3>6 DEF WriteThrough, File
    <3>8. /\ tmp' \in File /\ Len(tmp') = Len(src) /\ tmp'[b.at] = src[b.at]
          /\ \A j \in DOMAIN src : j # b.at => tmp'[j] = tmp[j]
      <4>1. b.at \in DOMAIN tmp
        BY <3>4, <3>7
      <4>2. /\ WriteAt(tmp, b.at, b.data) \in File
            /\ Len(WriteAt(tmp, b.at, b.data)) = Len(tmp)
            /\ WriteAt(tmp, b.at, b.data)[b.at] = b.data
            /\ \A j \in DOMAIN tmp :
                 j # b.at => WriteAt(tmp, b.at, b.data)[j] = tmp[j]
        BY <3>3, <3>5, <4>1, WriteInside
      <4> QED BY <3>3, <3>4, <3>7, <4>2
    <3>9. \A k \in DOMAIN net'[u] :
            k + 1 \in DOMAIN net[u] /\ net'[u][k] = net[u][k + 1]
      BY <3>1, <3>6, TailKeeps
    <3>10. /\ Len(net'[u]) = Len(net[u]) - 1
           /\ \A k \in DOMAIN net[u] : k = 1 \/ k - 1 \in DOMAIN net'[u]
           /\ DOMAIN net'[u] \subseteq Nat /\ Len(net[u]) \in Nat
      BY <3>1, <3>6
    <3>11. \A x : ComesIn(u, x) => x = b.hash \/ ComesIn(u, x)'
      <4> SUFFICES ASSUME NEW x, ComesIn(u, x), x # b.hash PROVE ComesIn(u, x)'
        OBVIOUS
      <4>1. CASE \E k \in DOMAIN net[u] : net[u][k].hash = x
        <5>1. PICK k \in DOMAIN net[u] : net[u][k].hash = x
          BY <4>1
        <5>2. k # 1 /\ k \in Nat
          BY <3>1, <5>1 DEF b
        <5>3. k - 1 \in DOMAIN net'[u] /\ (k - 1) + 1 = k
          BY <3>10, <5>2
        <5>4. net'[u][k - 1] = net[u][k]
          BY <3>9, <5>3
        <5> QED BY <5>1, <5>3, <5>4 DEF ComesIn
      <4>2. CASE \E k \in DOMAIN need[u] : k > pos[u] /\ need[u][k] = x
        BY <2>1, <4>2 DEF ComesIn
      <4> QED BY <4>1, <4>2 DEF ComesIn
    <3>12. \A j \in DOMAIN src : tmp[j] = src[j] \/ ComesIn(u, src[j])
      BY <1>a, <3>1 DEF Filling
    <3>13. \A j \in DOMAIN src :
             tmp'[j] = src[j] \/ \E x : x = src[j] /\ ComesIn(u, x)'
      <4> TAKE j \in DOMAIN src
      <4>1. CASE j = b.at
        BY <3>8, <4>1
      <4>2. CASE j # b.at
        <5>1. tmp'[j] = tmp[j] /\ src[j] # b.hash
          BY <1>c, <3>4, <3>8, <4>2
        <5> QED BY <3>11, <3>12, <5>1
      <4> QED BY <4>1, <4>2
    <3>14. Filling(u)'
      <4>1. CASE b.last
        <5>1. \A x : ~ComesIn(u, x)'
          <6>1. DOMAIN net'[u] = {}
            <7>1. Len(net[u]) = 1
              BY <3>4, <4>1
            <7>2. ASSUME NEW k \in DOMAIN net'[u] PROVE FALSE
              <8>1. k + 1 \in DOMAIN net[u] /\ k \in Nat \ {0}
                BY <3>1, <3>6, <3>9
              <8> QED BY <3>1, <7>1, <8>1
            <7> QED BY <7>2
          <6>2. \A k \in DOMAIN need[u] : ~(k > pos[u])
            <7>1. need[u] \in Seq(Block) /\ pos[u] = Len(need[u])
              BY <3>4, <4>1 DEF TypeOK
            <7> QED BY <7>1
          <6> QED BY <2>1, <6>1, <6>2 DEF ComesIn
        <5>2. \A j \in DOMAIN src : tmp'[j] = src[j]
          BY <3>13, <5>1
        <5>3. tmp' = src
          BY <1>b, <3>8, <5>2 DEF File
        <5> QED BY <1>b, <2>1, <3>3, <3>6, <3>8, <4>1, <5>3 DEF Filling
      <4>2. CASE ~b.last
        BY <2>1, <3>3, <3>6, <3>8, <3>13, <4>2 DEF Filling, ComesIn
      <4> QED BY <4>1, <4>2
    <3>15. \A k \in DOMAIN net'[u] :
             /\ net'[u][k].data = net'[u][k].hash
             /\ net'[u][k].last => k = Len(net'[u]) /\ pos[u] = Len(need[u])
      <4> TAKE k \in DOMAIN net'[u]
      <4>1. k + 1 \in DOMAIN net[u] /\ net'[u][k] = net[u][k + 1]
        BY <3>9
      <4>2. /\ net[u][k + 1].data = net[u][k + 1].hash
            /\ net[u][k + 1].last => k + 1 = Len(net[u]) /\ pos[u] = Len(need[u])
        BY <1>a, <4>1 DEF InStep
      <4> QED BY <3>10, <4>1, <4>2
    <3>16. InStep(u)'
      <4>1. rpc'[u] \in {"removing", "receiving"}
        BY <3>6
      <4> QED BY <1>a, <2>1, <3>15, <4>1 DEF InStep
    <3> QED BY <3>14, <3>16
  <2> QED BY <2>2, <2>3
<1>11. ASSUME NEW t \in Transfers, RemoveDest(t) PROVE Filling(u)' /\ InStep(u)'
  <2>1. /\ UNCHANGED <<tmp, src, spc, map, size, need, extra, pre, pos, sent, net>>
        /\ rpc[t] = "removing" /\ rpc' = [rpc EXCEPT ![t] = "renaming"]
    BY <1>11 DEF RemoveDest, mapVars, askVars, sendVars
  <2>2. CASE u # t
    <3>1. rpc'[u] = rpc[u]
      BY <2>1, <2>2 DEF TypeOK
    <3> QED BY <1>a, <2>1, <3>1, WholeFrame
  <2>3. CASE u = t
    <3>1. rpc[u] = "removing" /\ rpc'[u] = "renaming"
      BY <2>1, <2>3 DEF TypeOK
    <3>2. Filling(u)'
      BY <1>a, <2>1, <3>1 DEF Filling, Working
    <3>3. InStep(u)'
      BY <1>a, <2>1, <3>1 DEF InStep
    <3> QED BY <3>2, <3>3
  <2> QED BY <2>2, <2>3
<1>12. ASSUME NEW t \in Transfers,
              RenameTemp(t) \/ FinishReceiving(t) \/ StreamLost(t)
       PROVE  Filling(u)' /\ InStep(u)'
  <2>1. /\ UNCHANGED <<src, map, size, need, extra, pre, pos, sent>>
        /\ rpc[t] \notin {"idle", "done", "failed"}
        /\ rpc[t] \in Working \/ tmp' = tmp
        /\ \A v \in Transfers : v # t =>
             rpc'[v] = rpc[v] /\ spc'[v] = spc[v] /\ net'[v] = net[v]
        /\ rpc'[t] \in {"finishing", "done", "failed"}
        /\ net'[t] = net[t] \/ net'[t] = <<>>
    BY <1>12 DEF RenameTemp, FinishReceiving, StreamLost, fileVars, mapVars,
       askVars, sendVars, TypeOK, Working
  <2>2. CASE u # t
    <3>1. tmp' = tmp \/ rpc[u] \notin Working
      BY <1>e, <2>1, <2>2
    <3> QED BY <1>a, <2>1, <2>2, <3>1, WholeFrame
  <2>3. CASE u = t
    <3>1. Filling(u)'
      BY <2>1, <2>3 DEF Filling, Working
    <3>2. InStep(u)'
      <4>1. \A k \in DOMAIN net'[u] : k \in DOMAIN net[u] /\ net'[u] = net[u]
        BY <2>1, <2>3
      <4> QED BY <1>a, <2>1, <2>3, <4>1 DEF InStep
    <3> QED BY <3>1, <3>2
  <2> QED BY <2>2, <2>3
<1>13. ASSUME NEW t \in Transfers, RenameFails(t) PROVE Filling(u)' /\ InStep(u)'
  <2>1. /\ UNCHANGED <<tmp, src, spc, map, size, need, extra, pre, pos, sent, net>>
        /\ rpc[t] \in {"removing", "renaming"}
        /\ rpc'[t] \in {"removing", "receiving", "finishing"}
        /\ \A v \in Transfers : v # t => rpc'[v] = rpc[v]
    BY <1>13 DEF RenameFails, AttemptFails, fileVars, mapVars, askVars, sendVars, TypeOK
  <2>2. CASE u # t
    BY <1>a, <2>1, <2>2, WholeFrame
  <2>3. CASE u = t
    <3>1. Filling(u)'
      BY <1>a, <2>1, <2>3 DEF Filling, Working
    <3>2. InStep(u)'
      BY <1>a, <2>1, <2>3 DEF InStep
    <3> QED BY <3>1, <3>2
  <2> QED BY <2>2, <2>3
<1>14. ASSUME NEW c \in SourceContents, SourceEdit(c) PROVE FALSE
  BY <1>14 DEF SourceEdit, SteadySource, TypeOK
<1>15. CASE \/ \E p \in Paths, c \in LocalContents : LocalEdit(p, c)
            \/ \E p \in Paths : ServeLocalFile(p)
            \/ UNCHANGED vars
  <2>1. UNCHANGED <<tmp, src, rpc, spc, map, size, need, extra, pre, pos, sent, net>>
    BY <1>15 DEF LocalEdit, ServeLocalFile, vars, fileVars, recvVars, mapVars,
       askVars, sendVars
  <2> QED BY <1>a, <2>1, WholeFrame
<1>16. CASE Restart
  <2>1. /\ UNCHANGED <<tmp, src, map, size, need, extra, pre, pos, sent>>
        /\ rpc'[u] = IF Active(u) THEN "failed" ELSE rpc[u]
        /\ spc'[u] = IF Active(u) THEN "served" ELSE spc[u]
        /\ net'[u] = <<>>
    BY <1>16 DEF Restart, fileVars, mapVars, askVars
  <2>2. Filling(u)'
    BY <2>1 DEF Filling, Active, Working
  <2>3. InStep(u)'
    BY <1>a, <2>1 DEF InStep, Active
  <2> QED BY <2>2, <2>3
<1> QED
  BY <1>1, <1>2, <1>3, <1>4, <1>5, <1>6, <1>7, <1>8, <1>9, <1>10, <1>11, <1>12,
     <1>13, <1>14, <1>15, <1>16
  DEF Next, ReceiverStep, SenderStep, Environment

-----------------------------------------------------------------------------
(* One transfer at a time keeps what FileReceive promises.                  *)

WholeState == TypeOK /\ TransferInv /\ SingleInv
SteadyState == WholeState /\ WholeInv

\* What the theorems on a single transfer start from.
LEMMA SingleState == OneAtATime => (Spec => []WholeState)
<1>1. Init => WholeState
  BY InitType, InitTransfer, InitSingle DEF WholeState
<1>2. OneAtATime /\ WholeState /\ [Next]_vars => WholeState'
  BY TypeStep, HandleStep, StreamStep, SingleStep DEF TransferInv, WholeState
<1>3. CASE OneAtATime
  <2>1. WholeState /\ [Next]_vars => WholeState'
    BY <1>2, <1>3
  <2> QED BY <1>1, <2>1, PTL DEF Spec
<1> QED BY <1>3

\* The same when the sender's file stays as it is.
LEMMA SteadyStates == OneAtATime /\ SteadySource => (Spec => []SteadyState)
<1>1. Init => SteadyState
  BY InitType, InitTransfer, InitSingle, InitWhole DEF WholeState, SteadyState
<1>2. OneAtATime /\ SteadySource /\ SteadyState /\ [Next]_vars => SteadyState'
  BY TypeStep, HandleStep, StreamStep, SingleStep, WholeStep
  DEF TransferInv, WholeState, SteadyState
<1>3. CASE OneAtATime /\ SteadySource
  <2>1. SteadyState /\ [Next]_vars => SteadyState'
    BY <1>2, <1>3
  <2> QED BY <1>1, <2>1, PTL DEF Spec
<1> QED BY <1>3

\* Whoever goes to rename has the sender's whole file in the temporary one.
LEMMA TempIsWhole ==
  ASSUME SteadyState, NEW t \in Transfers, rpc[t] \in {"removing", "renaming"}
  PROVE  tmp = src /\ map[t] = src /\ src \in announced /\ src # Absent
<1>1. tmp = src /\ map[t] = src
  BY DEF SteadyState, WholeInv, Filling, Working
<1>2. src # <<>> /\ src # Absent
  BY ContentAssumption, BlockAssumption DEF SteadyState, WholeState, TypeOK, File
<1> QED BY <1>1, <1>2 DEF SteadyState, WholeState, TransferInv, StreamInv, StreamOf

\* The destination changes by a user's write, a removal or a rename only.
LEMMA PublishesTemp ==
  ASSUME SteadyState, [Next]_vars, localEdits' = localEdits,
         disk'[Dest] \notin {disk[Dest], Absent}
  PROVE  \E t \in Transfers : rpc[t] = "renaming" /\ disk'[Dest] = map[t]
<1>a. TypeOK /\ WholeState
  BY DEF SteadyState, WholeState
<1>1. ASSUME NEW t \in Transfers, RenameTemp(t)
      PROVE  rpc[t] = "renaming" /\ disk'[Dest] = map[t]
  BY <1>1, <1>a, TempIsWhole, DestIsPath DEF RenameTemp, TypeOK
<1>2. ASSUME NEW t \in Transfers, PreWrite(t) \/ WriteBlock(t) PROVE FALSE
  <2>1. handle[t] = "tmp"
    BY <1>2, <1>a DEF WholeState, SingleInv, Alone, PreWrite, WriteBlock
  <2> QED BY <1>2, <2>1 DEF PreWrite, WriteBlock, WriteThrough
<1>3. ASSUME NEW t \in Transfers, RemoveDest(t) PROVE FALSE
  BY <1>3, <1>a, DestIsPath DEF RemoveDest, TypeOK
<1>4. ASSUME NEW p \in Paths, NEW c \in LocalContents, LocalEdit(p, c) PROVE FALSE
  BY <1>4, <1>a DEF LocalEdit, TypeOK
<1>5. disk' # disk
  OBVIOUS
<1> QED
  BY <1>1, <1>2, <1>3, <1>4, <1>5
  DEF Next, ReceiverStep, SenderStep, Environment, Request, StreamLost,
      HandleBlockMap, SendBlockNeed, ReceiveBlock, RenameFails, FinishReceiving,
      StatSource, SendBlockMap, SendBlock, FinishSending, SourceEdit,
      ServeLocalFile, Restart, vars, fileVars

-----------------------------------------------------------------------------
(* What Synced says of a transfer that runs alone.                          *)

InPlace == disk[Dest] = src /\ src \in announced

Vain(t) == GivenUp(t) /\ need[t] = <<>>

\* While no user of the receiver writes, a transfer about to finish has put the
\* file in place, or has asked for nothing and renamed in vain.
PublishedInv ==
  localEdits = 0 =>
    /\ \A t \in Transfers : rpc[t] = "finishing" => InPlace \/ Vain(t)
    /\ status = "synced" => \/ InPlace /\ index = disk[Dest]
                            \/ \E t \in Transfers : rpc[t] = "done" /\ Vain(t)

\* A transfer on its way leaves what has finished alone.
LEMMA PublishedFrame ==
  ASSUME PublishedInv, NEW t \in Transfers, UNCHANGED <<disk, src, index, localEdits>>,
         announced \subseteq announced',
         \A u \in Transfers : u # t =>
           rpc'[u] = rpc[u] /\ need'[u] = need[u] /\ tries'[u] = tries[u],
         rpc'[t] # "finishing",
         status' = "syncing" \/ (status' = status /\ rpc[t] # "done")
  PROVE  PublishedInv'
BY DEF PublishedInv, InPlace, Vain, GivenUp

\* Every step keeps it.
LEMMA PublishedStep ==
  ASSUME SteadySource, SteadyState, PublishedInv, [Next]_vars
  PROVE  PublishedInv'
<1>a. TypeOK /\ Dest \in Paths /\ src # Absent
  BY DestIsPath, ContentAssumption, BlockAssumption
     DEF SteadyState, WholeState, TypeOK, File
<1>b. \A t \in Transfers : Active(t) =>
        status = "syncing" /\ \A u \in Transfers : rpc[u] = "finishing" => u = t
  BY DEF SteadyState, WholeState, SingleInv, Alone, Active
<1>1. ASSUME NEW t \in Transfers,
             \/ Request(t) \/ StreamLost(t) \/ HandleBlockMap(t) \/ PreWrite(t)
             \/ SendBlockNeed(t) \/ ReceiveBlock(t) \/ WriteBlock(t)
      PROVE  PublishedInv'
  <2>1. /\ UNCHANGED <<src, index, localEdits, announced>>
        /\ \A u \in Transfers : u # t =>
             rpc'[u] = rpc[u] /\ need'[u] = need[u] /\ tries'[u] = tries[u]
        /\ rpc'[t] # "finishing"
        /\ status' = "syncing" \/ (status' = status /\ rpc[t] # "done")
    BY <1>1, <1>a
    DEF Request, StreamLost, HandleBlockMap, PreWrite, SendBlockNeed, ReceiveBlock,
        WriteBlock, shownVars, askVars, sendVars, envVars, TypeOK
  <2>2. disk' = disk
    <3>1. CASE PreWrite(t) \/ WriteBlock(t)
      <4>1. handle[t] = "tmp"
        BY <3>1 DEF SteadyState, WholeState, SingleInv, Alone, PreWrite, WriteBlock
      <4> QED BY <3>1, <4>1 DEF PreWrite, WriteBlock, WriteThrough
    <3>2. CASE ~PreWrite(t) /\ ~WriteBlock(t)
      BY <1>1, <3>2 DEF Request, StreamLost, HandleBlockMap, SendBlockNeed,
         ReceiveBlock, fileVars
    <3> QED BY <3>1, <3>2
  <2> QED BY <2>1, <2>2, PublishedFrame
<1>2. ASSUME NEW t \in Transfers, SenderStep(t) PROVE PublishedInv'
  <2>1. /\ UNCHANGED <<disk, src, index, status, localEdits, rpc, need, tries>>
        /\ announced \subseteq announced'
    BY <1>2 DEF SenderStep, StatSource, SendBlockMap, SendBlock, FinishSending,
       fileVars, shownVars, recvVars, askVars, envVars
  <2> QED BY <2>1 DEF PublishedInv, InPlace, Vain, GivenUp
<1>3. ASSUME NEW t \in Transfers, RemoveDest(t) PROVE PublishedInv'
  <2>1. /\ Active(t) /\ status' = status
        /\ \A u \in Transfers : rpc'[u] = "finishing" => rpc[u] = "finishing" /\ u # t
    BY <1>3, <1>a DEF RemoveDest, Active, shownVars, TypeOK
  <2> QED BY <1>b, <2>1 DEF PublishedInv
<1>4. ASSUME NEW t \in Transfers, RenameTemp(t) PROVE PublishedInv'
  <2>1. /\ Active(t) /\ rpc[t] = "renaming" /\ disk'[Dest] = tmp
        /\ UNCHANGED <<status, src, announced>>
        /\ \A u \in Transfers : u # t => rpc'[u] = rpc[u]
    BY <1>3, <1>4, <1>a DEF RenameTemp, Active, shownVars, sendVars, TypeOK
  <2>2. InPlace'
    BY <2>1, TempIsWhole DEF InPlace
  <2> QED BY <1>b, <2>1, <2>2 DEF PublishedInv
<1>5. ASSUME NEW t \in Transfers, RenameFails(t) PROVE PublishedInv'
  <2>1. /\ Active(t) /\ status' = status /\ need' = need
        /\ \A u \in Transfers : u # t => rpc'[u] = rpc[u]
        /\ rpc'[t] = "finishing" => need[t] = <<>> /\ tries'[t] >= RenameAttempts
    BY <1>5, <1>a, BoundAssumption
       DEF RenameFails, AttemptFails, Active, shownVars, askVars, TypeOK
  <2> QED BY <1>b, <2>1 DEF PublishedInv, Vain, GivenUp
<1>6. ASSUME NEW t \in Transfers, FinishReceiving(t) PROVE PublishedInv'
  <2>1. /\ Active(t) /\ rpc[t] = "finishing" /\ rpc'[t] = "done"
        /\ UNCHANGED <<disk, src, announced, need, tries, localEdits>>
        /\ \A u \in Transfers : u # t => rpc'[u] = rpc[u]
        /\ disk[Dest] # Absent => index' = disk[Dest]
    BY <1>6, <1>a DEF FinishReceiving, Active, fileVars, askVars, envVars, TypeOK
  <2>2. localEdits = 0 =>
          \/ InPlace' /\ index' = disk'[Dest]
          \/ rpc'[t] = "done" /\ Vain(t)'
    BY <1>a, <2>1 DEF PublishedInv, InPlace, Vain, GivenUp
  <2> QED BY <1>b, <2>1, <2>2 DEF PublishedInv
<1>7. ASSUME NEW p \in Paths, NEW c \in LocalContents, LocalEdit(p, c)
      PROVE  PublishedInv'
  BY <1>7, <1>a DEF LocalEdit, PublishedInv, TypeOK
<1>8. ASSUME NEW c \in SourceContents, SourceEdit(c) PROVE FALSE
  BY <1>8, <1>a DEF SourceEdit, SteadySource, TypeOK
<1>9. CASE Restart
  <2>1. status' = "unknown" /\ \A u \in Transfers : rpc'[u] # "finishing"
    BY <1>9 DEF Restart, Active
  <2> QED BY <2>1 DEF PublishedInv
<1>10. CASE (\E p \in Paths : ServeLocalFile(p)) \/ UNCHANGED vars
  <2>1. UNCHANGED <<disk, src, index, status, localEdits, rpc, need, tries, announced>>
    BY <1>10 DEF ServeLocalFile, vars, fileVars, shownVars, recvVars, askVars,
       sendVars, envVars
  <2> QED BY <2>1 DEF PublishedInv, InPlace, Vain, GivenUp
<1> QED
  BY <1>1, <1>2, <1>3, <1>4, <1>5, <1>6, <1>7, <1>8, <1>9, <1>10
  DEF Next, ReceiverStep, Environment

-----------------------------------------------------------------------------
(* The refinement of FileReceive. *)

InTransfer == \E t \in Transfers : Active(t)

\* A step that leaves the file, its copies and the counters alone begins or
\* ends a transfer, or does nothing that concerns FileReceive.
LEMMA QuietStep ==
  ASSUME UNCHANGED <<disk[Dest], versions, localEdits, srcEdits>>
  PROVE  [Receives!Next]_(Receives!vars)
<1>1. InTransfer \in BOOLEAN /\ InTransfer' \in BOOLEAN
  BY DEF InTransfer
<1>2. CASE InTransfer' = InTransfer
  BY <1>2 DEF Receives!vars, InTransfer
<1>3. CASE ~InTransfer /\ InTransfer'
  BY <1>1, <1>3 DEF Receives!Next, Receives!Ask, InTransfer
<1>4. CASE InTransfer /\ ~InTransfer'
  BY <1>1, <1>4 DEF Receives!Next, Receives!End, InTransfer
<1> QED
  BY <1>1, <1>2, <1>3, <1>4

\* Saving a version keeps a copy of what there is.
LEMMA SaveStep ==
  ASSUME TypeOK, NEW t \in Transfers, HandleBlockMap(t)
  PROVE  [Receives!Next]_(Receives!vars)
<1>1. /\ rpc[t] = "requested" /\ rpc'[t] = "preparing"
      /\ UNCHANGED <<disk, localEdits, srcEdits>>
      /\ \/ versions' = versions
         \/ disk[Dest] # Absent /\ versions' = versions \cup {disk[Dest]}
  BY DEF HandleBlockMap, SavedVersions, envVars, TypeOK
<1>2. CASE versions' = versions
  BY <1>1, <1>2, QuietStep
<1>3. CASE disk[Dest] # Absent /\ versions' = versions \cup {disk[Dest]}
  <2>1. InTransfer /\ InTransfer'
    BY <1>1 DEF InTransfer, Active
  <2> QED
    BY <1>1, <1>3, <2>1 DEF Receives!Next, Receives!Keep, InTransfer
<1> QED BY <1>1, <1>2, <1>3

\* The destination goes only when a copy is kept or none is owed (Saved).
LEMMA VacateStep ==
  ASSUME WholeState, NEW t \in Transfers, RemoveDest(t)
  PROVE  [Receives!Next]_(Receives!vars)
<1>1. /\ rpc[t] = "removing" /\ rpc'[t] = "renaming" /\ disk'[Dest] = Absent
      /\ UNCHANGED <<versions, localEdits, srcEdits>>
  BY DestIsPath DEF RemoveDest, envVars, WholeState, TypeOK
<1>2. CASE disk[Dest] = Absent
  BY <1>1, <1>2, QuietStep
<1>3. CASE disk[Dest] # Absent
  <2>1. \/ ~VersioningEnabled \/ localEdits > 0
        \/ disk[Dest] \in versions \cup SourceContents
    BY <1>1, <1>3 DEF WholeState, SingleInv, Saved, Working, TypeOK
  <2>2. InTransfer /\ InTransfer'
    BY <1>1 DEF InTransfer, Active
  <2> QED
    BY <1>1, <2>1, <2>2 DEF Receives!Next, Receives!Vacate, InTransfer
<1> QED BY <1>2, <1>3

\* What is put in place is the file the sender has.
LEMMA PublishStep ==
  ASSUME SteadyState, NEW t \in Transfers, RenameTemp(t)
  PROVE  [Receives!Next]_(Receives!vars)
<1>1. /\ rpc[t] = "renaming" /\ rpc'[t] = "finishing" /\ disk'[Dest] = tmp
      /\ UNCHANGED <<versions, localEdits, srcEdits>>
  BY DestIsPath DEF RenameTemp, envVars, SteadyState, WholeState, TypeOK
<1>2. disk[Dest] = Absent \/ localEdits > 0
  BY <1>1 DEF SteadyState, WholeState, SingleInv, Alone
<1>3. tmp \in SourceContents
  BY <1>1 DEF SteadyState, WholeState, TypeOK, WholeInv, Filling
<1>4. InTransfer /\ InTransfer'
  BY <1>1 DEF InTransfer, Active
<1> QED
  BY <1>1, <1>2, <1>3, <1>4 DEF Receives!Next, Receives!Publish, InTransfer

\* A write before the rename goes to the temporary file.
LEMMA TempStep ==
  ASSUME WholeState, NEW t \in Transfers, PreWrite(t) \/ WriteBlock(t)
  PROVE  [Receives!Next]_(Receives!vars)
<1>1. rpc[t] \in {"preparing", "writing"} /\ handle[t] = "tmp"
  BY DEF WholeState, SingleInv, Alone, PreWrite, WriteBlock
<1>2. disk' = disk
  BY <1>1 DEF PreWrite, WriteBlock, WriteThrough
<1>3. UNCHANGED <<versions, localEdits, srcEdits>>
  BY DEF PreWrite, WriteBlock, envVars
<1> QED BY <1>2, <1>3, QuietStep

\* A user of the receiver writes the file, or another one.
LEMMA UserStep ==
  ASSUME WholeState, NEW p \in Paths, NEW c \in LocalContents, LocalEdit(p, c)
  PROVE  [Receives!Next]_(Receives!vars)
<1>1. /\ disk'[Dest] \in {c, disk[Dest]} /\ localEdits' > 0
      /\ UNCHANGED <<versions, rpc, srcEdits>>
  BY DestIsPath DEF LocalEdit, recvVars, WholeState, TypeOK
<1>2. Receives!UserWrites(c)
  BY <1>1 DEF Receives!UserWrites, Active
<1> QED
  BY <1>2 DEF Receives!Next

\* The receiver starts with a file of its own or none.
LEMMA InitRefines == Init => Receives!Init
<1> SUFFICES ASSUME Init PROVE Receives!Init
  OBVIOUS
<1>1. disk[Dest] \in LocalContents \cup {Absent}
  BY DestIsPath DEF Init
<1> QED BY <1>1 DEF Init, Receives!Init, Active

\* Every step is one FileReceive allows, or none of its concern.
LEMMA StepRefines ==
  SteadySource /\ SteadyState /\ [Next]_vars => [Receives!Next]_(Receives!vars)
<1> SUFFICES ASSUME SteadySource, SteadyState, [Next]_vars
             PROVE  [Receives!Next]_(Receives!vars)
  OBVIOUS
<1>a. WholeState /\ TypeOK
  BY DEF SteadyState, WholeState
<1>1. ASSUME NEW t \in Transfers, HandleBlockMap(t)
      PROVE  [Receives!Next]_(Receives!vars)
  BY <1>1, <1>a, SaveStep
<1>2. ASSUME NEW t \in Transfers, RemoveDest(t)
      PROVE  [Receives!Next]_(Receives!vars)
  BY <1>2, <1>a, VacateStep
<1>3. ASSUME NEW t \in Transfers, RenameTemp(t)
      PROVE  [Receives!Next]_(Receives!vars)
  BY <1>3, PublishStep
<1>4. ASSUME NEW t \in Transfers, PreWrite(t) \/ WriteBlock(t)
      PROVE  [Receives!Next]_(Receives!vars)
  BY <1>4, <1>a, TempStep
<1>5. CASE \E p \in Paths, c \in LocalContents : LocalEdit(p, c)
  BY <1>5, <1>a, UserStep
<1>6. CASE \E c \in SourceContents : SourceEdit(c)
  BY <1>6, <1>a DEF SourceEdit, SteadySource, TypeOK
<1>7. ASSUME NEW t \in Transfers,
             \/ Request(t) \/ SendBlockNeed(t) \/ ReceiveBlock(t)
             \/ RenameFails(t) \/ FinishReceiving(t) \/ StreamLost(t)
             \/ SenderStep(t)
      PROVE  [Receives!Next]_(Receives!vars)
  <2>1. UNCHANGED <<disk, versions, localEdits, srcEdits>>
    BY <1>7 DEF Request, SendBlockNeed, ReceiveBlock, RenameFails,
       FinishReceiving, StreamLost, SenderStep, StatSource, SendBlockMap,
       SendBlock, FinishSending, fileVars, envVars
  <2> QED BY <2>1, QuietStep
<1>8. CASE (\E p \in Paths : ServeLocalFile(p)) \/ Restart \/ UNCHANGED vars
  <2>1. UNCHANGED <<disk, versions, localEdits, srcEdits>>
    BY <1>8 DEF ServeLocalFile, Restart, vars, fileVars, envVars
  <2> QED BY <2>1, QuietStep
<1> QED
  BY <1>1, <1>2, <1>3, <1>4, <1>5, <1>6, <1>7, <1>8
  DEF Next, ReceiverStep, Environment

-----------------------------------------------------------------------------
(* The theorems. *)

\* Every variable keeps its type and every transfer works from the BlockMap
\* announced to it, whatever the sets of transfers, blocks and contents.
THEOREM TransfersWellFormed == Spec => [](TypeOK /\ TransferInv)
<1>1. Init => TypeOK /\ TransferInv
  BY InitType, InitTransfer
<1>2. TypeOK /\ TransferInv /\ [Next]_vars => (TypeOK /\ TransferInv)'
  BY TypeStep, HandleStep, StreamStep DEF TransferInv
<1> QED BY <1>1, <1>2, PTL DEF Spec

\* With the block check on, neither the temporary file nor the destination
\* ever holds a block in a place where no BlockMap announced it and no local
\* user wrote it: for any number of overlapping transfers, edits on both
\* sides, lost streams and restarts, and any stale content of the store.
THEOREM ReceivedBlocksBelong == Spec => []BlockProvenance
<1>1. Init => TypeOK /\ TransferInv /\ BlockProvenance
  BY InitType, InitTransfer, InitProvenance
<1>2. TypeOK /\ TransferInv /\ BlockProvenance /\ [Next]_vars
      => (TypeOK /\ TransferInv /\ BlockProvenance)'
  BY TypeStep, HandleStep, StreamStep, ProvenanceStep DEF TransferInv
<1> QED BY <1>1, <1>2, PTL DEF Spec

\* When transfers of a path do not overlap and nobody edits the file, one shown
\* as Synced is in place as the sender has it, and in the index: wherever
\* streams break, the receiver restarts and attempts to rename meet a locked
\* file.  The exception is the transfer of requestFileViaStream that needed no
\* block: it says Synced after its last attempt has failed, too.
THEOREM SyncedFilesArePublished ==
  OneAtATime /\ SteadySource => (Spec => []SyncedIsPublished)
<1>1. Init => PublishedInv
  BY DEF Init, PublishedInv
<1>2. SteadySource /\ SteadyState /\ PublishedInv /\ [Next]_vars => PublishedInv'
  BY PublishedStep
<1>3. PublishedInv => SyncedIsPublished
  BY DEF PublishedInv, SyncedIsPublished, InPlace, Vain
<1>4. CASE OneAtATime /\ SteadySource
  <2>1. SteadyState /\ PublishedInv /\ [Next]_vars => PublishedInv'
    BY <1>2, <1>4
  <2> QED BY <1>1, <1>3, <1>4, <2>1, SteadyStates, PTL DEF Spec
<1> QED BY <1>4

\* When transfers of a path do not overlap and no user of the receiver writes,
\* a file is removed for the rename only if the version manager has it or a
\* peer announced it: prepareFileForCDC saves what is there, and nothing puts
\* another file there before atomicRenameWithRetry.
THEOREM OverwrittenAreVersioned == OneAtATime => (Spec => OverwrittenIsVersioned)
<1>1. WholeState /\ [Next]_vars =>
        [\A t \in Transfers :
           /\ VersioningEnabled /\ localEdits = 0
           /\ rpc[t] = "removing" /\ rpc'[t] = "renaming"
           => disk[Dest] \in {Absent} \cup versions \cup announced]_vars
  BY DEF WholeState, SingleInv, Saved, Working
<1> QED BY <1>1, SingleState, PTL DEF Spec, OverwrittenIsVersioned

\* When transfers of a path do not overlap, and the sender's file is not
\* edited and repeats no block, the rename puts the announced file in place,
\* complete: whatever the block store claims to have, however the receiver's
\* users edit, and wherever streams break or the receiver restarts.
THEOREM WholeFilesArePublished ==
  OneAtATime /\ SteadySource => (Spec => WholePublish)
<1>1. SteadyState /\ [Next]_vars =>
        [srcEdits = 0 /\ localEdits' = localEdits
         /\ disk'[Dest] \notin {disk[Dest], Absent}
         => \E t \in Transfers : rpc[t] = "renaming" /\ disk'[Dest] = map[t]]_vars
  BY PublishesTemp
<1> QED BY <1>1, SteadyStates, PTL DEF Spec, WholePublish

\* Under the same conditions the block transfer implements FileReceive: a file
\* goes only when a copy of it is kept, and what replaces it is a whole file of
\* the sender.
THEOREM BlocksReceiveFile ==
  OneAtATime /\ SteadySource => (Spec => ReceivesFile)
<1>1. SteadySource /\ SteadyState /\ [Next]_vars => [Receives!Next]_(Receives!vars)
  BY StepRefines
<1>2. OneAtATime /\ SteadySource
      => (Spec => Receives!Init /\ [][Receives!Next]_(Receives!vars))
  <2> SUFFICES ASSUME OneAtATime /\ SteadySource
               PROVE  Spec => Receives!Init /\ [][Receives!Next]_(Receives!vars)
    OBVIOUS
  <2>1. SteadyState /\ [Next]_vars => [Receives!Next]_(Receives!vars)
    BY <1>1
  <2>2. Spec => []SteadyState
    BY SteadyStates
  <2> QED
    BY <2>1, <2>2, InitRefines, PTL DEF Spec
<1> QED
  BY <1>2 DEF ReceivesFile, Receives!Spec
=============================================================================
