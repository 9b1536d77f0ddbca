# Stashbird in TLA+

Stashbird synchronises folders between devices of a Tailscale network, straight
from device to device, and serves a web interface with a Markdown editor.  This
directory holds a TLA+ model of its core, TLC configurations that check it and
proofs about it.  All paths below are relative to the repository.  There are no
tests in the repository; the documents the properties come from are README.md
and the comments in the code.

| file | what it is |
|------|------------|
| `CdcTransfer.tla` | block-level transfer of one file, both ends, block by block |
| `ChunkedTransfer.tla` | the other ways a file travels: whole, or in chunks |
| `FileReceive.tla` | what both promise to the receiver, in the abstract |
| `FolderSync.tla` | how a file travels: scan, announce, decide, receive, delete, reconnect, restart |
| `PeerConnections.tla` | how devices find a session with each other and keep it |
| `FolderRegistry.tla` | which folders a device knows, saves, watches and tells others of |
| `VersionManager.tla` | the archive of replaced files: names, cleaning, restoring |
| `Tailscale.tla` | the connection to the tailnet and the requests that change it |
| `NoteIndex.tla` | links, backlinks and graph of the notes, and the requests that index them |
| `*Proofs.tla` | theorems about every module above but FileReceive, checked by TLAPS |
| `MC*.tla`, `*.cfg` | instances for TLC; the table below names each |
| `PROJECT.json` | components, runs, mutants, the map to the source, hazards, theorems |

| run (`.cfg`) | module | distinct question |
|---|---|---|
| CdcAny | MCCdcTransfer | overlapping transfers of a path: whose blocks end up where |
| CdcSingle | MCCdcTransfer | one transfer at a time: is the whole file published, does it end |
| Chunks | MCChunkedTransfer | the same for whole files and chunks, with damage and repeats |
| FolderTurns | MCFolderSync | agreement on the latest version, strategy `newest` |
| FolderRename | MCFolderSync | agreement and copies, strategy `rename` |
| FolderRestarts | MCFolderSync | restarts, new watchers and locked files at any point |
| FolderDeletes | MCFolderSync | deletions and their echoes on three devices |
| PeerLinks | MCPeerConnections | one served session per pair, full indexes arrive |
| Registry | MCFolderRegistry | saves, watchers and announcements of folders |
| Versions | MCVersionManager | which versions stay, what restoring restores |
| Tailnet | MCTailscale | servers, status and saved mode under overlapping requests |
| Notes | MCNoteIndex | backlinks and graph under overlapping requests |

Run `tlc -config CdcAny.cfg MCCdcTransfer` (and so on) and `tlapm CdcTransferProofs.tla`,
and the same for the other seven modules of proofs.

## The system

**Server** (`network/server.go`, `connection.go`, `peers.go`).  `SyncServer`
holds the map of peer connections, the map of folder watchers, the progress
counters and the callbacks of the interface, all under one RWMutex `ss.mu` or as
atomics.  `connectToPeer` dials each configured peer for ever, `handleConnection`
serves whoever dials in; both exchange a Hello, register the connection, announce
the folders, send the full index and then accept streams.  Every message after the
Hello has a yamux stream and a goroutine of its own, so messages of one peer are
handled concurrently and in any order.

**Folder watcher** (`sync/watcher.go`, `network/watchers.go`).  Per folder a
goroutine walks the directory every `ScanIntervalSec`, compares what it found with
its index (path -> size, time, hash), replaces the index and hands the changes to
`onChangesDetected`, which sends one IndexUpdate or DeleteFile message per change
and connected peer.  `RefreshWatchers` replaces all watchers by new ones.

**Index exchange** (`network/handlers.go`, `sync/conflict.go`).
`handleIndexMessage` compares each announced entry with a copy of the local index:
equal hashes are done; a stale index is corrected from the disk; otherwise
`DetectConflict` (times within 60 s) and the strategy (`rename`, `newest`,
`oldest`), or simply the later time, decide whether to request the file.

**Block transfer** (`network/transfer.go`, `cdc.go`, `handlers.go`, `wire.go`).
Per requested file a stream: Request, BlockMap (chunk hashes), BlockNeed, BlockData.
The receiver assembles `.syncthing.<name>.tmp`, partly from its own disk with the
help of the **block store** (`sync/blockstore.go`, BoltDB: hash -> place), saves a
version (`sync/versioning.go`), and `atomicRenameWithRetry` puts the file in place:
`os.Remove`, then `os.Rename`.  Then `updateWatcherIndex` tells the watcher.

**Other transfers** (`network/handlers.go`, `transfer.go`).  A file under 64 KiB goes
whole, in one Data message; a large one, when the sender has no block store, or when
a relay is in between, in Chunk messages that are appended to the temporary file.

**Configuration and folder registry** (`config/config.go`, `gui/handlers_*.go`,
`network/watchers.go`).  Users, announcements and indexes of peers add folders;
users remove or change them.  Each changes the list under `cfg.mu`, saves it to
`config.json`, calls `RefreshWatchers` and sends, with nothing around these steps.

**Tailscale manager** (`network/tailscale.go`, `gui/handlers_tailscale.go`).  It joins
the tailnet through the installed `tailscale` command (mode `cli`) or an embedded
`tsnet` server, under one mutex `tm.mu` that `Connect` keeps while it waits.

**Note index** (`gui/noteindex.go`, `gui/handlers_editor.go`).  Maps of links and
backlinks in memory.  Creating and writing a note index it after the file is
written, renaming and deleting index nothing; a graph request first walks the folder
and indexes every note.

**Further parts**: the chunker (`sync/cdc.go`), integrity helpers, file status
tracker, Markdown (`gui/markdown.go`), the rest of the web server (`gui/*.go`) and its
frontend (`gui/static/js`).

### Inventory

| component | state | what makes it correct | hard because of |
|---|---|---|---|
| block transfer | temp file, destination, block store, versions, stream | the published file is the announced one; no foreign bytes; every request ends | overlapping transfers of a path, edits on both sides, stale store, lost streams |
| watcher | index, running scan | no announcement lost, no deletion announced that nobody made | scan, receive and index update interleave without a common lock |
| index exchange | none of its own: copies of the index | devices agree on the latest version; it is not given up for an older one | decisions on stale copies, times as versions, overlapping transfers |
| deletion | none | a deletion reaches everybody, a file nobody deleted survives | echoes, the gap between remove and rename |
| connections | `ss.peers`, `alive`, sessions | one live session per peer, registered on both sides | simultaneous dialling, check-then-act on `ss.peers` |
| progress counters, status | `pendingFiles`, `completedFiles`, `isSyncing`, status map | the interface reaches idle when nothing is under way | counters without a common lock, reset by TriggerSync |
| whole and chunked transfer | temp file, destination, stream | as block transfer, by simpler means | failed chunks, exact multiples of the chunk size, leftovers of earlier attempts |
| version manager | files under `.stversions` | a version that should stay stays, as it was saved; the limit holds; restoring restores | one-second names, local time read as UTC, overlapping cleanings |
| folder registry | configuration, its file, watchers | the file and the watchers follow the configuration; one folder per label; SyncDelete is nobody's but the user's | check-then-act, concurrent saves, messages in any order |
| Tailscale manager | mode, connected, address, tsnet server, saved mode | no server escapes; the status is true; the saved mode is the one in use | answers written after the lock was given up, failed commands |
| note index | link maps | links and backlinks agree, the graph is the notes' | concurrent indexing, files that change beside it |
| chunker | none (pure) | chunks cover the file, and its bytes alone decide where it is cut | nothing but a chunk carried over the end of a buffer |

## Module CdcTransfer

The receiving `requestFileViaStream` and the sending `handleRequestMessage` of each
transfer `t`, with everything they share: `disk`, `tmp` (one temporary file per
path), `store`, `versions`, the watcher's `index` and the shown `status`.  A file
is a sequence of blocks, positions stand for offsets, a block for its bytes and
its hash; `Zero` is a hole.

| action | code |
|---|---|
| `Request` | the request goes out on a new stream |
| `StatSource`, `SendBlockMap` | sender: `os.Stat`, later `ChunkFile` and the BlockMap: two reads of a file that may change |
| `HandleBlockMap` | `processBlockMap`, `SaveVersion`, open and truncate of the temporary file |
| `PreWrite` | one round of the loop of `prepareFileForCDC` |
| `SendBlockNeed` | close, BlockNeed; with nothing needed straight to the rename |
| `SendBlock`, `FinishSending` | sender's loop, one needed hash per step |
| `ReceiveBlock`, `WriteBlock` | `processBlockData`: check and open; write, `PutBlock`, close |
| `RemoveDest`, `RenameTemp` | `atomicRenameWithRetry`: an attempt that succeeds |
| `RenameFails` | one that meets a locked file, or no temporary file; after the last one the receiver waits for more blocks (cdc.go:279), or says Synced if it needed none (transfer.go:100) |
| `FinishReceiving` | `updateWatcherIndex`, status, return |
| `StreamLost`, `Restart` | both ends return; goroutines and descriptors go, files stay |
| `SourceEdit`, `LocalEdit`, `ServeLocalFile` | users; `StoreFileChunks` for another peer |

A descriptor follows its file through renames (`handle`): a transfer that writes
while another renames writes into the published file.  The write through a
descriptor is separate from its opening for that reason.

Abstracted: directories, the choice between CDC and other ways to send, the
content of messages other than hashes, offsets and the last flag, failures of
`OpenFile` and `WriteAt`, an attempt whose `os.Remove` fails and whose `os.Rename`
succeeds all the same, the sender's log and counters.

### What is checked

* `TypeOK`, `BlockProvenance` (run CdcAny): two overlapping transfers, edits on both
  sides, any stale store: no position of the temporary or published file holds a
  block that no BlockMap announced there and no local user wrote there.
* `WholePublish`, `OverwrittenIsVersioned`, `SyncedIsPublished`, `TransferEnds` (run
  CdcSingle): two requests of the path, one after the other, with an edit on either
  side, locked files, a lost stream and a restart.  While the sender's file stays as
  it is, what is published is the announced file, and a file shown Synced is in place
  and in the index; what a transfer replaces is versioned or came from a peer; each
  request comes to an end.
* `ReceivesFile` (run CdcSingle): it implements `FileReceive` (see below).

What does not hold, and is therefore named in the properties or kept out of the run:

* Overlapping transfers of a path share `.syncthing.<name>.tmp`, and one may publish
  what the other has written half (README.md:43 calls the write atomic; the
  restriction of CdcSingle is `MaxParallel` = 1).
* A chunk that occurs twice in a file has one entry in `chunkMap` (handlers.go:373)
  and leaves a hole: no file of the run repeats a block.
* An edit of the sender's file makes the sender skip a block that is no longer there,
  or the receiver drop one that is another now; no block is then the last one and
  the receiver waits for ever (`Unserved` in `TransferEnds`).
* When all attempts to rename have failed (`GivenUp`), the receiver of blocks waits for
  more of them for ever, and the transfer that needed none shows the file as Synced
  although it was removed (the exceptions of `TransferEnds` and `SyncedIsPublished`).

Bounds: files of up to three blocks over three block values show holes before,
between and after blocks, reordering and shortening; two transfers are the least
that can overlap, and the store, the local files and one more path give a block
three wrong places to come from; one edit of each kind and one restart can fall
between any two steps, and any attempt to rename may meet a locked file; of two
requests the second finds what the first has left.  `RenameAttempts` is 2 where the code has 5: the attempts
do not differ but for the wait between them.

Fairness: weak fairness of each end of each transfer, since goroutines keep being
scheduled and yamux keeps delivering while the session lives.  Lost streams,
edits and restarts have none.

## Module FolderSync

One file, two or three devices.  The sender's file arrives in the temporary file in
one step (its detail is CdcTransfer's), which is followed by the steps of the rename
and of the index update, which scans and other transfers can fall between.  Messages
form a bag; `job[h]` is a goroutine that handles an index message.  `tmp` is the one
temporary file of the path on each device: jobs that overlap write the same, and what
the first of them renames is gone for the others.

| action | code |
|---|---|
| `Walk`, `CompareIndex`, `ReplaceIndex`, `Notify` | `scan` and `onChangesDetected`; the locks taken in between are separate |
| `RefreshWatchers`, `StopWatcher` | new watchers with empty indexes; an old one may scan once more, because its `select` chooses at random |
| `TakeIndex`, `AlreadyHave`, `Decide` | `handleIndexMessage` up to the request, on the copy of the index it took |
| `Fetch` | the transfer, whoever else is receiving the path |
| `RemoveDest`, `RenameTemp` | `atomicRenameWithRetry` |
| `FileLocked`, `TempGone`, `Retry` | an attempt that fails; after the last one the request waits for the end of its session, or goes on if it needed no block |
| `HashDest`, `UpdateFile` | `updateWatcherIndex` |
| `HandleDelete` | `handleDeleteMessage` |
| `Connect`, `SendFullIndex`, `TriggerSync`, `Disconnect`, `Restart` | sessions, full indexes at both ends, loss of all that was under way |
| `Edit`, `Delete` | users |

Time: each write of a file moves one clock and stamps the file; `ConflictWindow`
stands for the 60 seconds.  A received file gets the time of its arrival, as in
the code.  `MaxBacklog` is yamux's accept backlog (512): `Open` blocks when it is
full.  It also bounds the bag.  The devices' clocks agree: a skew between them is not
modelled.

Two history variables name what the code does not keep.  `spoiled` are the devices
where two transfers overlapped or a rename was given up: the later of two transfers
removes what the earlier has published and has nothing to put there (wire.go:197-198).
`blind` says that a device with an empty index, after a restart or a new watcher, took
another version for news while it had the latest one.

`PatientUsers` lets users touch the file only when nothing is under way and all
indexes are up to date.  The code promises agreement only then: under concurrent
edits devices may end up different for good, because an edit made between the
rename and `updateWatcherIndex` is taken for the received version and never
announced, because two devices can accept each other's version at once, and
because under `newest` a received file looks newer than the sender's next edit.

Abstracted: other files (the code relates no two), directories, the fallback of
the walk, files that arrive half or mixed (CdcTransfer has those).

### What is checked

* `LatestSpreads`, `LatestKept` (FolderTurns, `newest`): with users taking turns, two
  messages handled at once, and a session lost or a manual synchronisation at any
  point, every device ends up with the latest version for good, and no device gives
  it up in between but to rename another copy of it into place.  Where two transfers to
  a device overlapped, neither is promised; under `newest` two devices have such
  transfers only once a new session or a manual synchronisation has announced a
  version again (`MayOverlap`), and the run shows that they have none before.
* `LatestSpreads`, `ReplacedIsCopied` (FolderRename, `rename`, the default): all
  writes inside the conflict window, two messages handled at once, transfers that
  overlap and one locked file.
* `TypeOK`, `FileSurvives`, `LatestReturns` (FolderRestarts): a file both devices have
  is edited on one of them, and one device is stopped or its watchers replaced
  anywhere, also between the removal of the old version and the rename of the new one,
  where a locked file can make the rename fail: without SyncDelete the last copy never
  goes, and the devices have the latest version again and again.  `<>[]` does not hold:
  two devices whose scans always hit that gap can send each other the same version
  for ever.
* `LatestSpreads` (FolderDeletes): three devices with SyncDelete: a deletion, also
  one made twice, reaches all of them and its echoes end.

`FileSurvives` is stated without SyncDelete because it fails with it: a scan between
`os.Remove` and `os.Rename` (wire.go:197, watcher.go:354) announces a deletion, the
peer carries it out, and its echo removes the file here too.

Bounds: two devices suffice for everything but the echo of deletions, which
has three.  Two jobs are the least that overlap (FolderTurns, FolderRename; in the other
two runs one message is handled at a time).  Two edits give a version that is
overtaken; FolderRestarts has one edit of a file both devices have, so there is an old
version and a new one, and its user is on one device, since the other is its mirror
image.  `MaxFresh` counts restarts and replacements of watchers, `MaxResyncs` lost
sessions and manual synchronisations, `MaxLocks` attempts that meet a locked file: one
of a kind can come at any point.  With `RenameAttempts` 1 one locked file is enough to
give a rename up, with 2 an attempt is made again.  The clock stops at `MaxClock` only
in runs where no decision depends on it, or where it has told the edit from what
came before.

Fairness: weak fairness of each watcher's scan (the ticker ticks), of each handler
goroutine, of taking messages and of dialling and greeting, all of which the
program does in endless loops; strong fairness of `StopWatcher`, since Go's `select`
chooses at random among ready channels and so does not miss the stop channel for
ever.  Users, restarts and lost sessions have none.

Also seen in this model, without a run of their own: right after
`RefreshWatchers` the index is empty, a file not in the index counts as missing,
and a peer's older version replaces the newer local one; a file received between a
scan's walk and its comparison is reported as deleted; a deletion made while no
peer is connected is never announced, so the file comes back on reconnection; under
`rename` two edits by the same user within a minute leave a conflict copy elsewhere
though only one side edited.

Under `rename` two transfers overlap with nobody's help: a device announces a version
it received from a scan that had seen the older one; the other accepts it, and its own
scan meets the gap between remove and rename; when the same version is announced
again there are two transfers of it, the second removes what the first has published,
and its rename finds no temporary file.  The file is then gone on that device, for good
if no scan elsewhere has a change to announce.

## Module PeerConnections

Every device dials every other one for ever and serves whoever dials it, so two
sessions of a pair may be set up at once.  `ends` gives each session its dialler
and acceptor, `open` says at which ends it is not closed yet, `stage` how far the
goroutine of each end is, `peers` is `ss.peers`, where a session number stands for
an entry with `alive` set and `Dead` for one without.

| action | code |
|---|---|
| `Dial`, `ReadReply` | `connectToPeer`: TCP, yamux, Hello; the reply and `session.IsClosed()` |
| `ReadHello`, `CheckDuplicate` | `handleConnection`: Hello answered; a live entry is compared by device ID |
| `Register` | both: `ss.peers[id] = pc` under the write lock, then the index starts |
| `FinishIndex` | the rest of an index larger than a stream's window, `ss.mu` held for reading |
| `Deliver`, `Leave` | accept loop; its end marks the entry dead and the dialler sleeps |
| `Wake`, `StopWaiting` | after the delay: dial, or wait while an inbound connection is alive |
| `DisconnectPeer` | the entry goes, its session is closed, the dialling loop goes on |
| `Notice`, `OpenTimeout`, `Break` | keep-alive and close; nobody accepts a stream for 60 s; the network is lost |

The steps in which a goroutine reads only what no other one writes are joined:
the reply to Hello and the look at `IsClosed`, the registration and the start of
the index.  The look-up of the earlier connection and the registration are
separate, as in the code, where no lock spans them.

`large` are the devices whose index does not fit into a stream's window (256 KiB
until the other end reads): they block in `sendFullIndex`, before their accept
loop, until the other end accepts.

### What is checked

* `EntryIsServed` (PeerLinks): an entry shown alive belongs to the peer it is listed
  under, and a goroutine serves its session and will mark it dead.
* `IndexesArrive` (PeerLinks): in the end the two devices keep a session that both
  serve, and each has the other's full index.  Not when both indexes are large:
  then both ends wait for the other's accept loop, the stream times out after 60 s,
  they dial again, and so on for ever.

Also seen in this model, without a run of its own: the device with the smaller ID
may register its own session over the accepted one just before the other device
turns it down.  The entry dies with it, the surviving session has none, and every
new attempt is turned down: this device announces nothing any more until the
session is lost (connection.go:383, against the comment at 152-154).

Bounds: two devices, since no step concerns three; one session in each direction,
so a redial waits until the acceptor has left the session before; one loss of the
network and one removal at any point.

Fairness: weak fairness of the dialling loops, of each end's goroutine and of the
detection of lost sessions; strong fairness of `Register`, because a writer that
waits for Go's RWMutex keeps later readers out and so is not overtaken for ever.

Abstracted: folder announcements, pings, a DeviceID that differs from the
configured one, a refused TCP connection (it only delays), `ConnectToNewPeer`.

## Modules FileReceive and ChunkedTransfer

`FileReceive` is the promise of a transfer with all mechanism left out: the file at
its path is vacated only when a copy is kept (`Keep`, `Vacate`), and what is
published is a whole file of the sender (`Publish`).  Users of the receiver
(`UserWrites`) and faults of the sender or of the way (`Spoil`) excuse it, and
after a fault still only blocks of the sender, and `Holes`, are published (holes in
files received by blocks, none in the others).  `CdcTransfer` (run
CdcSingle) and `ChunkedTransfer` (run Chunks) implement it: the temporary file, the
stream, both ends' places and the retries are hidden, `file` is the destination,
`kept` the versions, `busy` whether a request is under way.

`ChunkedTransfer` has the two ways without block maps.

| action | code |
|---|---|
| `Request` | the request on its stream; earlier attempts' temporary file stays |
| `SendWhole`, `OpenChunked` | the choice in `handleRequestMessage`: Data message, or `sendFileChunked` with `totalChunks` |
| `SendChunk`, `EndChunks` | its loop; `ReadAt` past the end ends it without a last chunk |
| `ReceiveData`, `ReceiveChunk` | `handleDataMessage`, `handleChunkMessage`: hash, version, truncate or append |
| `RemoveDest`, `RenameTemp`, `DestLocked`, `TempLocked`, `Retry` | `atomicRenameWithRetry` with files other programs hold open |
| `Verify`, `Finish` | the hash of the result, `updateWatcherIndex`, status |
| `Damage`, `StreamLost`, `SourceEdit`, `LocalEdit`, `Restart` | the network, users, the program |

Checked (run Chunks): `ReceivesFile`; `SyncedIsPublished`, that a file shown Synced is
there, is in the index as it is, and is the sender's unless something was damaged
or edited; `TransferEnds`, that each request ends, and with it its place among the
parallel transfers is free.  `NeverComplete` names the exception: `sendFileChunked`
counts one chunk more than it sends when the size is a multiple of the chunk size
(transfer.go:149), so the receiver never sees the last one.

Bounds: chunks of two blocks and files of one to three give one chunk, a full and a
partial one, and an exact multiple; two requests, so that the second meets what
the first left; one damaged message, edit of each side and restart at any point.
Fairness: weak, of the receiver's and of the sender's goroutine.

Abstracted: the relay is off, since nothing calls `EnablePeerRelay`; it would change
the size from which chunks are used.  One request of the path at a time:
overlapping ones share the temporary file as they do in CdcTransfer.

## Module FolderRegistry

Two devices, each with the configuration in memory (`folders`, and `other` for the
rest: how often what `cfg.mu` guards has changed, and the limit of versions for the
fields that handleSettings assigns), its `file`, the `watchers` in `ss.watchers`, `orphans` that run though no map
knows them, and goroutines `task`.

| action | code |
|---|---|
| `UserAdds`, `UserRemoves`, `GuardedChange`, `UnguardedChange` | handlers of the web interface; settings are written without `cfg.mu` |
| `ReceiveAnnounce`, `ReceiveIndex` | `handleFolderAnnouncement`, `handleIndexMessage` up to the look-up of the folder |
| `Add` | the append under the lock, after a look-up that was made without it |
| `StartSave`, `EndSave` | `Config.Save`: marshal, then write |
| `Refresh` | `RefreshWatchers` or `startWatcher` |
| `SendFolder`, `TriggerSync`, `Connect`, `Drop` | announcements and indexes to the peer |
| `Restart` | `Load`, which replaces zeros by defaults in memory (`Loaded`), and watchers; a torn file is fatal (`down`) |

Checked (run Registry): `FileIsCurrent`, that once saves are over, however they
overlapped, the file holds the configuration in memory, or what `Load` has made it
from; `WatchersAreCurrent`, that once changes of folders are over the map of watchers
holds the enabled folders, and that nothing else is scanned, by no watcher outside the
map either, except where `doubled` names the folder; `ConfiguredOnce`, one entry and
one watcher per folder unless two creations of it met; `DeleteIsOptIn`, that no message,
restart or race sets SyncDelete; `FolderSpreads`, that a folder enabled on one device is
in the end watched on the other.

`Load` turns a limit of zero into ten (config.go:181) and does not save it.  The field's
comment says "0 = unlimited" (config.go:47), but a zero that a user has set and saved is
ten after a restart, where the version manager reads it (server.go:83), and the next
save writes the ten to the file.

The exceptions are named in the properties: `raced` (settings written while
`Save` marshals), `doubled` (two creations that both found nothing, an index for a
folder without a watcher: of the watchers such a folder gets, one may scan for ever
without being in the map), `removed` and disabled folders, which an index creates or
feeds again, and `down`.  Also seen: an index that overtakes the announcement
creates the folder without SyncDelete, and the announcement then changes nothing,
so deletions do not spread.

Bounds: one folder, since no step relates two; two goroutines on each device are
the least that overlap; limits of zero and twenty, one of which `Load` changes; one request of a user and one fault on top of all
starting configurations, of up to two entries.  Fairness: weak, of some goroutine
that can go on, of the acceptance of some stream, and of dialling.

## Module VersionManager

`archive` maps names (file and second) to what was saved; `job` is what a
goroutine is at: `Replace` and `Restore` begin, `Copy` saves, `List` and `Clean` find
and remove what is too much or too old, `Put` writes the new content, `Remove` and
`ReadVersion` are the ends.  `Sweep` is one removal by `CleanAllVersions`, `Tick` the
clock.  `vm.mu` guards the settings only, so all of these interleave.

Checked (run Versions): `DeservedIsKept`, that a version the limits entitle to stay
stays, with its content; `ArchiveBounded`, that overlapping cleanings keep the
limit; `RestoreSucceeds`, that a restore brings back what was asked for when that
version deserves to stay even after the save the restore makes first.

The conversions are modelled by what they do.  Two saves of a file in one second
share a name (`Shared`).  The prefix and suffix by which `ListVersions` matches make
README take the versions of README.md for its own (`AlsoLists`, `Misread`), and their
time cannot be parsed, so cleaning removes them first.  Times are written in
local time and read as UTC (`Zone`), so west of Greenwich versions go early.
When the archive is full, restoring its oldest version always fails: the save
before it cleans that version away.

Bounds: two files of which one lists the other's versions, two goroutines,
limits of two versions and three seconds, a clock one hour (one unit) behind UTC,
four seconds, three jobs.  No liveness: the operations are loops without waiting.
`RestoreVersion` and `CleanAllVersions` have no caller in the repository yet; the
module shows what a caller may rely on.

## Module Tailscale

`tm` is the manager (mode, key, connected, address, server), `holder` who keeps
`tm.mu` across a wait, `daemon` the state of the installed tool, `running` the tsnet
servers, `saved` the configuration; `pc` and `then` are a request's place.

| action | code |
|---|---|
| `BeginConnect`, `BeginSettings`, `BeginStatus`, `BeginDisconnect`, `BeginMode` | the handlers |
| `SetAuthKey`, `SaveKey`, `SetMode`, `SaveMode` | each setter, then `Save` |
| `Connect`, `ConnectCLI`, `ConnectedCLI`, `ConnectTsnet` | under the lock: `tailscale up`, `tailscale ip`, `tsnet.Server.Up`, each of which may fail |
| `Disconnect`, `RunDown`, `DisconnectedCLI`, `DisconnectTsnet` | the commands run without the lock, their results are written with it |
| `GetStatus`, `AskIP`, `StatusAnswered` | likewise |
| `Outside`, `Restart` | a user of the `tailscale` command; the program stops and `main` connects again |

Checked (run Tailnet): `ServerIsManaged`, that no tsnet server runs that the manager
cannot close; `StatusAgrees` and `ModeIsRemembered`, that as long as requests take
turns, and again after one disconnect or mode change that runs alone, the status
is true and the saved mode is the one in use; `RequestsEnd`.  With overlapping
requests neither the status nor the saved mode is right all the time: a late
answer of GetStatus shows a manager as connected that is not, a late disconnect of
the tool clears the connection of a tsnet server, a failed `down` is ignored by
`SetMode`.

Bounds: two requests at a time, any number in sequence; the state is finite without
a counter.  Fairness: strong, of each request's step: Go's mutexes hand the lock to
whoever has waited longest, and the tool and tsnet are assumed to return.  The code
sets no time-out on either, so that is an assumption about them: were `tailscale up` to
hang, `Connect` would keep the lock and every other request would wait for ever.

Not modelled: `GetPeers`, `Listen` and `Dial`, which read the state and call a library,
the texts of warnings, and `CheckStatus` and `EnablePeerRelay`, which nothing calls.  The
listener of `Start` belongs to the tsnet server of that time and is not opened again
when that is closed; what becomes of it is tsnet's.

## Module NoteIndex

`disk` holds the notes of a folder, a content being the set of links in it; `forward`,
`known` and `back` are the maps of the index, under keys of a folder and a note;
`pc`, `req` and `todo` a request and the notes its walk has left.

| action | code |
|---|---|
| `BeginCreate`, `BeginWrite`, `WriteFile`, `IndexWritten` | a handler writes the file, then `IndexNote` under the index's lock |
| `BeginRename`, `RenameFile` | nothing is indexed |
| `BeginGraph`, `Visit`, `IndexVisited`, `EndWalk`, `GetGraph` | `reindexAllNotes`: read a file, index it, go on; then the maps are read |
| `ChangeFile`, `Restart` | deletions, the synchronisation, other editors; the maps are lost |

Checked (run Notes): `LinksMirror`, that backlinks are the inverse of links whatever
was indexed in whatever order; `GraphIsCurrent`, that the graph shows the links of
each note on disk that nobody was changing since it was asked for.

It is stated for notes on disk only: deleted and renamed notes stay in the graph,
with their links, until a restart (handlers_core.go:516), although
handlers_editor.go:488 says it is always up to date; `RemoveNote`, which would take
them out, has no caller.  A folder is addressed by its ID or its label, and what is
written under the label is indexed under another key.

Bounds: two requests, two notes of one directory, two contents, ID and label.  Both
requests are alike, so they are symmetric.  No fairness: no property needs it.

## What is proved

Every invariant and every action property that a run checks is also a theorem, and
so are the two refinements of `FileReceive`.  The runs show them on a small instance,
the theorems for every value of the constants that the assumptions allow.  Each
proof follows one pattern: types, then the strengthening that makes the property
inductive, one lemma per part of it and one step per action.  TLC has checked each
strengthening as an invariant before it was proved.

| module | theorem | property |
|---|---|---|
| `CdcTransferProofs` | `TransfersWellFormed`, `ReceivedBlocksBelong` | `TypeOK`, `BlockProvenance` |
| | `OverwrittenAreVersioned` | `OverwrittenIsVersioned`, if `OneAtATime` |
| | `SyncedFilesArePublished`, `WholeFilesArePublished`, `BlocksReceiveFile` | `SyncedIsPublished`, `WholePublish`, `ReceivesFile`, if also `SteadySource` |
| `ChunkedTransferProofs` | `TypeCorrect`, `SyncedFilesArePublished` | `TypeOK`, `SyncedIsPublished` |
| | `ChunksReceiveFile` | `ReceivesFile`, if `ChecksApply` |
| `FolderSyncProofs` | `TypeCorrect` | `TypeOK` |
| | `FilesSurvive` | `FileSurvives`, if not `SyncDelete` |
| | `ReplacedAreCopied` | `ReplacedIsCopied`, if `Undisturbed` and `AllInWindow` |
| | `LatestIsKept` | `LatestKept`, if `Undisturbed` and not `SyncDelete` |
| `PeerConnectionsProofs` | `TypeCorrect`, `LiveEntriesAreServed` | `TypeOK`, `EntryIsServed` |
| `FolderRegistryProofs` | `TypeCorrect`, `SavesAreKept`, `EnabledAreWatched` | `TypeOK`, `FileIsCurrent`, `WatchersAreCurrent` |
| | `DeletionIsOptIn`, `FoldersAreSingle` | `DeleteIsOptIn`, `ConfiguredOnce` |
| `VersionManagerProofs` | `TypeCorrect`, `VersionsAreKept`, `ArchiveIsBounded`, `RestoresSucceed` | `TypeOK`, `DeservedIsKept`, `ArchiveBounded`, `RestoreSucceeds` |
| `TailscaleProofs` | `TypeCorrect`, `ServersAreManaged`, `StatusIsTrue`, `SavedModeIsUsed` | `TypeOK`, `ServerIsManaged`, `StatusAgrees`, `ModeIsRemembered` |
| `NoteIndexProofs` | `TypeCorrect`, `LinksAreMirrored`, `GraphsAreCurrent` | `TypeOK`, `LinksMirror`, `GraphIsCurrent` |

**CdcTransfer.**  Assumptions: those the module declares: holes and absence are not
blocks, contents are sequences of blocks, the destination is none of the other files.
`BlockProvenance` is not inductive alone: a block is written where its message says,
so one must know that the message belongs to the transfer's own BlockMap
(`StreamInv`), and that map to the announced ones; and a write reaches whichever
file the descriptor has followed, so one must know that file exists (`HandleInv`).
Blocks taken from the local disk are hashed before use (`HaveLocally`), which is
why no invariant of the block store is needed: it may hold anything.  The lemma
`ChunkOffsetHolds` shows that the offset looked up for an announced hash holds that
hash; it needs a last element among the positions of a sequence.

The other four theorems have hypotheses on the constants, and the section on
CdcTransfer says what goes wrong without them.  `OneAtATime` (`MaxParallel` = 1) is
what gives a transfer the temporary file for its own: `SingleInv` says that only one
is active, that its temporary file and descriptor are where its place in the code
says (`Alone`), and that what it is about to replace has been saved (`Saved`).
`SteadySource` says that the sender's file is not edited and that no source content
repeats a block; local edits, stale stores, lost streams and restarts are allowed.
`WholeInv` then follows every position of the temporary file: it holds its block,
or that block is still to come, in the stream or at the sender (`Filling`), and the
block marked as the last is the last one needed (`InStep`), so when the receiver
stops waiting nothing is missing.  For the status, `PublishedInv` adds that a transfer
which is past the rename has put its file in place, or has tried in vain
(`GivenUp`, and then it needed no block), until the next one begins.  The proof of the refinement is short after that:
each action is a step of FileReceive or none, `WholeInv` gives `Publish` its whole
file and `Saved` gives `Vacate` its copy.

**ChunkedTransfer.**  The types need no hypothesis.  The refinement assumes
`ChecksApply`: integrity checking is on or no message is damaged, for without the
check damaged blocks are published and no specification of a transfer excuses them.
The invariant says where the parts of a file are: while nothing was damaged and the
source has not changed, the temporary file is the part of the source in front of
the first chunk on the stream (`StreamInv`), therefore the last chunk makes it
whole (`PublishInv`); after a fault it still consists of offered blocks only
(`BlocksInv`), and a copy of the destination is kept from the first chunk on.

**FolderSync.**  The types need that a change other than a deletion carries an entry
(`ScanInv`), over the three separate steps of a scan.  For `FilesSurvive` the
strengthening begins with the temporary file: on a device that is not `spoiled` one job
at a time receives, and its temporary file is there until it is renamed (`AloneInv`).
Then, as long as nobody was stopped and at most one device is spoiled, a device that is
removing the old file for a received one is never the only one with the file
(`SurviveInv`, `Elsewhere`): a transfer takes the file from another device, and the
other's own temporary file counts as having it.  The property says how far that goes
(`OneMishap`): one device stopped, or overlaps and renames given up on one device only.
Two devices that replace each other's file and both fail after `os.Remove` lose it: TLC
finds that behaviour when the property leaves `OneMishap` out and the users of two
devices edit at once.  SyncDelete has to be off
because of the echoes described above.

For the two theorems about turns the argument is about devices that are out of date
(`Outdated`): an edit happens when nothing is under way, and from then until such a
device has the new version its scans find nothing to announce (`ScanFits`), nobody
fetches the file from it (`NotSent`), and whoever is about to replace the file there
has compared the announcement with the right index entry and, under `rename`, copied
the file (`JobsFit`).  So every file under way, the temporary files included, is the
latest (`SentInv`).  `Undisturbed`
(no lost session, manual synchronisation or new watcher) is needed, since each of
them sends full indexes, and with them older versions; overlapping transfers and
locked files are not excluded, and where they spoil a device `LatestKept` says so; `AllInWindow` (`MaxClock` at
most `ConflictWindow`) since outside the window nothing is copied.  FolderTurns checks
`LatestKept` beyond the theorem, with a lost session and a manual synchronisation
between two devices under `newest`.

**PeerConnections.**  For any number of devices and sessions; it assumes that each
session has two different ends and that `None` and `Dead` are no sessions.  To be
inductive `EntryIsServed` needs `StageOfEnds`: only the two ends of a session have a
goroutine for it, so the goroutine that leaves a session is the one its entry relied
on, and `Unregistered` finds the entry under the other end's ID.

**FolderRegistry.**  For two devices with any number of folders and goroutines; it
assumes well-typed starting configurations and that a torn file is no configuration.
`FileIsCurrent` speaks only of moments without a save; `SaveInv` adds what makes it
inductive: a save that has marshalled and not yet written holds what is in memory,
because `Save` keeps `cfg.mu` for reading and every guarded change needs it for
writing, so whichever of several saves writes last, it writes the current
configuration.  `Current` is that relation, with the step `Load` takes between file and
memory; it needs the assumption that the default is not zero.  For the map of watchers
the invariant itself is inductive (`MapIsCurrent`), as each change of the folders leaves
a goroutine on its way to `RefreshWatchers`; that no other folder is scanned follows
from `ConfiguredOnce`, which rules orphans out unless the folder was doubled.  `DeleteIsOptIn`
holds of all places an entry may come from, so its invariant (`OptInv`) extends it to
the messages, goroutines, saves under way and files.  `ConfiguredOnce` counts entries
(`OnceFor`): in memory, in a save under way and in the file, together with the
creations that have looked the folder up and not yet added it.

**VersionManager.**  For any files, contents, limits, clock and number of goroutines;
it assumes that the local zone is within a day of UTC, so that names which cannot be
parsed (the year 1) are older than all others.  A cleaning removes what an earlier
listing found, so the invariant (`KeptInv`) says that a version that deserves to stay
is there and no goroutine is about to remove it: since it was listed, newer versions
may have come, which only makes others deserve less.  `ArchiveBounded` needs that
someone has yet to list, or the versions nobody is about to remove are within the
limit (`BoundInv`), and that takes the cardinalities of the library's theorems.

**Tailscale.**  For any set of requests, without assumptions.  A server comes up and is
closed by steps that ran unlocked commands before, so the invariant needs who keeps
the lock (`LockInv`: only the holder is inside a command of `Connect`), that no server
runs while `Up` is under way (`UpInv`), and where a server may outlive its mode
(`ModeInv`).  For the status and the saved mode, `TurnInv` says of each place a
request may be in, as long as it has been alone, what the tool, the servers and the
configuration are then.

**NoteIndex.**  For any folder, contents and requests, from the assumption that files
are notes and contents sets of links.  The lemma `IndexMirror` is the argument for
the mirror: `IndexNote` removes the note from the backlinks of its old links only,
which is enough because the mirror held before; the type invariant tells that links
lead to keys.  For the graph, `GraphInv` says of each walk that a note it has passed
is indexed as it is on disk or was touched since, and of the other requests that what
they are about to index is on disk or touched.

### Only model-checked

* Liveness: `TransferEnds` (both transfers), `LatestSpreads`, `LatestReturns`,
  `IndexesArrive`, `FolderSpreads`, `RequestsEnd`.  Liveness under fairness needs
  ENABLED, which the prover does not support.
* `LatestKept` with lost sessions and manual synchronisation (FolderTurns), see above.

## Plan

Done: the inventory, the nine modules above, their runs, and theorems for all
properties that are not liveness.  What is left, in the order of its worth:

1. `LatestKept` for two devices under `newest` with lost sessions and manual
   synchronisation: it needs that devices agree whenever all is quiet, and so that an
   announcement that was lost with its session is made again on the next.
2. The safety part of the liveness properties: for `TransferEnds` that a receiver which
   waits has a block under way or a sender that is not done; for `IndexesArrive` that
   of two sessions of a pair one is kept by both ends.
3. `FilesSurvive` with SyncDelete for devices that do not announce deletions.

## Not modelled

* The chunker (`sync/cdc.go`): a hash over all bytes of a chunk so far cuts it where its 18
  lowest bits are zero, between 32 KiB and 2 MiB; an instance small enough for TLC would
  be another function.  The transfers take its chunks as blocks.
* The progress counters (`pendingFiles`, `completedFiles`, `isSyncing`), the status
  tracker's summaries and the integrity report: only the interface reads them.
  `checkSyncComplete` reads the two counters without a lock while `TriggerSync` clears
  them, so the interface may show a synchronisation that is over.
* Message framing (`network/wire.go`): input and output without state.
* Markdown rendering, the HTTP handlers that only read and format, the
  frontend's rendering: no state a property would be about.
* The handlers of BlockMap, BlockNeed and BlockData messages that arrive on a stream
  of their own: no peer running this code sends them so.
* The announcements' lock: `onChangesDetected` holds `ss.mu` for reading while it
  writes to all peers; PeerConnections has this for the full index only.
