----------------------------- MODULE FolderSync -----------------------------
(***************************************************************************)
(* How one file of a shared folder travels between Stashbird devices: the  *)
(* periodic scan of each device's folder watcher (sync/watcher.go), the    *)
(* changes it announces (network/watchers.go), the comparison of a peer's  *)
(* announcement with the own index (network/handlers.go, sync/conflict.go),*)
(* the receive with its index update (network/wire.go) and the deletion a  *)
(* peer asks for.  The walk of a folder does nothing that relates two      *)
(* files, so one file is enough.                                           *)
(*                                                                         *)
(* The file the sender has at one moment arrives in the temporary file in  *)
(* one step; how it gets there block by block, and what two transfers that *)
(* overlap between their blocks make of it, is module CdcTransfer.         *)
(* Each message travels on a yamux stream of its own and has a goroutine   *)
(* of its own, so messages form a bag and are handled in any order.        *)
(*                                                                         *)
(* Time.  Every write of a file moves the clock by one and leaves its      *)
(* value as the file's modification time: the devices' clocks agree.       *)
(* ConflictWindow stands for the 60 seconds of DetectConflict.             *)
(***************************************************************************)
EXTENDS Integers, FiniteSets, Bags, BagsExt

CONSTANTS
  Device,          \* the devices that share the folder
  Editors,         \* those whose users touch the file
  Absent,          \* no file, no index entry
  Start,           \* what the folder may start with: 0, Absent or either
  Job,             \* goroutines that handle index messages
  SyncDelete,      \* FolderConfig.SyncDelete, the same on every device
  Strategy,        \* conflict strategy: "rename", "newest" or "oldest"
  ConflictWindow,  \* DetectConflict's time window
  RenameAttempts,  \* attempts of atomicRenameWithRetry
  PatientUsers,    \* users touch the file only when nothing is under way
  MaxClock,        \* bound: writes the clock tells apart
  MaxBacklog,      \* bound: unanswered streams of a session, one way
  MaxEdits,        \* bound: writes by users
  MaxDeletes,      \* bound: deletions by users
  MaxFresh,        \* bound: calls of RefreshWatchers and restarts together
  MaxResyncs,      \* bound: sessions lost and manual synchronisations together
  MaxLocks         \* bound: attempts to rename that meet a locked file

ASSUME DeviceAssumption ==
  IsFiniteSet(Device) /\ IsFiniteSet(Job) /\ Editors \subseteq Device
ASSUME VersionAssumption ==
  /\ Absent \notin Nat \cup [hash : Nat, time : Nat]
  /\ Start \subseteq {0, Absent}
ASSUME OptionAssumption ==
  /\ SyncDelete \in BOOLEAN /\ PatientUsers \in BOOLEAN
  /\ Strategy \in {"rename", "newest", "oldest"}
  /\ ConflictWindow \in Nat /\ RenameAttempts \in Nat \ {0}
ASSUME BoundAssumption ==
  /\ MaxClock \in Nat /\ MaxBacklog \in Nat \ {0}
  /\ MaxEdits \in Nat /\ MaxDeletes \in Nat /\ MaxFresh \in Nat
  /\ MaxResyncs \in Nat /\ MaxLocks \in Nat

\* A version is a content and its hash: 0 is the one the folder starts with,
\* and the nth that users write is n.
Version == 0..MaxEdits

\* A device's watchers in the order RefreshWatchers and restarts make them.
Watcher == 0..MaxFresh

VARIABLES
  disk,       \* each device's file: [hash, time] or Absent
  clock,      \* time of the last write anywhere
  watcher,    \* the watcher ss.watchers holds
  index,      \* each watcher's index entry for the file
  wpc,        \* each watcher goroutine's place in scan
  found,      \* what the walk found: currentFiles
  change,     \* what compareIndex reported
  links,      \* connected pairs of devices
  greet,      \* sendFullIndex calls still to be made: <<from, to>>
  msgs,       \* messages under way
  job,        \* the index message a goroutine is handling
  tmp,        \* each device's temporary file for the path, one for all jobs
  copies,     \* conflict copies kept: [at, hash]
  latest,     \* history: what users did last, the version written or Absent
  spoiled,    \* history: the devices where two transfers overlapped or a
              \* rename was given up
  blind,      \* history: a device without an index entry for the latest
              \* version it has has taken another one for news
  edits, deletes, refreshes, restarts, disconnects, triggers, locks

scanVars == <<watcher, index, wpc, found, change>>
netVars == <<links, greet, msgs>>
countVars == <<edits, deletes, refreshes, restarts, disconnects, triggers>>
fileVars == <<disk, clock, tmp, locks>>
historyVars == <<latest, spoiled, blind, countVars>>
vars == <<fileVars, scanVars, netVars, job, copies, historyVars>>

-----------------------------------------------------------------------------
Entry == [hash : Version, time : Nat]

Hash(e) == IF e = Absent THEN Absent ELSE e.hash

Pairs == {{p[1], p[2]} : p \in {q \in Device \X Device : q[1] # q[2]}}

Peers(d) == {e \in Device : {d, e} \in links}

Idle == [pc |-> "idle"]

\* The time of the next write.  Runs that let the clock stop are those in which
\* no decision depends on when: the rename strategy with every write inside the
\* window, or one edit, which the clock tells from what was there before.
Now == IF clock < MaxClock THEN clock + 1 ELSE clock

\* IndexUpdate (and full Index) and DeleteFile messages; the entry of a
\* DeleteFile message carries no information.
IndexMsg(d, e, entry) == [kind |-> "index", from |-> d, to |-> e,
                          entry |-> entry]
DeleteMsg(d, e) == [kind |-> "delete", from |-> d, to |-> e, entry |-> Absent]

\* session.Open waits while the peer has too many streams to accept.
Room(d, e) ==
  LET backlog == {m \in BagToSet(msgs) : m.from = d /\ m.to = e}
  IN BagCardinality([m \in backlog |-> msgs[m]]) < MaxBacklog

CurrentIndex(d) == index[d][watcher[d]]

\* Every device is connected, nothing is under way and every index is up to
\* date.
Quiet ==
  /\ links = Pairs
  /\ msgs = EmptyBag /\ greet = {}
  /\ \A h \in Job : job[h] = Idle
  /\ \A d \in Device :
       /\ \A g \in Watcher : wpc[d][g] \in {"none", "stopped", "idle"}
       /\ Hash(CurrentIndex(d)) = Hash(disk[d])

-----------------------------------------------------------------------------
(* Decisions. *)

\* compareIndex, for one file.
Changed(old, new) ==
  CASE old = Absent /\ new = Absent -> "none"
    [] old = Absent /\ new # Absent -> "created"
    [] old # Absent /\ new = Absent -> "deleted"
    [] OTHER -> IF old.hash # new.hash THEN "modified" ELSE "none"

Distance(m, n) == IF m > n THEN m - n ELSE n - m

\* DetectConflict, of two entries whose hashes differ.
Conflict(local, remote) ==
  Distance(local.time, remote.time) <= ConflictWindow

\* Mutant of Resolve: renaming keeps the local version in place.
ResolveKeepingLocal(local, remote) ==
  CASE Strategy = "rename" -> FALSE
    [] Strategy = "newest" -> remote.time > local.time
    [] Strategy = "oldest" -> remote.time < local.time

\* Resolve: is the remote version accepted?
Resolve(local, remote) ==
  CASE Strategy = "rename" -> TRUE
    [] Strategy = "newest" -> remote.time > local.time
    [] Strategy = "oldest" -> remote.time < local.time

\* Mutant of NeedSync: no comparison.
NeedSyncAlways(local, remote) == TRUE

\* handleIndexMessage's needSync, of two entries whose hashes differ.
NeedSync(local, remote) ==
  \/ local = Absent
  \/ local # Absent /\ Conflict(local, remote) /\ Resolve(local, remote)
  \/ /\ local # Absent /\ ~Conflict(local, remote)
     /\ remote.time > local.time

-----------------------------------------------------------------------------
\* The folder is in step on every device, or has no such file yet; every
\* watcher has scanned it and every device is connected with every other.
Init ==
  /\ clock = 0
  /\ latest \in Start
  /\ disk = [d \in Device |-> IF latest = Absent THEN Absent
                              ELSE [hash |-> latest, time |-> 0]]
  /\ watcher = [d \in Device |-> 0]
  /\ index = [d \in Device |->
                [g \in Watcher |-> IF g = 0 THEN disk[d] ELSE Absent]]
  /\ wpc = [d \in Device |->
              [g \in Watcher |-> IF g = 0 THEN "idle" ELSE "none"]]
  /\ found = [d \in Device |-> [g \in Watcher |-> Absent]]
  /\ change = [d \in Device |-> [g \in Watcher |-> "none"]]
  /\ links = Pairs
  /\ greet = {}
  /\ msgs = EmptyBag
  /\ job = [h \in Job |-> Idle]
  /\ tmp = [d \in Device |-> Absent]
  /\ copies = {}
  /\ spoiled = {} /\ blind = FALSE
  /\ edits = 0 /\ deletes = 0 /\ refreshes = 0
  /\ restarts = 0 /\ disconnects = 0 /\ triggers = 0 /\ locks = 0

-----------------------------------------------------------------------------
(* One scan of a watcher. *)

\* The walk reaches the file.  A stopped watcher may start one more scan:
\* its select picks the ticker as readily as the stop channel.
Walk(d, g) ==
  /\ wpc[d][g] = "idle"
  /\ wpc' = [wpc EXCEPT ![d][g] = "walked"]
  /\ found' = [found EXCEPT ![d][g] = disk[d]]
  /\ UNCHANGED <<fileVars, watcher, index, change, netVars, job, copies,
                 historyVars>>

\* compareIndex, under the read lock of the index.
CompareIndex(d, g) ==
  /\ wpc[d][g] = "walked"
  /\ wpc' = [wpc EXCEPT ![d][g] = "compared"]
  /\ change' = [change EXCEPT ![d][g] = Changed(index[d][g], found[d][g])]
  /\ UNCHANGED <<fileVars, watcher, index, found, netVars, job, copies,
                 historyVars>>

\* The index is replaced, under the write lock taken anew.
ReplaceIndex(d, g) ==
  /\ wpc[d][g] = "compared"
  /\ index' = [index EXCEPT ![d][g] = found[d][g]]
  /\ IF change[d][g] = "none"
       THEN /\ wpc' = [wpc EXCEPT ![d][g] = "idle"]
            /\ found' = [found EXCEPT ![d][g] = Absent]
       ELSE /\ wpc' = [wpc EXCEPT ![d][g] = "notifying"]
            /\ UNCHANGED found
  /\ UNCHANGED <<fileVars, watcher, change, netVars, job, copies,
                 historyVars>>

\* onChangesDetected: one message to every peer connected now.
Notify(d, g) ==
  /\ wpc[d][g] = "notifying" /\ \A e \in Peers(d) : Room(d, e)
  /\ msgs' = msgs (+) SetToBag(
       {IF change[d][g] = "deleted" THEN DeleteMsg(d, e)
        ELSE IndexMsg(d, e, found[d][g]) : e \in Peers(d)})
  /\ wpc' = [wpc EXCEPT ![d][g] = "idle"]
  /\ found' = [found EXCEPT ![d][g] = Absent]
  /\ change' = [change EXCEPT ![d][g] = "none"]
  /\ UNCHANGED <<fileVars, watcher, index, links, greet, job, copies,
                 historyVars>>

\* The goroutine of a watcher that was replaced sees its stop channel; nobody
\* reads the watcher's index any more.
StopWatcher(d, g) ==
  /\ g < watcher[d] /\ wpc[d][g] = "idle"
  /\ wpc' = [wpc EXCEPT ![d][g] = "stopped"]
  /\ index' = [index EXCEPT ![d][g] = Absent]
  /\ UNCHANGED <<fileVars, watcher, found, change, netVars, job, copies,
                 historyVars>>

\* RefreshWatchers: every watcher is replaced by a new one with an empty
\* index; scans that are running go on.
RefreshWatchers(d) ==
  /\ refreshes + restarts < MaxFresh
  /\ refreshes' = refreshes + 1
  /\ watcher' = [watcher EXCEPT ![d] = @ + 1]
  /\ wpc' = [wpc EXCEPT ![d][watcher[d] + 1] = "idle"]
  /\ UNCHANGED <<fileVars, index, found, change, netVars, job, copies,
                 latest, spoiled, blind, edits, deletes, restarts,
                 disconnects, triggers>>

-----------------------------------------------------------------------------
(* A peer's announcement. *)

\* The goroutine of a new stream; its name means nothing.
FreeJob == CHOOSE h \in Job : job[h] = Idle

\* handleIndexMessage looks the watcher up and copies its index.
TakeIndex(h, m) ==
  /\ job[h] = Idle /\ h = FreeJob /\ m.kind = "index"
  /\ msgs' = BagRemove(msgs, m)
  /\ job' = [job EXCEPT ![h] =
       [pc |-> "deciding", at |-> m.to, from |-> m.from, remote |-> m.entry,
        local |-> CurrentIndex(m.to), watcher |-> watcher[m.to]]]
  /\ UNCHANGED <<fileVars, scanVars, links, greet, copies, historyVars>>

\* The two hashes are equal, or the index lags behind the disk, which has the
\* remote content already: nothing to fetch, the index is corrected.
AlreadyHave(h) ==
  /\ job[h].pc = "deciding"
  /\ LET d == job[h].at
         local == job[h].local
         remote == job[h].remote
     IN /\ local # Absent
        /\ \/ /\ local.hash = remote.hash
              /\ UNCHANGED index
           \/ /\ local.hash # remote.hash /\ Hash(disk[d]) = remote.hash
              /\ index' = [index EXCEPT ![d][job[h].watcher] = disk[d]]
  /\ job' = [job EXCEPT ![h] = Idle]
  /\ UNCHANGED <<fileVars, watcher, wpc, found, change, netVars, copies,
                 historyVars>>

\* Mutant of NeedsCopy: only when the local version is the newer one.
NeedsCopyNewer(d, local, remote) ==
  /\ local # Absent /\ disk[d] # Absent
  /\ Strategy = "rename" /\ Conflict(local, remote)
  /\ local.time > remote.time

\* Resolve calls saveConflictCopy, which finds a file.
NeedsCopy(d, local, remote) ==
  /\ local # Absent /\ disk[d] # Absent
  /\ Strategy = "rename" /\ Conflict(local, remote)

\* Mutant of Decide: the old file makes room as soon as a transfer is due.
DecideRemoving(h) ==
  /\ job[h].pc = "deciding"
  /\ LET d == job[h].at
         due == NeedSync(job[h].local, job[h].remote)
     IN /\ job[h].local # Absent => Hash(disk[d]) # job[h].remote.hash
        /\ disk' = [disk EXCEPT ![d] = IF due THEN Absent ELSE @]
        /\ job' = [job EXCEPT ![h] =
             IF due THEN [pc |-> "requested", at |-> d, from |-> job[h].from]
             ELSE Idle]
  /\ UNCHANGED <<clock, tmp, locks, scanVars, netVars, copies, historyVars>>

\* Otherwise the entries decide.  The rename strategy first copies what is on
\* disk to a conflict file, which no scan sees.
Decide(h) ==
  /\ job[h].pc = "deciding"
  /\ LET d == job[h].at
         local == job[h].local
         remote == job[h].remote
     IN /\ local # Absent => /\ local.hash # remote.hash
                             /\ Hash(disk[d]) # remote.hash
        /\ copies' =
             IF NeedsCopy(d, local, remote)
             THEN copies \cup {[at |-> d, hash |-> disk[d].hash]}
             ELSE copies
        /\ job' = [job EXCEPT ![h] =
             IF NeedSync(local, remote)
               THEN [pc |-> "requested", at |-> d, from |-> job[h].from]
               ELSE Idle]
        /\ blind' = (blind \/ /\ local = Absent /\ disk[d] # Absent
                              /\ Hash(disk[d]) = latest
                              /\ remote.hash # latest)
  /\ UNCHANGED <<fileVars, scanVars, netVars, latest, spoiled, countVars>>

-----------------------------------------------------------------------------
(* The transfer. *)

\* The rename of a received file is still to come.
Receiving(d) ==
  \E h \in Job : job[h].pc \in {"removing", "renaming"} /\ job[h].at = d

\* The sender's file arrives in the temporary file, whoever else is receiving
\* into it.  A sender that has no such file does not answer; the goroutine of
\* the request waits until the session ends, which no other step depends on, so
\* the job is free at once.
Fetch(h) ==
  /\ job[h].pc = "requested" /\ {job[h].at, job[h].from} \in links
  /\ LET d == job[h].at
         sent == disk[job[h].from]
     IN \/ /\ sent = Absent
           /\ job' = [job EXCEPT ![h] = Idle]
           /\ UNCHANGED <<tmp, spoiled>>
        \/ /\ sent # Absent
           /\ job' = [job EXCEPT ![h] =
                        [pc |-> "removing", at |-> d, tries |-> 0]]
           /\ tmp' = [tmp EXCEPT ![d] = sent.hash]
           /\ spoiled' = IF Receiving(d) THEN spoiled \cup {d} ELSE spoiled
  /\ UNCHANGED <<disk, clock, locks, scanVars, netVars, copies, latest, blind,
                 countVars>>

\* An attempt of atomicRenameWithRetry: os.Remove, then os.Rename.
RemoveDest(h) ==
  /\ job[h].pc = "removing"
  /\ disk' = [disk EXCEPT ![job[h].at] = Absent]
  /\ job' = [job EXCEPT ![h].pc = "renaming"]
  /\ UNCHANGED <<clock, tmp, locks, scanVars, netVars, copies, historyVars>>

\* The received file has the time it was written here, not the sender's.
RenameTemp(h) ==
  /\ job[h].pc = "renaming" /\ tmp[job[h].at] # Absent
  /\ clock' = Now
  /\ disk' = [disk EXCEPT ![job[h].at] =
                [hash |-> tmp[job[h].at], time |-> Now]]
  /\ tmp' = [tmp EXCEPT ![job[h].at] = Absent]
  /\ job' = [job EXCEPT ![h] = [pc |-> "hashing", at |-> job[h].at]]
  /\ UNCHANGED <<locks, scanVars, netVars, copies, historyVars>>

\* The attempt has failed.  After the last one processBlockData leaves the
\* request to wait for the end of its session; a transfer that needed no block
\* goes on as if the file were there.
Retry(h) ==
  LET d == job[h].at
      tried == job[h].tries + 1
  IN \/ /\ tried < RenameAttempts
        /\ job' = [job EXCEPT ![h] =
                     [pc |-> "removing", at |-> d, tries |-> tried]]
        /\ UNCHANGED spoiled
     \/ /\ tried >= RenameAttempts
        /\ \/ job' = [job EXCEPT ![h] = Idle]
           \/ job' = [job EXCEPT ![h] = [pc |-> "hashing", at |-> d]]
        /\ spoiled' = spoiled \cup {d}

\* Somebody has the destination open, so that nothing happens to it, or the
\* temporary file, after the destination was removed.
FileLocked(h) ==
  /\ locks < MaxLocks
  /\ locks' = locks + 1
  /\ \/ job[h].pc = "removing" /\ disk[job[h].at] # Absent
     \/ job[h].pc = "renaming" /\ tmp[job[h].at] # Absent
  /\ Retry(h)
  /\ UNCHANGED <<disk, clock, tmp, scanVars, netVars, copies, latest, blind,
                 countVars>>

\* Another transfer has renamed the temporary file.
TempGone(h) ==
  /\ job[h].pc = "renaming" /\ tmp[job[h].at] = Absent
  /\ Retry(h)
  /\ UNCHANGED <<fileVars, scanVars, netVars, copies, latest, blind, countVars>>

\* updateWatcherIndex looks the watcher up, then stats and hashes the file.
HashDest(h) ==
  /\ job[h].pc = "hashing"
  /\ LET d == job[h].at IN
       job' = [job EXCEPT ![h] =
         IF disk[d] = Absent THEN Idle
         ELSE [pc |-> "indexing", at |-> d, entry |-> disk[d],
               watcher |-> watcher[d]]]
  /\ UNCHANGED <<fileVars, scanVars, netVars, copies, historyVars>>

UpdateFile(h) ==
  /\ job[h].pc = "indexing"
  /\ index' = [index EXCEPT ![job[h].at][job[h].watcher] = job[h].entry]
  /\ job' = [job EXCEPT ![h] = Idle]
  /\ UNCHANGED <<fileVars, watcher, wpc, found, change, netVars, copies,
                 historyVars>>

\* Mutant of HandleDelete: nothing is removed.
HandleDeleteNever(m) ==
  /\ m.kind = "delete"
  /\ msgs' = BagRemove(msgs, m)
  /\ UNCHANGED <<fileVars, scanVars, links, greet, job, copies,
                 historyVars>>

\* handleDeleteMessage: the index is left to the next scan.
HandleDelete(m) ==
  /\ m.kind = "delete"
  /\ msgs' = BagRemove(msgs, m)
  /\ disk' = IF SyncDelete THEN [disk EXCEPT ![m.to] = Absent] ELSE disk
  /\ UNCHANGED <<clock, tmp, locks, scanVars, links, greet, job, copies,
                 historyVars>>

-----------------------------------------------------------------------------
(* Connections. *)

\* Mutant of Connect: only the device that dialled sends its index.
ConnectOneSided(d, e) ==
  /\ {d, e} \in Pairs \ links
  /\ links' = links \cup {{d, e}}
  /\ greet' = greet \cup {<<d, e>>}
  /\ UNCHANGED <<fileVars, scanVars, msgs, job, copies, historyVars>>

\* Both ends of a new session send their full index.
Connect(d, e) ==
  /\ {d, e} \in Pairs \ links
  /\ links' = links \cup {{d, e}}
  /\ greet' = greet \cup {<<d, e>>, <<e, d>>}
  /\ UNCHANGED <<fileVars, scanVars, msgs, job, copies, historyVars>>

\* Mutant of SendFullIndex: a file missing from the index is announced too.
SendFullIndexMissing(d, e) ==
  /\ <<d, e>> \in greet /\ Room(d, e)
  /\ greet' = greet \ {<<d, e>>}
  /\ msgs' = BagAdd(msgs, IndexMsg(d, e, CurrentIndex(d)))
  /\ UNCHANGED <<fileVars, scanVars, links, job, copies, historyVars>>

SendFullIndex(d, e) ==
  /\ <<d, e>> \in greet /\ Room(d, e)
  /\ greet' = greet \ {<<d, e>>}
  /\ msgs' = IF CurrentIndex(d) = Absent THEN msgs
             ELSE BagAdd(msgs, IndexMsg(d, e, CurrentIndex(d)))
  /\ UNCHANGED <<fileVars, scanVars, links, job, copies, historyVars>>

\* TriggerSync: the full index to every connected peer.
TriggerSync(d) ==
  /\ disconnects + triggers < MaxResyncs
  /\ triggers' = triggers + 1
  /\ greet' = greet \cup ({d} \X Peers(d))
  /\ UNCHANGED <<fileVars, scanVars, links, msgs, job, copies, latest,
                 spoiled, blind, edits, deletes, refreshes, restarts,
                 disconnects>>

\* What the lost sessions carried is lost, and requests on them end.
Drop(lost) ==
  /\ links' = links \ lost
  /\ greet' = {p \in greet : {p[1], p[2]} \notin lost}
  /\ msgs' = LET kept == {m \in BagToSet(msgs) : {m.from, m.to} \notin lost}
             IN [m \in kept |-> msgs[m]]

Cut(h, lost) ==
  job[h].pc = "requested" /\ {job[h].at, job[h].from} \in lost

Disconnect(d, e) ==
  /\ disconnects + triggers < MaxResyncs /\ {d, e} \in links
  /\ disconnects' = disconnects + 1
  /\ Drop({{d, e}})
  /\ job' = [h \in Job |-> IF Cut(h, {{d, e}}) THEN Idle ELSE job[h]]
  /\ UNCHANGED <<fileVars, scanVars, copies, latest, spoiled, blind, edits,
                 deletes, refreshes, restarts, triggers>>

\* A device stops, at any point, and starts again.
Restart(d) ==
  /\ refreshes + restarts < MaxFresh
  /\ restarts' = restarts + 1
  /\ LET lost == {p \in links : d \in p} IN
       /\ Drop(lost)
       /\ job' = [h \in Job |->
            IF Cut(h, lost) \/ (job[h] # Idle /\ job[h].at = d)
              THEN Idle ELSE job[h]]
  /\ watcher' = [watcher EXCEPT ![d] = @ + 1]
  /\ wpc' = [wpc EXCEPT ![d] = [g \in Watcher |->
               CASE g <= watcher[d]    -> "stopped"
                 [] g = watcher[d] + 1 -> "idle"
                 [] OTHER              -> "none"]]
  /\ found' = [found EXCEPT ![d] = [g \in Watcher |-> Absent]]
  /\ change' = [change EXCEPT ![d] = [g \in Watcher |-> "none"]]
  /\ index' = [index EXCEPT ![d] = [g \in Watcher |-> Absent]]
  /\ UNCHANGED <<fileVars, copies, latest, spoiled, blind, edits, deletes,
                 refreshes, disconnects, triggers>>

-----------------------------------------------------------------------------
(* Users. *)

MayTouch == PatientUsers => Quiet

\* A user writes a version nobody had before.
Edit(d) ==
  /\ edits < MaxEdits /\ MayTouch
  /\ edits' = edits + 1
  /\ latest' = edits + 1
  /\ clock' = Now
  /\ disk' = [disk EXCEPT ![d] = [hash |-> edits + 1, time |-> Now]]
  /\ UNCHANGED <<tmp, locks, scanVars, netVars, job, copies, spoiled, blind,
                 deletes, refreshes, restarts, disconnects, triggers>>

Delete(d) ==
  /\ deletes < MaxDeletes /\ MayTouch /\ disk[d] # Absent
  /\ deletes' = deletes + 1
  /\ latest' = Absent
  /\ disk' = [disk EXCEPT ![d] = Absent]
  /\ UNCHANGED <<clock, tmp, locks, scanVars, netVars, job, copies, spoiled,
                 blind, edits, refreshes, restarts, disconnects, triggers>>

-----------------------------------------------------------------------------
ScanStep(d, g) ==
  \/ Walk(d, g) \/ CompareIndex(d, g) \/ ReplaceIndex(d, g) \/ Notify(d, g)

JobStep(h) ==
  \/ AlreadyHave(h) \/ Decide(h) \/ Fetch(h)
  \/ RemoveDest(h) \/ RenameTemp(h) \/ TempGone(h)
  \/ HashDest(h) \/ UpdateFile(h)

TakeMessage ==
  \E m \in BagToSet(msgs) : HandleDelete(m) \/ \E h \in Job : TakeIndex(h, m)

Environment ==
  \/ \E d \in Device : RefreshWatchers(d) \/ TriggerSync(d) \/ Restart(d)
  \/ \E d \in Editors : Edit(d) \/ Delete(d)
  \/ \E d, e \in Device : Disconnect(d, e)

Next ==
  \/ \E d \in Device, g \in Watcher : ScanStep(d, g) \/ StopWatcher(d, g)
  \/ \E h \in Job : JobStep(h) \/ FileLocked(h)
  \/ TakeMessage
  \/ \E d, e \in Device : Connect(d, e) \/ SendFullIndex(d, e)
  \/ Environment

Spec == Init /\ [][Next]_vars

\* Tickers tick, goroutines are scheduled and connectToPeer dials again for as
\* long as the program runs.  A select that finds both of its channels ready
\* chooses at random, so it does not miss the stop channel for ever.
Fairness ==
  /\ \A d \in Device, g \in Watcher :
       WF_vars(ScanStep(d, g)) /\ SF_vars(StopWatcher(d, g))
  /\ \A h \in Job : WF_vars(JobStep(h))
  /\ WF_vars(TakeMessage)
  /\ \A d, e \in Device :
       WF_vars(Connect(d, e)) /\ WF_vars(SendFullIndex(d, e))

FairSpec == Spec /\ Fairness

-----------------------------------------------------------------------------
(* Properties. *)

Message ==
  [kind : {"index"}, from : Device, to : Device, entry : Entry] \cup
  [kind : {"delete"}, from : Device, to : Device, entry : {Absent}]

JobState ==
  [pc : {"idle"}] \cup
  [pc : {"deciding"}, at : Device, from : Device, remote : Entry,
   local : Entry \cup {Absent}, watcher : Watcher] \cup
  [pc : {"requested"}, at : Device, from : Device] \cup
  [pc : {"removing", "renaming"}, at : Device, tries : Nat] \cup
  [pc : {"hashing"}, at : Device] \cup
  [pc : {"indexing"}, at : Device, entry : Entry, watcher : Watcher]

TypeOK ==
  /\ disk \in [Device -> Entry \cup {Absent}]
  /\ clock \in Nat
  /\ watcher \in [Device -> Watcher]
  /\ index \in [Device -> [Watcher -> Entry \cup {Absent}]]
  /\ wpc \in [Device -> [Watcher -> {"none", "stopped", "idle", "walked",
                                    "compared", "notifying"}]]
  /\ found \in [Device -> [Watcher -> Entry \cup {Absent}]]
  /\ change \in [Device -> [Watcher -> {"none", "created", "modified",
                                       "deleted"}]]
  /\ links \subseteq Pairs
  /\ greet \subseteq Device \X Device
  /\ IsABag(msgs) /\ BagToSet(msgs) \subseteq Message
  /\ job \in [Job -> JobState]
  /\ tmp \in [Device -> Version \cup {Absent}]
  /\ copies \subseteq [at : Device, hash : Version]
  /\ spoiled \subseteq Device /\ blind \in BOOLEAN
  /\ latest \in Version \cup {Absent}
  /\ edits \in Nat /\ deletes \in Nat /\ refreshes \in Nat
  /\ restarts \in Nat /\ disconnects \in Nat /\ triggers \in Nat
  /\ locks \in Nat

\* When users take turns, every device ends up with what the last of them did:
\* the version written, or no file.  All that can come in its way is a locked file
\* or two transfers to a device that overlap.  Under the newest strategy two devices have
\* those only when a new session, a manual synchronisation or a new watcher has
\* announced a version again; under the rename strategy, or among more devices,
\* they come about of themselves.
LatestEverywhere == \A d \in Device : Hash(disk[d]) = latest

MayOverlap ==
  \/ Strategy = "rename" \/ Cardinality(Device) > 2
  \/ disconnects + triggers + refreshes + restarts > 0

LatestSpreads ==
  <>[](LatestEverywhere \/ (spoiled # {} /\ (locks > 0 \/ MayOverlap)))

\* However a device is stopped -- between the removal of the old file and the
\* rename of the new one, say -- every device has the latest version again and
\* again.  (Not for good: two devices whose scans always fall into that gap
\* can send each other the same version for ever.)
LatestReturns == []<>(LatestEverywhere \/ spoiled # {} \/ blind)

\* A file no user has deleted stays on some device or is about to be renamed
\* into place on one, unless two devices are stopped in front of that rename or
\* spoil it.
Present ==
  \/ \E d \in Device : disk[d] # Absent
  \/ \E d \in Device : Receiving(d) /\ tmp[d] # Absent

OneMishap ==
  \/ restarts = 0 /\ \E d \in Device : spoiled \subseteq {d}
  \/ restarts = 1 /\ spoiled = {}

FileSurvives ==
  [][deletes' = 0 /\ OneMishap' /\ Present => Present']_vars

\* When users take turns, no device gives up the version the last of them
\* wrote, except to rename another copy of it into place, or where it is spoilt.
LatestKept ==
  [][\A d \in Device :
       /\ PatientUsers /\ latest' = latest
       /\ disk[d] # Absent /\ Hash(disk[d]) = latest /\ Hash(disk'[d]) # latest
       => \/ \E h \in Job : /\ job'[h].pc = "renaming" /\ job'[h].at = d
                            /\ tmp'[d] = latest
          \/ d \in spoiled']_vars

\* Under the rename strategy, with edits inside the window, the version a device
\* gives up for a different one that it receives has a conflict copy there.
ReplacedIsCopied ==
  [][\A h \in Job : \A d \in Device :
       /\ PatientUsers /\ Strategy = "rename"
       /\ job[h].pc = "removing" /\ job'[h].pc = "renaming" /\ job[h].at = d
       /\ Absent \notin {disk[d], tmp[d]} /\ Hash(disk[d]) # tmp[d]
       => [at |-> d, hash |-> Hash(disk[d])] \in copies]_vars
=============================================================================
