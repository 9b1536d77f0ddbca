--------------------------- MODULE FolderRegistry ---------------------------
(***************************************************************************)
(* The folders each device knows: the configuration in memory and on disk  *)
(* (config/config.go), the watchers started for it (network/watchers.go),  *)
(* and the messages by which folders come to other devices                 *)
(* (network/handlers.go, network/server.go), driven by the web interface.  *)
(*                                                                         *)
(* Every operation is a goroutine of its own: it changes the configuration *)
(* under cfg.mu, saves it, replaces the watchers under ss.mu, and then     *)
(* sends.  Nothing holds these steps together.  Each message has its own   *)
(* stream, so messages are handled in any order.  A folder's ID is its     *)
(* label in whatever this program creates.                                 *)
(***************************************************************************)
EXTENDS Naturals, Sequences, FiniteSets, SequencesExt

CONSTANTS
  Device, Folder,
  Task,          \* goroutines of a device that work at the same time
  Torn,          \* a truncated or mixed configuration file
  Start,         \* what cfg.Folders may be on the devices at first
  Limit,         \* what a user may set max_file_versions to
  Default,       \* what Load makes of a zero there
  MaxEntries,    \* bound: entries of cfg.Folders
  MaxRequests,   \* bound: requests of users
  MaxFaults      \* bound: restarts and lost sessions

ASSUME DeviceAssumption == Cardinality(Device) = 2
ASSUME StartAssumption ==
  Start \subseteq
    [Device -> Seq([id : Folder, syncDelete : BOOLEAN, enabled : BOOLEAN])]
ASSUME TornAssumption == Torn \notin [folders : Seq([id : Folder,
  syncDelete : BOOLEAN, enabled : BOOLEAN]), other : [changes : Nat, limit : Nat]]
ASSUME LimitAssumption == Limit \subseteq Nat /\ Default \in Nat \ {0}
ASSUME BoundAssumption ==
  MaxEntries \in Nat /\ MaxRequests \in Nat /\ MaxFaults \in Nat

VARIABLES
  folders,      \* cfg.Folders
  other,        \* the rest of the configuration: how often the parts cfg.mu
                \* guards were changed, and max_file_versions for the fields
                \* handleSettings assigns
  file,         \* config.json
  watchers,     \* IDs in ss.watchers
  orphans,      \* watchers that run but are in no map, with their folder
  task,         \* what each goroutine is doing
  net,          \* streams opened to a device and not handled yet
  connected,    \* the devices have a session
  down,         \* devices whose configuration could not be loaded
  raced,        \* history: fields were changed without the lock during a save
  doubled,      \* history: folders that were there twice at first, or whose
                \* creation began beside another of the folder
  optedIn,      \* history: folders a user shared with SyncDelete
  removed,      \* history: folders a user removed
  requests, faults   \* bounded actions so far

vars == <<folders, other, file, watchers, orphans, task, net, connected, down,
          raced, doubled, optedIn, removed, requests, faults>>
memory == <<folders, other>>
history == <<raced, doubled, optedIn, removed>>
count == <<requests, faults>>

-----------------------------------------------------------------------------
Entry == [id : Folder, syncDelete : BOOLEAN, enabled : BOOLEAN]

Peer(d) == CHOOSE e \in Device : e # d

Idle == [pc |-> "idle"]

Requested == requests < MaxRequests /\ requests' = requests + 1
Fault == faults < MaxFaults /\ faults' = faults + 1

\* A goroutine begins in a free slot.
Free(d, t) ==
  d \notin down /\ task[d][t] = Idle /\ t = CHOOSE x \in Task : task[d][x] = Idle

\* findFolderConfig, and the enabled entries startWatchers goes through.
Known(d, f) == \E i \in DOMAIN folders[d] : folders[d][i].id = f
EnabledIn(s, f) == {i \in DOMAIN s : s[i].id = f /\ s[i].enabled}
EnabledIds(s) == {f \in Folder : EnabledIn(s, f) # {}}

\* Of two enabled entries with one ID startWatchers keeps the last watcher in
\* its map, and the other runs on.
WatchedTwice(s) == {f \in Folder : Cardinality(EnabledIn(s, f)) > 1}
EntriesOf(s, f) == {i \in DOMAIN s : s[i].id = f}

\* What json.MarshalIndent makes of the configuration.
Snapshot(d) == [folders |-> folders[d], other |-> other[d]]

\* Load replaces a zero field by its default, in memory only.
Loaded(data) ==
  [data EXCEPT !.other.limit = IF @ = 0 THEN Default ELSE @]

Saving(d) == {t \in Task : task[d][t].pc = "write"}

\* Goroutines of d that are going to add f.
Creating(d, f) == {t \in Task : task[d][t].pc = "add" /\ task[d][t].entry.id = f}

\* Mutant of Announcement: the form of the index message, without SyncDelete.
AnnouncementBare(e) == [kind |-> "announce", id |-> e.id]

\* FolderAnnouncement carries the sender's SyncDelete.
Announcement(e) == [kind |-> "announce", id |-> e.id, syncDelete |-> e.syncDelete]

\* sendFullIndex: one index message for each watcher.
Indexes(d) == {[kind |-> "index", id |-> f] : f \in watchers[d]}

\* sendFolderAnnouncementsToSession: one for each enabled entry.
Announcements(d) ==
  {Announcement(e) : e \in {x \in Range(folders[d]) : x.enabled}}

Send(d, ms) ==
  net' = IF connected THEN [net EXCEPT ![Peer(d)] = @ \cup ms] ELSE net

Goto(d, t, pc) == task' = [task EXCEPT ![d][t].pc = pc]
Finish(d, t) == task' = [task EXCEPT ![d][t] = Idle]

-----------------------------------------------------------------------------
Init ==
  /\ folders \in Start
  /\ other = [d \in Device |-> [changes |-> 0, limit |-> Default]]
  /\ file = [d \in Device |-> Snapshot(d)]
  /\ watchers = [d \in Device |-> EnabledIds(folders[d])]
  /\ orphans = [d \in Device |-> WatchedTwice(folders[d])]
  /\ task = [d \in Device |-> [t \in Task |-> Idle]]
  /\ net = [d \in Device |-> {}]
  /\ connected = FALSE
  /\ down = {}
  /\ raced = {} /\ removed = {}
  /\ doubled = {p \in Device \X Folder :
                  Cardinality(EntriesOf(folders[p[1]], p[2])) > 1}
  /\ optedIn = {f \in Folder : \E d \in Device : \E i \in DOMAIN folders[d] :
                  folders[d][i].id = f /\ folders[d][i].syncDelete}
  /\ requests = 0 /\ faults = 0

-----------------------------------------------------------------------------
(* Operations start. *)

\* POST /api/folders: no look at what is there.
UserAdds(d, t, e) ==
  /\ Free(d, t) /\ Requested
  /\ task' = [task EXCEPT ![d][t] = [pc |-> "add", kind |-> "user", entry |-> e]]
  /\ optedIn' = IF e.syncDelete THEN optedIn \cup {e.id} ELSE optedIn
  /\ doubled' = IF Known(d, e.id) \/ Creating(d, e.id) # {}
                THEN doubled \cup {<<d, e.id>>} ELSE doubled
  /\ UNCHANGED <<memory, file, watchers, orphans, net, connected, down, raced,
                 removed, faults>>

\* Mutant of Announced: the folder is not looked for.
AnnouncedUnchecked(d, f) == FALSE

\* handleFolderAnnounce finds the folder in the configuration.
Announced(d, f) == Known(d, f)

\* handleFolderAnnounce: a known folder is answered with the full index, an
\* unknown one is created, enabled, with the sender's SyncDelete.
ReceiveAnnounce(d, t, m) ==
  /\ Free(d, t)
  /\ m \in net[d] /\ m.kind = "announce"
  /\ \/ /\ Announced(d, m.id)
        /\ net' = [net EXCEPT ![d] = @ \ {m}, ![Peer(d)] = @ \cup Indexes(d)]
        /\ UNCHANGED <<task, doubled>>
     \/ /\ ~Announced(d, m.id)
        /\ net' = [net EXCEPT ![d] = @ \ {m}]
        /\ task' = [task EXCEPT ![d][t] =
             [pc |-> "add", kind |-> "announce",
              entry |-> [id |-> m.id, syncDelete |-> m.syncDelete,
                         enabled |-> TRUE]]]
        /\ doubled' = IF Creating(d, m.id) # {} THEN doubled \cup {<<d, m.id>>}
                                                ELSE doubled
  /\ UNCHANGED <<memory, file, watchers, orphans, connected, down, raced,
                 optedIn, removed, count>>

\* Mutant of CreatedByIndex: deletions are synchronised.
CreatedByIndexDeleting(f) == [id |-> f, syncDelete |-> TRUE, enabled |-> TRUE]

\* The entry handleIndexMessage creates.
CreatedByIndex(f) == [id |-> f, syncDelete |-> FALSE, enabled |-> TRUE]

\* handleIndexMessage looks for a watcher, not for an entry: a folder that is
\* disabled, or whose watcher has not been started yet, is created again.
ReceiveIndex(d, t, m) ==
  /\ Free(d, t)
  /\ m \in net[d] /\ m.kind = "index"
  /\ net' = [net EXCEPT ![d] = @ \ {m}]
  /\ \/ /\ m.id \in watchers[d]
        /\ UNCHANGED <<task, doubled>>
     \/ /\ m.id \notin watchers[d]
        /\ task' = [task EXCEPT ![d][t] =
             [pc |-> "add", kind |-> "index", entry |-> CreatedByIndex(m.id)]]
        /\ doubled' = IF Known(d, m.id) \/ Creating(d, m.id) # {}
                      THEN doubled \cup {<<d, m.id>>} ELSE doubled
  /\ UNCHANGED <<memory, file, watchers, orphans, connected, down, raced,
                 optedIn, removed, count>>

\* DELETE /api/folders: the first entry goes, if there is one; saved in any case.
UserRemoves(d, t, f) ==
  /\ Free(d, t) /\ Saving(d) = {}
  /\ Requested
  /\ \/ \E i \in DOMAIN folders[d] :
          /\ folders[d][i].id = f /\ \A j \in 1..(i - 1) : folders[d][j].id # f
          /\ folders' = [folders EXCEPT ![d] = RemoveAt(@, i)]
     \/ ~Known(d, f) /\ UNCHANGED folders
  /\ task' = [task EXCEPT ![d][t] = [pc |-> "save", kind |-> "remove"]]
  /\ removed' = removed \cup {f}
  /\ UNCHANGED <<other, file, watchers, orphans, net, connected, down, raced,
                 doubled, optedIn, faults>>

\* AddPeer, RemovePeer, UpdatePeerID, SetFolderImageFolder: a change under
\* cfg.mu, and a save.
GuardedChange(d, t) ==
  /\ Free(d, t) /\ Saving(d) = {}
  /\ Requested
  /\ other' = [other EXCEPT ![d].changes = @ + 1]
  /\ task' = [task EXCEPT ![d][t] = [pc |-> "save", kind |-> "change"]]
  /\ UNCHANGED <<folders, file, watchers, orphans, net, connected, down, history,
                 faults>>

\* handleSettings and handleTailscaleMode assign fields without the lock, and
\* whatever number the request holds.
UnguardedChange(d, t) ==
  /\ Free(d, t)
  /\ Requested
  /\ \E n \in Limit : other' = [other EXCEPT ![d].limit = n]
  /\ raced' = IF Saving(d) # {} THEN raced \cup {d} ELSE raced
  /\ task' = [task EXCEPT ![d][t] = [pc |-> "save", kind |-> "change"]]
  /\ UNCHANGED <<folders, file, watchers, orphans, net, connected, down,
                 doubled, optedIn, removed, faults>>

-----------------------------------------------------------------------------
(* Operations go on. *)

\* Mutant of AfterAdd: the folder an index brings is not saved.
AfterAddUnsaved(kind) == IF kind = "index" THEN "refresh" ELSE "save"

\* Every way of adding a folder saves it.
AfterAdd(kind) == "save"

\* cfg.AddFolder waits for the saves that hold the lock for reading.
Add(d, t) ==
  /\ task[d][t].pc = "add" /\ Saving(d) = {}
  /\ Len(folders[d]) < MaxEntries
  /\ folders' = [folders EXCEPT ![d] = Append(@, task[d][t].entry)]
  /\ Goto(d, t, AfterAdd(task[d][t].kind))
  /\ UNCHANGED <<other, file, watchers, orphans, net, connected, down, history,
                 count>>

\* Save takes the lock for reading, encodes the configuration, and os.WriteFile
\* truncates the file ...
StartSave(d, t) ==
  /\ task[d][t].pc = "save"
  /\ file' = [file EXCEPT ![d] = Torn]
  /\ task' = [task EXCEPT ![d][t] =
       [pc |-> "write", data |-> Snapshot(d), then |-> @]]
  /\ UNCHANGED <<memory, watchers, orphans, net, connected, down, history, count>>

\* Mutant of AfterSave: a removal leaves the watchers as they are.
AfterSaveKeeping(kind) ==
  IF kind \in {"change", "remove"} THEN "idle" ELSE "refresh"

\* Mutant of AfterSave: the watchers are never started anew.
AfterSaveIdle(kind) == "idle"

\* Changes that are not about folders end with the save.
AfterSave(kind) == IF kind = "change" THEN "idle" ELSE "refresh"

\* ... and writes it.  Another save may have written meanwhile: over shorter
\* or equal content this one prevails, of longer content the end stays.
EndSave(d, t) ==
  /\ task[d][t].pc = "write"
  /\ LET j == task[d][t] IN
       /\ \/ file' = [file EXCEPT ![d] = j.data]
          \/ /\ file[d] \notin {Torn, j.data}
             /\ file' = [file EXCEPT ![d] = Torn]
       /\ task' = [task EXCEPT ![d][t] =
            IF AfterSave(j.then.kind) = "idle" THEN Idle
            ELSE [j.then EXCEPT !.pc = AfterSave(j.then.kind)]]
  /\ UNCHANGED <<memory, watchers, orphans, net, connected, down, history, count>>

\* RefreshWatchers stops the watchers in the map and starts one for every
\* enabled entry.
Refresh(d, t) ==
  /\ task[d][t].pc = "refresh"
  /\ watchers' = [watchers EXCEPT ![d] = EnabledIds(folders[d])]
  /\ orphans' = [orphans EXCEPT ![d] = @ \cup WatchedTwice(folders[d])]
  /\ IF task[d][t].kind = "remove" THEN Finish(d, t) ELSE Goto(d, t, "send")
  /\ UNCHANGED <<memory, file, net, connected, down, history, count>>

\* What is sent in the end: a user's folder is announced to the peers and then
\* TriggerSync sends the indexes; an announced folder is answered with the
\* full index; an index only looks for its watcher again.
SendFolder(d, t) ==
  /\ task[d][t].pc = "send"
  /\ Send(d, CASE task[d][t].kind = "user" -> {Announcement(task[d][t].entry)}
               [] task[d][t].kind = "announce" -> Indexes(d)
               [] OTHER -> {})
  /\ IF task[d][t].kind = "user" THEN Goto(d, t, "trigger") ELSE Finish(d, t)
  /\ UNCHANGED <<memory, file, watchers, orphans, connected, down, history, count>>

TriggerSync(d, t) ==
  /\ task[d][t].pc = "trigger"
  /\ Send(d, Indexes(d))
  /\ Finish(d, t)
  /\ UNCHANGED <<memory, file, watchers, orphans, connected, down, history, count>>

-----------------------------------------------------------------------------
(* Sessions and restarts. *)

\* Both ends announce their folders and send their index.
Greeting(d) == Announcements(d) \cup Indexes(d)

Connect ==
  /\ ~connected /\ down = {}
  /\ connected' = TRUE
  /\ net' = [d \in Device |-> Greeting(Peer(d))]
  /\ UNCHANGED <<memory, file, watchers, orphans, task, down, history, count>>

Drop ==
  /\ connected /\ Fault
  /\ connected' = FALSE /\ net' = [d \in Device |-> {}]
  /\ UNCHANGED <<memory, file, watchers, orphans, task, down, history, requests>>

\* The program ends at any point and starts again: Load, startWatchers.  It
\* refuses a file it cannot parse.
Restart(d) ==
  /\ d \notin down /\ Fault
  /\ task' = [task EXCEPT ![d] = [t \in Task |-> Idle]]
  /\ connected' = FALSE /\ net' = [e \in Device |-> {}]
  /\ IF file[d] = Torn
     THEN /\ down' = down \cup {d}
          /\ watchers' = [watchers EXCEPT ![d] = {}]
          /\ orphans' = [orphans EXCEPT ![d] = {}]
          /\ UNCHANGED memory
     ELSE /\ folders' = [folders EXCEPT ![d] = Loaded(file[d]).folders]
          /\ other' = [other EXCEPT ![d] = Loaded(file[d]).other]
          /\ watchers' = [watchers EXCEPT ![d] = EnabledIds(file[d].folders)]
          /\ orphans' = [orphans EXCEPT ![d] = WatchedTwice(file[d].folders)]
          /\ UNCHANGED down
  /\ UNCHANGED <<file, history, requests>>

Step(d, t) ==
  \/ Add(d, t) \/ StartSave(d, t) \/ EndSave(d, t) \/ Refresh(d, t)
  \/ SendFolder(d, t) \/ TriggerSync(d, t)

Receive(d, t) ==
  \E m \in net[d] : ReceiveAnnounce(d, t, m) \/ ReceiveIndex(d, t, m)

User(d, t) ==
  \/ \E e \in Entry : UserAdds(d, t, e)
  \/ \E f \in Folder : UserRemoves(d, t, f)
  \/ GuardedChange(d, t) \/ UnguardedChange(d, t)

Next ==
  \/ \E d \in Device, t \in Task : Step(d, t) \/ Receive(d, t) \/ User(d, t)
  \/ Connect \/ Drop
  \/ \E d \in Device : Restart(d)

Spec == Init /\ [][Next]_vars

\* Some goroutine that can go on does, some stream is accepted, and devices
\* without a session dial.
FairSpec ==
  /\ Spec
  /\ WF_vars(\E d \in Device, t \in Task : Step(d, t))
  /\ WF_vars(\E d \in Device, t \in Task : Receive(d, t))
  /\ WF_vars(Connect)

-----------------------------------------------------------------------------
(* Properties. *)

Settings == [changes : Nat, limit : Nat]
Config == [folders : Seq(Entry), other : Settings]
Message ==
  [kind : {"announce"}, id : Folder, syncDelete : BOOLEAN] \cup
  [kind : {"index"}, id : Folder]
Pending ==
  [pc : {"add", "save", "refresh", "send", "trigger"},
   kind : {"user", "announce", "index"}, entry : Entry] \cup
  [pc : {"save", "refresh"}, kind : {"remove"}] \cup
  [pc : {"save"}, kind : {"change"}]
Writing == [pc : {"write"}, data : Config, then : Pending]
Job == {Idle} \cup Pending \cup Writing

TypeOK ==
  /\ folders \in [Device -> Seq(Entry)] /\ other \in [Device -> Settings]
  /\ file \in [Device -> Config \cup {Torn}]
  /\ watchers \in [Device -> SUBSET Folder]
  /\ orphans \in [Device -> SUBSET Folder]
  /\ task \in [Device -> [Task -> Job]]
  /\ net \in [Device -> SUBSET Message]
  /\ connected \in BOOLEAN
  /\ down \subseteq Device /\ raced \subseteq Device
  /\ doubled \subseteq Device \X Folder /\ optedIn \subseteq Folder
  /\ removed \subseteq Folder /\ requests \in Nat /\ faults \in Nat

Unsaved(d) == \E t \in Task : task[d][t].pc \in {"save", "write"}

\* A goroutine that is on its way to RefreshWatchers after a change of folders.
Refreshes(j) ==
  \/ j.pc \in {"save", "refresh"} /\ j.kind # "change"
  \/ j.pc = "write" /\ j.then.kind # "change"
Unrefreshed(d) == \E t \in Task : Refreshes(task[d][t])

\* However saves overlap, once they are over the file holds the configuration
\* in memory or, after a restart, the one whose zeros Load replaced: no save
\* that lost a race to the file is missing from it.  Only a change made without
\* the lock during a save can leave an older or unreadable file behind.
FileIsCurrent ==
  \A d \in Device \ down : ~Unsaved(d) /\ d \notin raced =>
    file[d] # Torn /\ Snapshot(d) \in {file[d], Loaded(file[d])}

\* Every watcher that scans and announces, in the map or not.
Running(d) == watchers[d] \cup orphans[d]

\* However operations overlap, once they are over the map of watchers holds
\* just the enabled folders, and no other folder is scanned: none is forgotten
\* and none removed goes on being announced, unless two entries of it once met
\* (doubled), of which one watcher may run on for ever in no map.
WatchersAreCurrent ==
  \A d \in Device \ down : ~Unrefreshed(d) =>
    /\ watchers[d] = EnabledIds(folders[d])
    /\ \A f \in Running(d) : f \in EnabledIds(folders[d]) \/ <<d, f>> \in doubled

\* A folder is configured and watched once, unless two creations of it met, or
\* an index came for a folder that has an entry but no watcher.
ConfiguredOnce ==
  \A d \in Device, f \in Folder : <<d, f>> \notin doubled =>
    /\ Cardinality(EntriesOf(folders[d], f)) <= 1
    /\ f \notin orphans[d]

\* No device deletes a folder's files for a peer unless some user asked for it:
\* SyncDelete is never set by what messages, restarts and races do.
DeleteIsOptIn ==
  \A d \in Device : \A i \in DOMAIN folders[d] :
    folders[d][i].syncDelete => folders[d][i].id \in optedIn

\* A folder that stays enabled on a device is in the end watched on the other,
\* however sessions were lost, as long as no user removed or disabled it there
\* and both devices could load their configuration.
Wanted(f) == \E d \in Device : f \in EnabledIds(folders[d])
FolderSpreads ==
  \A f \in Folder :
    []<>(~Wanted(f) \/ (\A d \in Device : f \in watchers[d])
         \/ f \in removed \/ down # {}
         \/ \E d \in Device : \E i \in DOMAIN folders[d] : ~folders[d][i].enabled)
=============================================================================
